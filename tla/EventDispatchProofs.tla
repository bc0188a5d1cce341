------------------------ MODULE EventDispatchProofs ------------------------
(***************************************************************************)
(* Proofs about EventDispatch.  The lists are copies that leave entries    *)
(* out (Kept), so the first part says what such a copy holds and in which  *)
(* order; leases are counted by Cardinality, so the next says how the      *)
(* count changes as closures and frames come and go.  The invariant has a  *)
(* part about the listener list, which the threads' passes leave alone,    *)
(* one about the passes, and the account of the leases.                    *)
(***************************************************************************)
EXTENDS EventDispatch, Sums, SequenceTheorems

-----------------------------------------------------------------------------
(* Copies of a list that leave entries out.                                *)

\* What the definition of Kept computes for the first n entries, where g has it
\* for fewer.
KeptStep(g, s, S, n) ==
    IF n = 0 THEN <<>>
    ELSE IF s[n] \in S THEN Append(g[n - 1], s[n]) ELSE g[n - 1]

\* g is a list of the first entries of s in S, for each number of entries.
Keeps(g, s, S, T, N) ==
    \A n \in 0 .. N : g[n] \in Seq(T) /\ g[n] = KeptStep(g, s, S, n)

\* The recursion has a solution ...
LEMMA KeptUpTo ==
    ASSUME NEW T, NEW s \in Seq(T), NEW S
    PROVE  \E g : g = [n \in 0 .. Len(s) |-> KeptStep(g, s, S, n)]
  <1> DEFINE Solved(n) == \E g \in [0 .. n -> Seq(T)] :
                              \A i \in 0 .. n : g[i] = KeptStep(g, s, S, i)
             N == {n \in Nat : n <= Len(s) => Solved(n)}
  <1> HIDE DEF Solved
  <1>1. 0 \in N
    <2> DEFINE g == [i \in 0 .. 0 |-> <<>>]
    <2>1. g \in [0 .. 0 -> Seq(T)] /\ \A i \in 0 .. 0 : g[i] = KeptStep(g, s, S, i)
      BY DEF KeptStep
    <2> QED BY <2>1 DEF Solved
  <1>2. ASSUME NEW n \in Nat, n \in N PROVE n + 1 \in N
    <2> SUFFICES ASSUME n + 1 <= Len(s) PROVE Solved(n + 1)
      OBVIOUS
    <2>1. Len(s) \in Nat /\ s[n + 1] \in T
      BY ElementOfSeq, LenProperties
    <2>2. PICK g \in [0 .. n -> Seq(T)] : \A i \in 0 .. n : g[i] = KeptStep(g, s, S, i)
      BY <1>2, <2>1 DEF Solved
    <2> DEFINE h == [i \in 0 .. n + 1 |-> KeptStep(g, s, S, i)]
    <2>3. g[n] \in Seq(T) /\ Append(g[n], s[n + 1]) \in Seq(T)
      BY <2>1, <2>2, AppendProperties
    <2>4. \A i \in 0 .. n : h[i] = g[i]
      BY <2>2
    <2>5. h[n + 1] \in Seq(T)
      BY <2>1, <2>3 DEF KeptStep
    <2>6. h \in [0 .. n + 1 -> Seq(T)]
      BY <2>2, <2>4, <2>5
    <2>7. \A i \in 0 .. n + 1 : h[i] = KeptStep(h, s, S, i)
      <3>1. \A i \in 0 .. n + 1 : h[i] = KeptStep(g, s, S, i)
        OBVIOUS
      <3> HIDE DEF h
      <3>2. \A i \in 0 .. n + 1 : i # 0 => h[i - 1] = g[i - 1]
        BY <2>4
      <3> QED BY <3>1, <3>2 DEF KeptStep
    <2> HIDE DEF h
    <2> QED BY <2>6, <2>7 DEF Solved
  <1>6. \A n \in N : n <= Len(s) => Solved(n)
    OBVIOUS
  <1> HIDE DEF N
  <1>3. Nat \subseteq N
    BY <1>1, <1>2, NatSetInduction
  <1>4. Len(s) \in Nat
    BY LenProperties
  <1>5. Solved(Len(s))
    BY <1>3, <1>4, <1>6
  <1> QED
    <2>1. PICK g \in [0 .. Len(s) -> Seq(T)] :
              \A i \in 0 .. Len(s) : g[i] = KeptStep(g, s, S, i)
      BY <1>5 DEF Solved
    <2> QED BY <2>1

\* ... which Kept takes its last value of.
LEMMA KeptDef ==
    ASSUME NEW T, NEW s \in Seq(T), NEW S
    PROVE  \E g : /\ g = [n \in 0 .. Len(s) |-> KeptStep(g, s, S, n)]
                  /\ Kept(s, S) = g[Len(s)]
  <1> DEFINE G == CHOOSE g : g = [n \in 0 .. Len(s) |-> KeptStep(g, s, S, n)]
  <1>1. G = [n \in 0 .. Len(s) |-> KeptStep(G, s, S, n)]
    BY KeptUpTo
  <1>2. Kept(s, S) = G[Len(s)]
    BY DEF Kept, KeptStep
  <1> HIDE DEF G
  <1> QED BY <1>1, <1>2

LEMMA AppendRange ==
    ASSUME NEW T, NEW q \in Seq(T), NEW x \in T
    PROVE  /\ Append(q, x) \in Seq(T)
           /\ Range(Append(q, x)) = Range(q) \cup {x}
  <1>1. /\ Append(q, x) \in Seq(T) /\ Len(q) \in Nat
        /\ DOMAIN q = 1 .. Len(q) /\ DOMAIN Append(q, x) = 1 .. Len(q) + 1
        /\ \A i \in 1 .. Len(q) : Append(q, x)[i] = q[i]
        /\ Append(q, x)[Len(q) + 1] = x
    BY AppendProperties, LenProperties
  <1>2. Range(Append(q, x)) \subseteq Range(q) \cup {x}
    <2> SUFFICES ASSUME NEW i \in 1 .. Len(q) + 1
                 PROVE  Append(q, x)[i] \in Range(q) \cup {x}
      BY <1>1 DEF Range
    <2>1. i \in 1 .. Len(q) \/ i = Len(q) + 1
      BY <1>1
    <2> QED BY <1>1, <2>1 DEF Range
  <1>3. Range(q) \cup {x} \subseteq Range(Append(q, x))
    <2>1. Len(q) + 1 \in 1 .. Len(q) + 1 /\ 1 .. Len(q) \subseteq 1 .. Len(q) + 1
      BY <1>1
    <2> QED BY <1>1, <2>1 DEF Range
  <1> QED BY <1>1, <1>2, <1>3

LEMMA AppendOrdered ==
    ASSUME NEW T, NEW q \in Seq(T), NEW x \in T, Ordered(q), \A y \in Range(q) : Before(y, x)
    PROVE  Ordered(Append(q, x))
  <1>1. /\ Len(q) \in Nat
        /\ DOMAIN q = 1 .. Len(q) /\ DOMAIN Append(q, x) = 1 .. Len(q) + 1
        /\ \A i \in 1 .. Len(q) : Append(q, x)[i] = q[i] /\ q[i] \in Range(q)
        /\ Append(q, x)[Len(q) + 1] = x
    BY AppendProperties, LenProperties DEF Range
  <1> SUFFICES ASSUME NEW i \in 1 .. Len(q) + 1, NEW j \in 1 .. Len(q) + 1, i < j
               PROVE  Before(Append(q, x)[i], Append(q, x)[j])
    BY <1>1 DEF Ordered
  <1>2. i \in 1 .. Len(q)
    BY <1>1
  <1>3. CASE j \in 1 .. Len(q)
    BY <1>1, <1>2, <1>3 DEF Ordered
  <1>4. CASE j = Len(q) + 1
    BY <1>1, <1>2, <1>4
  <1> QED BY <1>1, <1>3, <1>4

\* A copy holds the entries it keeps, in their order.
LEMMA KeptIs ==
    ASSUME NEW T, NEW s \in Seq(T), NEW S
    PROVE  /\ Kept(s, S) \in Seq(T)
           /\ Range(Kept(s, S)) = Range(s) \cap S
           /\ Ordered(s) => Ordered(Kept(s, S))
  <1>1. PICK g : /\ g = [n \in 0 .. Len(s) |-> KeptStep(g, s, S, n)]
                 /\ Kept(s, S) = g[Len(s)]
    BY KeptDef
  <1>2. Len(s) \in Nat /\ DOMAIN s = 1 .. Len(s) /\ \A i \in 1 .. Len(s) : s[i] \in T
    BY ElementOfSeq, LenProperties
  <1> DEFINE First(n) == {s[i] : i \in 1 .. n}
             IsCopy(n) == /\ g[n] \in Seq(T)
                          /\ Range(g[n]) = First(n) \cap S
                          /\ Ordered(s) => Ordered(g[n])
             N == {n \in Nat : n <= Len(s) => IsCopy(n)}
  <1>3. \A n \in 0 .. Len(s) : g[n] = KeptStep(g, s, S, n)
    BY <1>1
  <1>4. IsCopy(0)
    <2>1. g[0] = <<>>
      BY <1>2, <1>3 DEF KeptStep
    <2>2. Range(<<>>) = {} /\ Ordered(<<>>) /\ First(0) = {} /\ <<>> \in Seq(T)
      BY DEF Range, Ordered
    <2> HIDE DEF First
    <2> QED BY <2>1, <2>2
  <1>5. ASSUME NEW n \in Nat, n + 1 <= Len(s), IsCopy(n) PROVE IsCopy(n + 1)
    <2>1. n + 1 \in 1 .. Len(s) /\ n + 1 \in 0 .. Len(s) /\ (n + 1) - 1 = n
      BY <1>2, <1>5
    <2>2. g[n + 1] = IF s[n + 1] \in S THEN Append(g[n], s[n + 1]) ELSE g[n]
      BY <1>3, <2>1 DEF KeptStep
    <2>3. First(n + 1) = First(n) \cup {s[n + 1]}
      BY <2>1
    <2>4. ASSUME Ordered(s) PROVE \A y \in First(n) : Before(y, s[n + 1])
      BY <1>2, <2>1, <2>4 DEF Ordered
    <2>5. s[n + 1] \in T
      BY <1>2, <2>1
    <2>6. g[n] \in Seq(T) /\ Range(g[n]) = First(n) \cap S /\ (Ordered(s) => Ordered(g[n]))
      BY <1>5
    <2> HIDE DEF First
    <2>7. CASE s[n + 1] \in S
      <3>1. /\ Append(g[n], s[n + 1]) \in Seq(T)
            /\ Range(Append(g[n], s[n + 1])) = Range(g[n]) \cup {s[n + 1]}
        BY ONLY <2>5, <2>6, AppendRange
      <3>2. Ordered(s) => Ordered(Append(g[n], s[n + 1]))
        <4> SUFFICES ASSUME Ordered(s) PROVE Ordered(Append(g[n], s[n + 1]))
          OBVIOUS
        <4>1. \A y \in Range(g[n]) : Before(y, s[n + 1])
          BY <2>4, <2>6
        <4> QED BY ONLY Ordered(s), <4>1, <2>5, <2>6, AppendOrdered
      <3> QED BY <2>2, <2>3, <2>6, <2>7, <3>1, <3>2
    <2>8. CASE s[n + 1] \notin S
      BY <2>2, <2>3, <2>6, <2>8
    <2> QED BY <2>7, <2>8
  <1>6. First(Len(s)) = Range(s)
    BY <1>2 DEF Range
  <1> HIDE DEF IsCopy
  <1>7. 0 \in N /\ \A n \in Nat : n \in N => n + 1 \in N
    BY <1>2, <1>4, <1>5
  <1>8. \A n \in N : n <= Len(s) => IsCopy(n)
    OBVIOUS
  <1> HIDE DEF N
  <1>9. Nat \subseteq N
    BY ONLY <1>7, NatSetInduction
  <1>10. IsCopy(Len(s))
    BY <1>2, <1>8, <1>9
  <1> HIDE DEF First
  <1> QED BY <1>1, <1>6, <1>10 DEF IsCopy

-----------------------------------------------------------------------------
(* Lists, taken apart and put together.                                    *)

LEMMA TailIs ==
    ASSUME NEW T, NEW s \in Seq(T), s # <<>>
    PROVE  /\ Head(s) \in T /\ Tail(s) \in Seq(T)
           /\ Range(s) = {Head(s)} \cup Range(Tail(s))
           /\ Ordered(s) => Ordered(Tail(s))
  <1>1. /\ Head(s) \in T /\ Tail(s) \in Seq(T) /\ Len(s) \in Nat \ {0}
        /\ DOMAIN s = 1 .. Len(s) /\ DOMAIN Tail(s) = 1 .. Len(s) - 1
        /\ \A i \in 1 .. Len(s) - 1 : Tail(s)[i] = s[i + 1]
        /\ Head(s) = s[1]
    BY HeadTailProperties, LenProperties, EmptySeq
  <1>2. 1 \in 1 .. Len(s) /\ \A i \in 1 .. Len(s) - 1 : i + 1 \in 1 .. Len(s)
    BY <1>1
  <1>3. {Head(s)} \cup Range(Tail(s)) \subseteq Range(s)
    BY <1>1, <1>2 DEF Range
  <1>4. Range(s) \subseteq {Head(s)} \cup Range(Tail(s))
    <2> SUFFICES ASSUME NEW i \in 1 .. Len(s), i # 1 PROVE s[i] \in Range(Tail(s))
      BY <1>1 DEF Range
    <2>1. i - 1 \in 1 .. Len(s) - 1 /\ (i - 1) + 1 = i
      BY <1>1
    <2>2. s[i] = Tail(s)[i - 1]
      BY <1>1, <2>1
    <2> QED BY <1>1, <2>1, <2>2 DEF Range
  <1>5. ASSUME Ordered(s) PROVE Ordered(Tail(s))
    <2> SUFFICES ASSUME NEW i \in 1 .. Len(s) - 1, NEW j \in 1 .. Len(s) - 1, i < j
                 PROVE  Before(Tail(s)[i], Tail(s)[j])
      BY <1>1 DEF Ordered
    <2>1. i + 1 \in 1 .. Len(s) /\ j + 1 \in 1 .. Len(s) /\ i + 1 < j + 1
      BY <1>2
    <2> QED BY <1>1, <1>5, <2>1 DEF Ordered
  <1> QED BY <1>1, <1>3, <1>4, <1>5

LEMMA ConcatIs ==
    ASSUME NEW T, NEW a \in Seq(T), NEW b \in Seq(T)
    PROVE  /\ a \o b \in Seq(T)
           /\ Range(a \o b) = Range(a) \cup Range(b)
           /\ Ordered(a) /\ Ordered(b) /\ (\A x \in Range(a), y \in Range(b) : Before(x, y))
                  => Ordered(a \o b)
  <1> DEFINE c == a \o b
  <1>1. /\ c \in Seq(T) /\ Len(a) \in Nat /\ Len(b) \in Nat
        /\ DOMAIN a = 1 .. Len(a) /\ DOMAIN b = 1 .. Len(b)
        /\ DOMAIN c = 1 .. Len(a) + Len(b)
        /\ \A i \in 1 .. Len(a) + Len(b) : c[i] = IF i <= Len(a) THEN a[i] ELSE b[i - Len(a)]
    BY ConcatProperties, LenProperties
  <1> HIDE DEF c
  <1>10. /\ \A i \in 1 .. Len(a) : a[i] \in Range(a)
        /\ \A i \in 1 .. Len(b) : b[i] \in Range(b)
    BY <1>1 DEF Range
  <1>9. Range(c) = {c[i] : i \in 1 .. Len(a) + Len(b)}
    BY <1>1 DEF Range
  <1>2. \A i \in 1 .. Len(a) : i \in 1 .. Len(a) + Len(b) /\ c[i] = a[i] /\ a[i] \in Range(a)
    <2> SUFFICES ASSUME NEW i \in 1 .. Len(a)
                 PROVE  i \in 1 .. Len(a) + Len(b) /\ c[i] = a[i]
      BY <1>10
    <2>1. i \in 1 .. Len(a) + Len(b) /\ i <= Len(a)
      BY <1>1
    <2> QED BY <1>1, <2>1
  <1>3. \A i \in 1 .. Len(b) : Len(a) + i \in 1 .. Len(a) + Len(b) /\ c[Len(a) + i] = b[i]
                               /\ b[i] \in Range(b)
    <2> SUFFICES ASSUME NEW i \in 1 .. Len(b)
                 PROVE  /\ Len(a) + i \in 1 .. Len(a) + Len(b) /\ c[Len(a) + i] = b[i]
                        /\ b[i] \in Range(b)
      OBVIOUS
    <2>1. Len(a) + i \in 1 .. Len(a) + Len(b) /\ ~(Len(a) + i <= Len(a)) /\ Len(a) + i - Len(a) = i
      BY <1>1
    <2>2. c[Len(a) + i] = b[i]
      BY <1>1, <2>1
    <2> QED BY <1>10, <2>1, <2>2
  <1>4. \A i \in 1 .. Len(a) + Len(b) :
            \/ i \in 1 .. Len(a)
            \/ i - Len(a) \in 1 .. Len(b) /\ Len(a) + (i - Len(a)) = i
    BY <1>1
  <1>5. Range(c) \subseteq Range(a) \cup Range(b)
    <2> SUFFICES ASSUME NEW i \in 1 .. Len(a) + Len(b) PROVE c[i] \in Range(a) \cup Range(b)
      BY <1>1 DEF Range
    <2>1. CASE i \in 1 .. Len(a)
      BY <1>2, <2>1
    <2>2. CASE i - Len(a) \in 1 .. Len(b) /\ Len(a) + (i - Len(a)) = i
      <3>1. c[Len(a) + (i - Len(a))] \in Range(b)
        BY <1>3, <2>2
      <3> QED BY <2>2, <3>1
    <2> QED BY <1>4, <2>1, <2>2
  <1>6. Range(a) \cup Range(b) \subseteq Range(c)
    <2>1. Range(a) = {a[i] : i \in 1 .. Len(a)} /\ Range(b) = {b[i] : i \in 1 .. Len(b)}
      BY <1>1 DEF Range
    <2> QED BY <1>2, <1>3, <1>9, <2>1
  <1>7. ASSUME Ordered(a), Ordered(b), \A x \in Range(a), y \in Range(b) : Before(x, y)
        PROVE  Ordered(c)
    <2> SUFFICES ASSUME NEW i \in 1 .. Len(a) + Len(b), NEW j \in 1 .. Len(a) + Len(b), i < j
                 PROVE  Before(c[i], c[j])
      BY <1>1 DEF Ordered
    <2>1. CASE i \in 1 .. Len(a) /\ j \in 1 .. Len(a)
      <3>1. Before(a[i], a[j])
        BY <1>1, <1>7, <2>1 DEF Ordered
      <3> QED BY <1>2, <2>1, <3>1
    <2>2. CASE i \in 1 .. Len(a) /\ j - Len(a) \in 1 .. Len(b) /\ Len(a) + (j - Len(a)) = j
      <3>1. c[i] = a[i] /\ a[i] \in Range(a)
        BY <1>2, <2>2
      <3>2. c[Len(a) + (j - Len(a))] = b[j - Len(a)] /\ b[j - Len(a)] \in Range(b)
        BY <1>3, <2>2
      <3>3. Before(a[i], b[j - Len(a)])
        BY <1>7, <3>1, <3>2
      <3> QED BY <2>2, <3>1, <3>2, <3>3
    <2>3. CASE /\ i - Len(a) \in 1 .. Len(b) /\ Len(a) + (i - Len(a)) = i
               /\ j - Len(a) \in 1 .. Len(b) /\ Len(a) + (j - Len(a)) = j
      <3>1. c[Len(a) + (i - Len(a))] = b[i - Len(a)] /\ c[Len(a) + (j - Len(a))] = b[j - Len(a)]
        BY <1>3, <2>3
      <3>2. i - Len(a) < j - Len(a)
        BY <1>1
      <3>3. Before(b[i - Len(a)], b[j - Len(a)])
        BY <1>1, <1>7, <2>3, <3>2 DEF Ordered
      <3> QED BY <2>3, <3>1, <3>3
    <2>4. ~(i - Len(a) \in 1 .. Len(b) /\ j \in 1 .. Len(a))
      BY <1>1
    <2> QED BY <1>4, <2>1, <2>2, <2>3, <2>4
  <1> QED BY <1>1, <1>5, <1>6, <1>7 DEF c

LEMMA OneEntry ==
    ASSUME NEW T, NEW e \in T
    PROVE  /\ <<e>> \in Seq(T) /\ <<e>> # <<>> /\ Range(<<e>>) = {e} /\ Ordered(<<e>>)
           /\ Head(<<e>>) = e
  BY DEF Range, Ordered

LEMMA ConsIs ==
    ASSUME NEW T, NEW s \in Seq(T), NEW f \in T
    PROVE  /\ <<f>> \o s \in Seq(T) /\ <<f>> \o s # <<>>
           /\ Head(<<f>> \o s) = f
           /\ Tail(<<f>> \o s) = s
           /\ Len(<<f>> \o s) = Len(s) + 1
  <1> DEFINE c == <<f>> \o s
  <1>1. <<f>> \in Seq(T) /\ Len(<<f>>) = 1 /\ <<f>>[1] = f /\ Len(s) \in Nat
    BY LenProperties
  <1>2. /\ c \in Seq(T) /\ Len(c) = 1 + Len(s)
        /\ \A i \in 1 .. 1 + Len(s) : c[i] = IF i <= 1 THEN <<f>>[i] ELSE s[i - 1]
    BY <1>1, ConcatProperties
  <1> HIDE DEF c
  <1>3. 1 \in 1 .. 1 + Len(s) /\ c[1] = f
    BY <1>1, <1>2
  <1>4. c # <<>> /\ Head(c) = f
    BY <1>1, <1>2, <1>3, EmptySeq
  <1>5. /\ Tail(c) \in Seq(T) /\ Len(Tail(c)) = Len(s)
        /\ \A i \in 1 .. Len(s) : Tail(c)[i] = c[i + 1]
    BY <1>1, <1>2, <1>4, HeadTailProperties
  <1>6. \A i \in 1 .. Len(s) : c[i + 1] = s[i]
    <2> SUFFICES ASSUME NEW i \in 1 .. Len(s) PROVE c[i + 1] = s[i]
      OBVIOUS
    <2>1. i + 1 \in 1 .. 1 + Len(s) /\ ~(i + 1 <= 1) /\ (i + 1) - 1 = i
      BY <1>1
    <2> QED BY <1>2, <2>1
  <1>7. Tail(c) = s
    BY ONLY <1>5, <1>6, s \in Seq(T), SeqEqual
  <1> QED BY <1>1, <1>2, <1>4, <1>7 DEF c

-----------------------------------------------------------------------------
(* Leases in lists of closures or frames.                                  *)

\* The lease an element x of a list adds.
One(x) == IF x.leased THEN 1 ELSE 0

LEMMA LeasesNat == ASSUME NEW T, NEW s \in Seq(T) PROVE Leases(s) \in Nat
  <1>1. Len(s) \in Nat /\ DOMAIN s = 1 .. Len(s)
    BY LenProperties
  <1>2. IsFiniteSet(1 .. Len(s)) /\ {i \in DOMAIN s : s[i].leased} \in SUBSET (1 .. Len(s))
    BY <1>1, FS_Interval
  <1> QED BY <1>2, FS_Subset, FS_CardinalityType DEF Leases

LEMMA LeasesEmpty == Leases(<<>>) = 0
  <1>1. {i \in DOMAIN <<>> : <<>>[i].leased} = {}
    OBVIOUS
  <1> QED BY <1>1, FS_EmptySet DEF Leases

LEMMA LeasesTail ==
    ASSUME NEW T, NEW s \in Seq(T), s # <<>>
    PROVE  Leases(s) = One(Head(s)) + Leases(Tail(s))
  <1> DEFINE A == {i \in DOMAIN s : s[i].leased}
             B == {i \in DOMAIN Tail(s) : Tail(s)[i].leased}
             R == A \ {1}
             f == [i \in B |-> i + 1]
  <1>1. /\ Tail(s) \in Seq(T) /\ Len(s) \in Nat \ {0}
        /\ DOMAIN s = 1 .. Len(s) /\ DOMAIN Tail(s) = 1 .. Len(s) - 1
        /\ \A i \in 1 .. Len(s) - 1 : Tail(s)[i] = s[i + 1]
        /\ Head(s) = s[1]
    BY HeadTailProperties, LenProperties, EmptySeq
  <1>2. \A i \in B : i \in 1 .. Len(s) - 1 /\ i + 1 \in R
    <2> SUFFICES ASSUME NEW i \in B PROVE i \in 1 .. Len(s) - 1 /\ i + 1 \in R
      OBVIOUS
    <2>1. i \in 1 .. Len(s) - 1 /\ Tail(s)[i].leased
      BY <1>1
    <2>2. i + 1 \in 1 .. Len(s) /\ i + 1 # 1 /\ s[i + 1].leased
      BY <1>1, <2>1
    <2> QED BY <1>1, <2>1, <2>2
  <1>3. \A j \in R : j - 1 \in B /\ (j - 1) + 1 = j
    <2> SUFFICES ASSUME NEW j \in R PROVE j - 1 \in B /\ (j - 1) + 1 = j
      OBVIOUS
    <2>1. j \in 1 .. Len(s) /\ j # 1 /\ s[j].leased
      BY <1>1
    <2>2. j - 1 \in 1 .. Len(s) - 1 /\ (j - 1) + 1 = j
      BY <1>1, <2>1
    <2>3. Tail(s)[j - 1].leased
      BY <1>1, <2>1, <2>2
    <2> QED BY <1>1, <2>2, <2>3
  <1>4. IsFiniteSet(A) /\ IsFiniteSet(B)
    <2>1. IsFiniteSet(1 .. Len(s)) /\ IsFiniteSet(1 .. Len(s) - 1)
      BY <1>1, FS_Interval
    <2> QED BY <1>1, <2>1, FS_Subset
  <1>5. Cardinality(R) = Cardinality(B)
    <2>1. B \subseteq Int /\ R \subseteq Int
      BY <1>1
    <2> HIDE DEF A, B, R
    <2>2. f \in [B -> R]
      BY <1>2
    <2>3. \A a, b \in B : f[a] = f[b] => a = b
      BY <2>1
    <2>4. \A t \in R : \E i \in B : f[i] = t
      BY <1>3
    <2> HIDE DEF f
    <2>5. f \in Bijection(B, R)
      <3>1. IsInjective(f)
        BY <2>2, <2>3 DEF IsInjective
      <3> QED BY <2>2, <3>1, <2>4 DEF Bijection, Injection, Surjection
    <2>6. ExistsBijection(B, R)
      BY <2>5 DEF ExistsBijection
    <2> QED BY ONLY <1>4, <2>6, FS_Bijection
  <1>6. Cardinality(A) = Cardinality(R) + IF 1 \in A THEN 1 ELSE 0
    <2> HIDE DEF A
    <2>1. CASE 1 \in A
      <3>1. Cardinality(A \ {1}) = Cardinality(A) - 1 /\ Cardinality(A) \in Nat
        BY ONLY <1>4, <2>1, FS_RemoveElement, FS_CardinalityType
      <3> QED BY <2>1, <3>1
    <2>2. CASE 1 \notin A
      <3>1. R = A
        BY <2>2
      <3>2. Cardinality(A) \in Nat
        BY <1>4, FS_CardinalityType
      <3> HIDE DEF R
      <3> QED BY <2>2, <3>1, <3>2
    <2> QED BY <2>1, <2>2
  <1>7. 1 \in A <=> Head(s).leased
    BY <1>1
  <1>8. Cardinality(B) \in Nat
    BY <1>4, FS_CardinalityType
  <1> HIDE DEF R
  <1>9. Leases(s) = Cardinality(A) /\ Leases(Tail(s)) = Cardinality(B)
    BY DEF Leases
  <1> HIDE DEF A, B
  <1> QED BY <1>5, <1>6, <1>7, <1>8, <1>9 DEF One

LEMMA LeasesCons ==
    ASSUME NEW T, NEW s \in Seq(T), NEW f \in T
    PROVE  Leases(<<f>> \o s) = One(f) + Leases(s)
  <1> DEFINE c == <<f>> \o s
  <1>1. c \in Seq(T) /\ c # <<>> /\ Head(c) = f /\ Tail(c) = s
    BY ConsIs
  <1> HIDE DEF c
  <1>2. Leases(c) = One(Head(c)) + Leases(Tail(c))
    BY ONLY <1>1, LeasesTail
  <1>3. Leases(c) = One(f) + Leases(s)
    BY <1>1, <1>2
  <1> QED BY <1>3 DEF c

LEMMA LeasesAppend ==
    ASSUME NEW T, NEW s \in Seq(T), NEW x \in T
    PROVE  Leases(Append(s, x)) = Leases(s) + One(x)
  <1> DEFINE c == Append(s, x)
             n == Len(s) + 1
             A == {i \in DOMAIN s : s[i].leased}
             B == {i \in DOMAIN c : c[i].leased}
  <1>1. /\ Len(s) \in Nat /\ DOMAIN s = 1 .. Len(s) /\ DOMAIN c = 1 .. n
        /\ \A i \in 1 .. Len(s) : c[i] = s[i]
        /\ c[n] = x
    BY AppendProperties, LenProperties
  <1>2. n \notin A /\ IsFiniteSet(A)
    <2>1. IsFiniteSet(1 .. Len(s)) /\ n \notin 1 .. Len(s)
      BY <1>1, FS_Interval
    <2> QED BY <1>1, <2>1, FS_Subset
  <1>3. \A i : i \in 1 .. n <=> (i \in 1 .. Len(s) \/ i = n)
    BY <1>1
  <1>4. B = IF x.leased THEN A \cup {n} ELSE A
    BY <1>1, <1>3
  <1> HIDE DEF A, n, c
  <1>5. Leases(s) = Cardinality(A) /\ Leases(c) = Cardinality(B)
    BY DEF Leases, A
  <1>6. Cardinality(A) \in Nat
    BY <1>2, FS_CardinalityType
  <1> HIDE DEF B
  <1>7. CASE x.leased
    <2>1. Cardinality(A \cup {n}) = Cardinality(A) + 1
      BY ONLY <1>2, FS_AddElement
    <2> QED BY <1>4, <1>5, <1>7, <2>1 DEF One, c
  <1>8. CASE ~x.leased
    BY <1>4, <1>5, <1>6, <1>8 DEF One, c
  <1> QED BY <1>7, <1>8

-----------------------------------------------------------------------------
(* The inductive invariant.                                                *)

ListTypes ==
    /\ nextId \in 0 .. MaxListeners
    /\ entries \in Seq(Entries) /\ frameworkEntries \in Seq(Entries)
    /\ alive \subseteq IdRange /\ handles \subseteq IdRange
    /\ lock.left \in Seq(Entries)
    /\ lock \in [by : Owners, op : {"free", "remove", "clear"}, left : Seq(Entries)]
    /\ removedBy \in [Threads -> SUBSET IdRange]

\* The lists are in order and one registration has one entry; frameworkEntries is what
\* clear must publish.
ListsMatch ==
    /\ Ordered(entries) /\ Ordered(frameworkEntries)
    /\ \A e, f \in Range(entries) : e.id = f.id => e = f
    /\ Range(frameworkEntries) = {e \in Range(entries) : e.framework}

\* A connected listener of the framework is alive: failed rebuilds and clears leave
\* only entries behind whose owner disconnected them.
Connected == \A e \in Range(entries) : e.framework /\ e.id \in handles => e.id \in alive

\* Without failures the only dead entries are the one being removed and those of
\* the user that clear has been at.
NoneDead ==
    ~Failures => \A e \in Range(entries) :
        \/ e.id \in alive
        \/ lock.op = "remove"
        \/ lock.op = "clear" /\ ~e.framework

\* What clear still has to turn off: every live entry of the user.
ClearsUsers ==
    lock.op = "clear" =>
        /\ Range(lock.left) \subseteq {e \in Range(entries) : ~e.framework}
        /\ \A e \in Range(entries) : ~e.framework /\ e.id \in alive => e \in Range(lock.left)

ListInv ==
    /\ ListsMatch
    /\ alive \subseteq Ids(entries)
    /\ Connected
    /\ NoneDead
    /\ ClearsUsers

\* A frame holds a lease while its copy is being made, and the drain's until the
\* copy is done; only the topmost frame can be anywhere but in a callback.
FrameOK(f) ==
    /\ f.list # <<>> /\ Ordered(f.list)
    /\ f.leased => f.drained \/ f.at = "post"
    /\ f.drained => f.at \in {"check", "call", "running"}

GoodStack(s) ==
    /\ s \in Seq(Frames)
    /\ \A f \in Range(s) : FrameOK(f)
    /\ s # <<>> => \A f \in Range(Tail(s)) : f.at = "running"

StackInv ==
    /\ stack \in [Threads -> Seq(Frames)]
    /\ \A t \in Threads : GoodStack(stack[t])

\* Where a thread can hold the mutex: in user code.
AtRest(t) == In(t, "running") \/ (stack[t] = <<>> /\ (t = Main => batch = <<>>))

HolderAtRest == \A t \in Threads : lock.op # "free" /\ lock.by = t => AtRest(t)

\* No thread is about to call what it removed.
Quiet ==
    \A t \in Threads :
        /\ removedBy[t] \cap alive = {}
        /\ In(t, "call") => Current(t).id \notin removedBy[t]

QueueTypes == queue \in Seq(Copies) /\ batch \in Seq(Copies)

StoreTypes == limit \in Nat /\ pending \in Nat

StoreFlags == sourceAlive \in BOOLEAN /\ overflowing \in BOOLEAN

\* The pending count, and the types of what it counts.
AccountInv == QueueTypes /\ StoreTypes /\ StoreFlags /\ BacklogAccounted

ThreadInv == StackInv /\ HolderAtRest /\ Quiet

IInv == ListTypes /\ ListInv /\ ThreadInv /\ AccountInv

-----------------------------------------------------------------------------
(* The listener list.                                                      *)

\* Registrations stay of their type when ids are added.
LEMMA TypesGrow ==
    ASSUME nextId \in Nat, nextId' \in Nat, nextId <= nextId'
    PROVE  /\ IdRange \subseteq IdRange'
           /\ Entries \subseteq Entries' /\ Seq(Entries) \subseteq Seq(Entries')
           /\ Frames \subseteq Frames' /\ Seq(Frames) \subseteq Seq(Frames')
           /\ Copies \subseteq Copies' /\ Seq(Copies) \subseteq Seq(Copies')
  <1>1. IdRange \subseteq IdRange'
    BY DEF IdRange
  <1>2. Entries \subseteq Entries'
    BY <1>1 DEF Entries
  <1>3. Seq(Entries) \subseteq Seq(Entries')
    BY ONLY <1>2, SeqMonotonic
  <1>4. Frames \subseteq Frames'
    BY <1>3 DEF Frames
  <1>5. Copies \subseteq Copies'
    BY <1>2 DEF Copies
  <1>6. Seq(Frames) \subseteq Seq(Frames') /\ Seq(Copies) \subseteq Seq(Copies')
    BY ONLY <1>4, <1>5, SeqMonotonic
  <1> QED BY <1>1, <1>2, <1>3, <1>4, <1>5, <1>6

LEMMA TypesSame ==
    ASSUME UNCHANGED nextId
    PROVE  IdRange' = IdRange /\ Entries' = Entries /\ Frames' = Frames /\ Copies' = Copies
  <1>1. IdRange' = IdRange
    BY DEF IdRange
  <1>2. Entries' = Entries
    BY <1>1 DEF Entries
  <1> QED BY <1>1, <1>2 DEF Frames, Copies

LEMMA IdsAre == ASSUME NEW s PROVE Ids(s) = {e.id : e \in Range(s)}
  BY DEF Ids, Range

\* The copies of a list that the operations publish.
LEMMA CopiesAre ==
    ASSUME NEW s \in Seq(Entries), Ordered(s)
    PROVE  /\ Swept(s) \in Seq(Entries) /\ Ordered(Swept(s))
           /\ Range(Swept(s)) = {e \in Range(s) : e.id \in alive}
           /\ Others(s) \in Seq(Entries) /\ Ordered(Others(s))
           /\ Range(Others(s)) = {e \in Range(s) : ~e.framework}
  <1> DEFINE A == {e \in Range(s) : Live(e)}
             B == {e \in Range(s) : ~e.framework}
  <1>1. Range(s) \cap A = {e \in Range(s) : e.id \in alive} /\ Range(s) \cap B = B
    BY DEF Live
  <1> HIDE DEF A, B
  <1>2. /\ Kept(s, A) \in Seq(Entries) /\ Ordered(Kept(s, A))
        /\ Range(Kept(s, A)) = Range(s) \cap A
    BY ONLY s \in Seq(Entries), Ordered(s), KeptIs
  <1>3. /\ Kept(s, B) \in Seq(Entries) /\ Ordered(Kept(s, B))
        /\ Range(Kept(s, B)) = Range(s) \cap B
    BY ONLY s \in Seq(Entries), Ordered(s), KeptIs
  <1> QED BY <1>1, <1>2, <1>3 DEF A, B, Swept, Others

LEMMA FrameworkIs ==
    ASSUME NEW T, NEW s \in Seq(T), Ordered(s)
    PROVE  /\ Framework(s) \in Seq(T) /\ Ordered(Framework(s))
           /\ Range(Framework(s)) = {e \in Range(s) : e.framework}
  <1> DEFINE A == {e \in Range(s) : e.framework}
  <1>1. Range(s) \cap A = A
    OBVIOUS
  <1> HIDE DEF A
  <1>2. /\ Kept(s, A) \in Seq(T) /\ Ordered(Kept(s, A))
        /\ Range(Kept(s, A)) = Range(s) \cap A
    BY ONLY s \in Seq(T), Ordered(s), KeptIs
  <1> QED BY <1>1, <1>2 DEF A, Framework

LEMMA RangeTyped == ASSUME NEW T, NEW s \in Seq(T) PROVE Range(s) \subseteq T
  BY ElementOfSeq, LenProperties DEF Range

\* A newcomer with the highest id takes its place behind its equals.
LEMMA InsertedIs ==
    ASSUME NEW T, \A f \in T : f.priority \in Int /\ f.id \in Int,
           NEW s \in Seq(T), Ordered(s), NEW e \in T, \A f \in Range(s) : f.id < e.id
    PROVE  /\ Inserted(s, e) \in Seq(T) /\ Ordered(Inserted(s, e))
           /\ Range(Inserted(s, e)) = Range(s) \cup {e}
  <1> DEFINE A == {f \in Range(s) : f.priority <= e.priority}
             B == {f \in Range(s) : f.priority > e.priority}
             a == Kept(s, A)
             b == Kept(s, B)
             one == <<e>>
             ae == a \o one
  <1>1. Range(s) \subseteq T
    BY RangeTyped
  <1>2. /\ \A f \in T : f.priority \in Int /\ f.id \in Int
        /\ e.priority \in Int /\ e.id \in Int
    OBVIOUS
  <1>3. Range(s) \cap A = A /\ Range(s) \cap B = B /\ A \cup B = Range(s)
    BY <1>1, <1>2
  <1>4. \A f \in A : Before(f, e)
    BY <1>1, <1>2 DEF Before
  <1>5. \A f \in A \cup {e} : \A g \in B : Before(f, g)
    BY <1>1, <1>2 DEF Before
  <1> HIDE DEF A, B
  <1>6. a \in Seq(T) /\ Ordered(a) /\ Range(a) = A
    BY ONLY s \in Seq(T), Ordered(s), <1>3, KeptIs
  <1>7. b \in Seq(T) /\ Ordered(b) /\ Range(b) = B
    BY ONLY s \in Seq(T), Ordered(s), <1>3, KeptIs
  <1> HIDE DEF a, b
  <1>8. one \in Seq(T) /\ Ordered(one) /\ Range(one) = {e}
    BY OneEntry
  <1> HIDE DEF one
  <1>9. ae \in Seq(T) /\ Range(ae) = A \cup {e} /\ Ordered(ae)
    <2>1. \A x \in Range(a), y \in Range(one) : Before(x, y)
      BY <1>4, <1>6, <1>8
    <2>2. /\ a \o one \in Seq(T) /\ Range(a \o one) = Range(a) \cup Range(one)
          /\ Ordered(a \o one)
      BY ONLY <1>6, <1>8, <2>1, ConcatIs
    <2> QED BY <1>6, <1>8, <2>2
  <1> HIDE DEF ae
  <1>10. ae \o b \in Seq(T) /\ Range(ae \o b) = A \cup {e} \cup B /\ Ordered(ae \o b)
    <2>1. \A x \in Range(ae), y \in Range(b) : Before(x, y)
      BY <1>5, <1>7, <1>9
    <2> QED BY ONLY <1>7, <1>9, <2>1, ConcatIs
  <1>11. Inserted(s, e) = ae \o b
    BY DEF Inserted, ae, one, a, b, A, B
  <1> QED BY <1>3, <1>10, <1>11

-----------------------------------------------------------------------------
(* Every step keeps the listener list as it should be.                     *)

\* The step leaves every connected listener of the framework in the list.
KeepsConnected ==
    \A e \in Range(entries) : e.framework /\ e.id \in handles' => e \in Range(entries')

LEMMA ListenKeeps ==
    ASSUME ListTypes, ListInv, NEW t \in Threads, NEW k \in Kinds, Listen(t, k)
    PROVE  ListTypes' /\ ListInv' /\ KeepsConnected
  <1> DEFINE id == nextId + 1
             e == Entry(k, id)
             s == Swept(entries)
  <1> USE DEF ListTypes
  <1>1. nextId' = id /\ nextId \in Nat /\ nextId' \in Nat /\ nextId <= nextId'
        /\ nextId' \in 0 .. MaxListeners
    BY EventConstants DEF Listen
  <1>2. /\ IdRange \subseteq IdRange' /\ Entries \subseteq Entries'
        /\ Seq(Entries) \subseteq Seq(Entries')
    BY ONLY <1>1, TypesGrow
  <1>3. /\ Ordered(entries) /\ Ordered(frameworkEntries)
        /\ \A x, y \in Range(entries) : x.id = y.id => x = y
    BY DEF ListInv, ListsMatch
  <1>4. s \in Seq(Entries) /\ Ordered(s) /\ Range(s) = {x \in Range(entries) : x.id \in alive}
    BY ONLY <1>3, ListTypes, CopiesAre DEF ListTypes
  <1>5. e \in Entries' /\ e.id = id /\ e.framework = k.framework
    BY <1>1, EventConstants DEF Entry, Entries, IdRange
  <1>6. \A x \in Range(entries) : x \in Entries /\ x.id \in IdRange /\ x.id < id
    <2>1. Range(entries) \subseteq Entries
      BY RangeTyped
    <2>2. \A x \in Entries : x.id \in IdRange
      BY DEF Entries
    <2>3. \A i \in IdRange : i < id
      BY <1>1 DEF IdRange
    <2> QED BY <2>1, <2>2, <2>3
  <1>7. /\ entries' = Inserted(s, e) /\ frameworkEntries' = Framework(entries')
        /\ alive' = alive \cup {id} /\ handles' = handles \cup {id}
        /\ lock' = lock /\ removedBy' = removedBy
        /\ lock = Free
    BY DEF Listen, Publish, Survivors, MutexFree
  <1> HIDE DEF s, e
  <1>8. /\ entries' \in Seq(Entries') /\ Ordered(entries')
        /\ Range(entries') = Range(s) \cup {e}
    <2> DEFINE T == Entries'
    <2>1. \A f \in T : f.priority \in Int /\ f.id \in Int
      BY <1>1 DEF Entries, IdRange
    <2>2. s \in Seq(T) /\ Ordered(s) /\ e \in T /\ \A f \in Range(s) : f.id < e.id
      BY <1>2, <1>4, <1>5, <1>6
    <2> HIDE DEF T
    <2>4. /\ Inserted(s, e) \in Seq(T) /\ Ordered(Inserted(s, e))
          /\ Range(Inserted(s, e)) = Range(s) \cup {e}
      BY ONLY <2>1, <2>2, InsertedIs
    <2> QED BY <1>7, <2>4 DEF T
  <1>9. /\ frameworkEntries' \in Seq(Entries') /\ Ordered(frameworkEntries')
        /\ Range(frameworkEntries') = {x \in Range(entries') : x.framework}
    BY ONLY <1>7, <1>8, FrameworkIs
  <1>10. id \in IdRange'
    BY <1>1 DEF IdRange
  <1>11. ListTypes'
    <2>1. alive' \subseteq IdRange' /\ handles' \subseteq IdRange'
      BY <1>2, <1>7, <1>10
    <2>2. removedBy' \in [Threads -> SUBSET IdRange']
      BY <1>2, <1>7
    <2>3. lock'.left \in Seq(Entries')
      BY <1>2, <1>7
    <2>4. lock' \in [by : Owners, op : {"free", "remove", "clear"}, left : Seq(Entries')]
      BY <1>2, <1>7
    <2> QED BY <1>1, <1>8, <1>9, <2>1, <2>2, <2>3, <2>4
  <1>12. \A x \in Range(entries') : x = e \/ (x \in Range(entries) /\ x.id \in alive /\ x.id < id)
    BY <1>4, <1>6, <1>8
  <1>13. ListsMatch'
    <2>1. \A x, y \in Range(entries') : x.id = y.id => x = y
      <3>1. \A x \in Range(entries) : x.id # id
        BY <1>1, <1>6 DEF IdRange
      <3> QED BY <1>3, <1>5, <1>12, <3>1
    <2> QED BY <1>8, <1>9, <2>1 DEF ListsMatch
  <1>14. alive' \subseteq Ids(entries')
    <2>1. alive \subseteq {x.id : x \in Range(entries)}
      BY IdsAre DEF ListInv
    <2>2. \A i \in alive' : \E x \in Range(entries') : x.id = i
      BY <1>4, <1>5, <1>7, <1>8, <2>1
    <2>3. Ids(entries') = {x.id : x \in Range(entries')}
      BY IdsAre
    <2> QED BY <2>2, <2>3
  <1>15. \A x \in Range(entries') : x.id \in alive'
    BY <1>5, <1>7, <1>12
  <1>16. KeepsConnected
    <2> SUFFICES ASSUME NEW x \in Range(entries), x.framework, x.id \in handles'
                 PROVE  x \in Range(entries')
      BY DEF KeepsConnected
    <2>1. x.id # id
      BY <1>1, <1>6 DEF IdRange
    <2>2. x.id \in alive
      BY <1>7, <2>1 DEF ListInv, Connected
    <2> QED BY <1>4, <1>8, <2>2
  <1> QED
    BY <1>7, <1>11, <1>13, <1>14, <1>15, <1>16 DEF ListInv, Connected, NoneDead, ClearsUsers, Free

LEMMA DisconnectKeeps ==
    ASSUME ListTypes, ListInv, NEW t \in Threads, NEW id \in handles, Disconnect(t, id)
    PROVE  ListTypes' /\ ListInv' /\ KeepsConnected
  <1>1. /\ UNCHANGED <<nextId, entries, frameworkEntries>>
        /\ handles' = handles \ {id}
        /\ alive' = alive \ ({id} \cap Ids(entries))
        /\ lock' = [by |-> t, op |-> "remove", left |-> <<>>]
        /\ removedBy' = [removedBy EXCEPT ![t] = @ \cup {id}]
    BY DEF Disconnect, Holder
  <1>2. IdRange' = IdRange /\ Entries' = Entries
    BY ONLY <1>1, TypesSame
  <1>3. ListTypes'
    <2>1. lock' \in [by : Owners, op : {"free", "remove", "clear"}, left : Seq(Entries)]
          /\ lock'.left \in Seq(Entries)
      <3>1. <<>> \in Seq(Entries)
        OBVIOUS
      <3> QED BY <1>1, <3>1 DEF Owners
    <2>2. removedBy' \in [Threads -> SUBSET IdRange]
      BY <1>1 DEF ListTypes
    <2> QED BY <1>1, <1>2, <2>1, <2>2 DEF ListTypes
  <1>4. alive' \subseteq Ids(entries')
    BY <1>1 DEF ListInv
  <1>5. Connected'
    <2>1. \A x \in Range(entries) : x.id # id => (x.id \in alive => x.id \in alive')
      BY <1>1
    <2> QED BY <1>1, <2>1 DEF ListInv, Connected
  <1>6. NoneDead' /\ ClearsUsers'
    BY <1>1 DEF NoneDead, ClearsUsers
  <1>7. ListsMatch'
    BY <1>1 DEF ListInv, ListsMatch
  <1> QED BY <1>1, <1>3, <1>4, <1>5, <1>6, <1>7 DEF ListInv, KeepsConnected

LEMMA DisconnectDeadKeeps ==
    ASSUME ListTypes, ListInv, NEW t \in Threads, NEW id \in handles, DisconnectDead(t, id)
    PROVE  ListTypes' /\ ListInv' /\ KeepsConnected
  <1>1. /\ UNCHANGED <<nextId, entries, frameworkEntries, alive, lock, removedBy>>
        /\ handles' = handles \ {id}
    BY DEF DisconnectDead
  <1>2. IdRange' = IdRange /\ Entries' = Entries
    BY ONLY <1>1, TypesSame
  <1>3. ListTypes'
    BY <1>1, <1>2 DEF ListTypes
  <1>4. ListInv'
    BY <1>1 DEF ListInv, ListsMatch, Connected, NoneDead, ClearsUsers
  <1> QED BY <1>1, <1>3, <1>4 DEF KeepsConnected

LEMMA RebuildKeeps ==
    ASSUME ListTypes, ListInv, NEW t \in Threads, Rebuild(t)
    PROVE  ListTypes' /\ ListInv' /\ KeepsConnected
  <1> DEFINE s == Swept(entries)
  <1>1. /\ UNCHANGED <<nextId, alive, handles, removedBy>>
        /\ lock' = Free
        /\ lock.op = "remove"
    BY DEF Rebuild
  <1>2. IdRange' = IdRange /\ Entries' = Entries
    BY ONLY <1>1, TypesSame
  <1>3. lock' \in [by : Owners, op : {"free", "remove", "clear"}, left : Seq(Entries)]
        /\ lock'.left \in Seq(Entries)
    <2>1. <<>> \in Seq(Entries)
      OBVIOUS
    <2> QED BY <1>1, <2>1 DEF Free, Owners
  <1>4. ClearsUsers'
    BY <1>1 DEF ClearsUsers, Free
  <1>5. CASE Publish(s)
    <2>1. Ordered(entries) /\ \A x, y \in Range(entries) : x.id = y.id => x = y
      BY DEF ListInv, ListsMatch
    <2>2. entries \in Seq(Entries)
      BY DEF ListTypes
    <2>3. s \in Seq(Entries) /\ Ordered(s) /\ Range(s) = {x \in Range(entries) : x.id \in alive}
      BY ONLY <2>1, <2>2, CopiesAre
    <2>4. /\ Framework(s) \in Seq(Entries) /\ Ordered(Framework(s))
          /\ Range(Framework(s)) = {x \in Range(s) : x.framework}
      BY ONLY <2>3, FrameworkIs
    <2>5. entries' = s /\ frameworkEntries' = Framework(s)
      BY <1>5 DEF Publish, Survivors
    <2> HIDE DEF s
    <2>6. ListTypes'
      BY <1>1, <1>2, <1>3, <2>3, <2>4, <2>5 DEF ListTypes
    <2>7. ListsMatch'
      BY <2>1, <2>3, <2>4, <2>5 DEF ListsMatch
    <2>8. alive' \subseteq Ids(entries')
      <3>1. alive \subseteq {x.id : x \in Range(entries)}
        BY IdsAre DEF ListInv
      <3>2. Ids(entries') = {x.id : x \in Range(entries')}
        BY IdsAre
      <3>3. \A i \in alive : \E x \in Range(entries') : x.id = i
        BY <2>3, <2>5, <3>1
      <3> QED BY <1>1, <3>2, <3>3
    <2>9. \A x \in Range(entries') : x.id \in alive'
      BY <1>1, <2>3, <2>5
    <2>10. KeepsConnected
      BY <1>1, <2>3, <2>5 DEF KeepsConnected, ListInv, Connected
    <2> QED BY <1>4, <2>6, <2>7, <2>8, <2>9, <2>10 DEF ListInv, Connected, NoneDead
  <1>6. CASE Failures /\ UNCHANGED <<entries, frameworkEntries>>
    <2>1. ListTypes'
      BY <1>1, <1>2, <1>3, <1>6 DEF ListTypes
    <2> QED BY <1>1, <1>4, <1>6, <2>1 DEF ListInv, ListsMatch, Connected, NoneDead, KeepsConnected
  <1> QED BY <1>5, <1>6 DEF Rebuild

LEMMA ClearKeeps ==
    ASSUME ListTypes, ListInv, NEW t \in Threads, Clear(t)
    PROVE  ListTypes' /\ ListInv' /\ KeepsConnected
  <1> DEFINE s == Others(entries)
  <1>1. /\ UNCHANGED <<nextId, entries, frameworkEntries, alive, handles, removedBy>>
        /\ lock' = [by |-> t, op |-> "clear", left |-> s]
        /\ lock.op = "free"
    BY DEF Clear, Holder, Free
  <1>2. IdRange' = IdRange /\ Entries' = Entries
    BY ONLY <1>1, TypesSame
  <1>3. s \in Seq(Entries) /\ Range(s) = {x \in Range(entries) : ~x.framework}
    <2>1. Ordered(entries) /\ entries \in Seq(Entries)
      BY DEF ListTypes, ListInv, ListsMatch
    <2> QED BY ONLY <2>1, CopiesAre
  <1> HIDE DEF s
  <1>4. ListTypes'
    <2>1. lock' \in [by : Owners, op : {"free", "remove", "clear"}, left : Seq(Entries)]
          /\ lock'.left \in Seq(Entries)
      BY <1>1, <1>3 DEF Owners
    <2> QED BY <1>1, <1>2, <2>1 DEF ListTypes
  <1>5. NoneDead' /\ ClearsUsers'
    BY <1>1, <1>3 DEF ListInv, NoneDead, ClearsUsers
  <1> QED BY <1>1, <1>4, <1>5 DEF ListInv, ListsMatch, Connected, KeepsConnected

LEMMA ClearOneKeeps ==
    ASSUME ListTypes, ListInv, NEW t \in Threads, ClearOne(t)
    PROVE  ListTypes' /\ ListInv' /\ KeepsConnected
  <1> DEFINE e == Head(lock.left)
             rest == Tail(lock.left)
  <1>1. /\ UNCHANGED <<nextId, entries, frameworkEntries, handles>>
        /\ alive' = alive \ {e.id}
        /\ removedBy' = [removedBy EXCEPT ![t] = @ \cup {e.id}]
        /\ lock' = [lock EXCEPT !.left = rest]
        /\ lock.op = "clear" /\ lock.left # <<>>
    BY DEF ClearOne
  <1>2. IdRange' = IdRange /\ Entries' = Entries
    BY ONLY <1>1, TypesSame
  <1>3. e \in Entries /\ rest \in Seq(Entries) /\ Range(lock.left) = {e} \cup Range(rest)
    <2>1. lock.left \in Seq(Entries) /\ lock.left # <<>>
      BY <1>1 DEF ListTypes
    <2> QED BY ONLY <2>1, TailIs
  <1>4. e.id \in IdRange
    BY <1>3 DEF Entries
  <1> HIDE DEF e, rest
  <1>5. lock'.op = "clear" /\ lock'.left = rest
    BY <1>1 DEF ListTypes
  <1>6. ListTypes'
    <2>1. lock' \in [by : Owners, op : {"free", "remove", "clear"}, left : Seq(Entries)]
      BY <1>1, <1>3 DEF ListTypes
    <2>2. removedBy' \in [Threads -> SUBSET IdRange]
      BY <1>1, <1>4 DEF ListTypes
    <2> QED BY <1>1, <1>2, <1>3, <1>5, <2>1, <2>2 DEF ListTypes
  <1>7. /\ Range(lock.left) \subseteq {x \in Range(entries) : ~x.framework}
        /\ \A x \in Range(entries) : ~x.framework /\ x.id \in alive => x \in Range(lock.left)
    BY <1>1 DEF ListInv, ClearsUsers
  <1>8. e \in Range(entries) /\ ~e.framework
    BY <1>3, <1>7
  <1>9. \A x \in Range(entries) : x.framework => x.id # e.id
    BY <1>8 DEF ListInv, ListsMatch
  <1>10. Connected' /\ NoneDead'
    BY <1>1, <1>5, <1>9 DEF ListInv, Connected, NoneDead
  <1>11. ClearsUsers'
    BY <1>1, <1>3, <1>5, <1>7 DEF ClearsUsers
  <1>12. alive' \subseteq Ids(entries')
    BY <1>1 DEF ListInv
  <1> QED BY <1>1, <1>6, <1>10, <1>11, <1>12 DEF ListInv, ListsMatch, KeepsConnected

LEMMA ClearEndKeeps ==
    ASSUME ListTypes, ListInv, NEW t \in Threads, ClearEnd(t)
    PROVE  ListTypes' /\ ListInv' /\ KeepsConnected
  <1>1. /\ UNCHANGED <<nextId, frameworkEntries, alive, handles, removedBy>>
        /\ entries' = frameworkEntries
        /\ lock' = Free
        /\ lock.op = "clear" /\ lock.left = <<>>
    BY DEF ClearEnd
  <1>2. IdRange' = IdRange /\ Entries' = Entries
    BY ONLY <1>1, TypesSame
  <1>3. ListTypes'
    <2>1. <<>> \in Seq(Entries)
      OBVIOUS
    <2> QED BY <1>1, <1>2, <2>1 DEF ListTypes, Free, Owners
  <1>4. Range(frameworkEntries) = {x \in Range(entries) : x.framework}
    BY DEF ListInv, ListsMatch
  <1>5. \A x \in Range(entries) : x.id \in alive => x.framework
    <2>1. Range(lock.left) = {}
      BY <1>1 DEF Range
    <2> QED BY <1>1, <2>1 DEF ListInv, ClearsUsers
  <1>6. alive' \subseteq Ids(entries')
    <2>1. alive \subseteq {x.id : x \in Range(entries)}
      BY IdsAre DEF ListInv
    <2>2. Ids(entries') = {x.id : x \in Range(frameworkEntries)}
      BY <1>1, IdsAre
    <2> QED BY <1>1, <1>4, <1>5, <2>1, <2>2
  <1>7. ListsMatch'
    BY <1>1, <1>4 DEF ListInv, ListsMatch
  <1>8. Connected' /\ NoneDead' /\ ClearsUsers'
    BY <1>1, <1>4 DEF ListInv, Connected, NoneDead, ClearsUsers, Free
  <1>9. KeepsConnected
    BY <1>1, <1>4 DEF KeepsConnected
  <1> QED BY <1>3, <1>6, <1>7, <1>8, <1>9 DEF ListInv

LEMMA ListStill ==
    ASSUME ListTypes, ListInv,
           UNCHANGED <<nextId, entries, frameworkEntries, alive, handles, lock, removedBy>>
    PROVE  ListTypes' /\ ListInv' /\ KeepsConnected
  <1>1. IdRange' = IdRange /\ Entries' = Entries
    BY TypesSame
  <1>2. ListTypes'
    BY <1>1 DEF ListTypes
  <1> QED BY <1>2 DEF ListInv, ListsMatch, Connected, NoneDead, ClearsUsers, KeepsConnected

LEMMA ListStep ==
    ASSUME ListTypes, ListInv, [Next]_vars
    PROVE  ListTypes' /\ ListInv' /\ KeepsConnected
  <1> DEFINE Still == UNCHANGED <<nextId, entries, frameworkEntries, alive, handles, lock, removedBy>>
  <1>1. CASE Still
    BY <1>1, ListStill
  <1>2. Destroy \/ MainTurn \/ UNCHANGED vars => Still
    BY DEF Destroy, MainTurn, Drain, RunNext, Recheck, CallCopy, ReturnCopy, vars, listVars
  <1>3. ASSUME NEW t \in Threads, Pass(t) PROVE Still
    BY <1>3 DEF Pass, Check, Call, Return, Reserve, Warn, Post, PostFails, listVars
  <1>4. ASSUME NEW t \in Threads, User(t) PROVE ListTypes' /\ ListInv' /\ KeepsConnected
    <2>1. ASSUME NEW k \in Kinds, Listen(t, k) PROVE ListTypes' /\ ListInv' /\ KeepsConnected
      BY <2>1, ListenKeeps
    <2>2. ASSUME NEW id \in handles, Disconnect(t, id) PROVE ListTypes' /\ ListInv' /\ KeepsConnected
      BY <2>2, DisconnectKeeps
    <2>3. ASSUME NEW id \in handles, DisconnectDead(t, id) PROVE ListTypes' /\ ListInv' /\ KeepsConnected
      BY <2>3, DisconnectDeadKeeps
    <2>4. CASE Clear(t)
      BY <2>4, ClearKeeps
    <2>5. ASSUME NEW n \in Limits, SetLimit(t, n) PROVE Still
      BY <2>5 DEF SetLimit, listVars
    <2>6. CASE Notify(t)
      BY <1>1, <2>6 DEF Notify, listVars
    <2> QED BY <1>1, <1>4, <2>1, <2>2, <2>3, <2>4, <2>5, <2>6 DEF User
  <1>5. ASSUME NEW t \in Threads, Mutex(t) PROVE ListTypes' /\ ListInv' /\ KeepsConnected
    BY <1>5, RebuildKeeps, ClearOneKeeps, ClearEndKeeps DEF Mutex
  <1> QED BY <1>1, <1>2, <1>3, <1>4, <1>5 DEF Next

-----------------------------------------------------------------------------
(* The threads' stacks.                                                    *)

\* The frames of a good stack: the topmost, and those below in their callbacks.
LEMMA TopIs ==
    ASSUME NEW s, GoodStack(s), s # <<>>
    PROVE  /\ Head(s) \in Frames /\ FrameOK(Head(s))
           /\ GoodStack(Tail(s))
           /\ Tail(s) # <<>> => Head(Tail(s)).at = "running"
           /\ Leases(s) = One(Head(s)) + Leases(Tail(s))
           /\ Leases(Tail(s)) \in Nat
  <1>1. s \in Seq(Frames) /\ s # <<>>
    BY DEF GoodStack
  <1>2. /\ Head(s) \in Frames /\ Tail(s) \in Seq(Frames)
        /\ Range(s) = {Head(s)} \cup Range(Tail(s))
    BY ONLY <1>1, TailIs
  <1>3. FrameOK(Head(s)) /\ \A f \in Range(Tail(s)) : FrameOK(f) /\ f.at = "running"
    BY <1>1, <1>2 DEF GoodStack
  <1>4. ASSUME Tail(s) # <<>>
        PROVE  /\ Head(Tail(s)) \in Range(Tail(s))
               /\ \A f \in Range(Tail(Tail(s))) : f \in Range(Tail(s))
    <2> DEFINE r == Tail(s)
    <2>1. r \in Seq(Frames) /\ r # <<>>
      BY <1>2, <1>4
    <2> HIDE DEF r
    <2>2. Range(r) = {Head(r)} \cup Range(Tail(r))
      BY ONLY <2>1, TailIs
    <2> QED BY <2>2 DEF r
  <1>5. GoodStack(Tail(s)) /\ (Tail(s) # <<>> => Head(Tail(s)).at = "running")
    BY <1>2, <1>3, <1>4 DEF GoodStack
  <1>6. Leases(s) = One(Head(s)) + Leases(Tail(s)) /\ Leases(Tail(s)) \in Nat
    <2>1. Leases(s) = One(Head(s)) + Leases(Tail(s))
      BY ONLY <1>1, LeasesTail
    <2>2. Leases(Tail(s)) \in Nat
      BY ONLY <1>2, LeasesNat
    <2> QED BY <2>1, <2>2
  <1> QED BY <1>2, <1>3, <1>5, <1>6

LEMMA PushIs ==
    ASSUME NEW s, GoodStack(s), s # <<>> => Head(s).at = "running",
           NEW f \in Frames, FrameOK(f)
    PROVE  /\ GoodStack(<<f>> \o s)
           /\ <<f>> \o s # <<>> /\ Head(<<f>> \o s) = f
           /\ Leases(<<f>> \o s) = One(f) + Leases(s)
           /\ Leases(s) \in Nat
  <1> DEFINE c == <<f>> \o s
  <1>1. s \in Seq(Frames)
    BY DEF GoodStack
  <1>2. c \in Seq(Frames) /\ c # <<>> /\ Head(c) = f /\ Tail(c) = s
    BY ONLY <1>1, f \in Frames, ConsIs
  <1>3. Leases(c) = One(f) + Leases(s) /\ Leases(s) \in Nat
    <2>1. Leases(c) = One(f) + Leases(s)
      BY ONLY <1>1, f \in Frames, LeasesCons
    <2>2. Leases(s) \in Nat
      BY ONLY <1>1, LeasesNat
    <2> QED BY <2>1, <2>2
  <1> HIDE DEF c
  <1>4. Range(c) = {f} \cup Range(s)
    <2>1. Range(c) = {Head(c)} \cup Range(Tail(c))
      BY ONLY <1>2, TailIs
    <2> QED BY <1>2, <2>1
  <1>5. ASSUME s # <<>> PROVE \A g \in Range(s) : g.at = "running"
    <2>1. Range(s) = {Head(s)} \cup Range(Tail(s))
      BY ONLY <1>1, <1>5, TailIs
    <2> QED BY <1>5, <2>1 DEF GoodStack
  <1>6. s = <<>> => Range(s) = {}
    BY DEF Range
  <1>7. GoodStack(c)
    BY <1>2, <1>4, <1>5, <1>6 DEF GoodStack
  <1> QED BY <1>2, <1>3, <1>7 DEF c

\* The frame on top replaced by another.
LEMMA ReplaceIs ==
    ASSUME NEW s, GoodStack(s), s # <<>>, NEW f \in Frames, FrameOK(f)
    PROVE  /\ GoodStack(<<f>> \o Tail(s))
           /\ <<f>> \o Tail(s) # <<>> /\ Head(<<f>> \o Tail(s)) = f
           /\ Leases(<<f>> \o Tail(s)) = Leases(s) + One(f) - One(Head(s))
  <1>1. /\ GoodStack(Tail(s)) /\ (Tail(s) # <<>> => Head(Tail(s)).at = "running")
        /\ Leases(s) = One(Head(s)) + Leases(Tail(s)) /\ Leases(Tail(s)) \in Nat
    BY TopIs
  <1> DEFINE r == Tail(s)
  <1> HIDE DEF r
  <1>2. GoodStack(r) /\ (r # <<>> => Head(r).at = "running")
    BY <1>1 DEF r
  <1>3. /\ GoodStack(<<f>> \o r) /\ <<f>> \o r # <<>> /\ Head(<<f>> \o r) = f
        /\ Leases(<<f>> \o r) = One(f) + Leases(r)
    BY ONLY <1>2, f \in Frames, FrameOK(f), PushIs
  <1>4. One(f) \in Nat /\ One(Head(s)) \in Nat
    BY DEF One
  <1> QED BY <1>1, <1>3, <1>4 DEF r

\* The leases on all stacks, of which a step changes one.
OnStacks == SumFunctionOnSet([t \in Threads |-> Leases(stack[t])], Threads)

LEMMA OnStacksChange ==
    ASSUME StackInv, NEW t \in Threads, NEW z, Leases(z) \in Nat,
           stack' = [stack EXCEPT ![t] = z]
    PROVE  /\ OnStacks' = OnStacks + Leases(z) - Leases(stack[t])
           /\ OnStacks \in Int /\ Leases(stack[t]) \in Nat
  <1> DEFINE F == [u \in Threads |-> Leases(stack[u])]
             G == [u \in Threads |-> Leases(stack'[u])]
             n == Leases(z)
  <1>1. IsFiniteSet(Threads) /\ Threads \in SUBSET Threads
    BY EventConstants
  <1>2. F \in [Threads -> Int] /\ \A u \in Threads : F[u] \in Nat
    <2>1. \A u \in Threads : stack[u] \in Seq(Frames)
      BY DEF StackInv, GoodStack
    <2>2. \A u \in Threads : Leases(stack[u]) \in Nat
      BY ONLY <2>1, LeasesNat
    <2> QED BY <2>2
  <1>3. G = [F EXCEPT ![t] = n]
    BY DEF StackInv
  <1>4. OnStacks = SumFunctionOnSet(F, Threads) /\ OnStacks' = SumFunctionOnSet(G, Threads)
    BY DEF OnStacks
  <1>5. F[t] = Leases(stack[t])
    OBVIOUS
  <1>6. n \in Int
    OBVIOUS
  <1> HIDE DEF F, G, n
  <1>7. SumFunctionOnSet(G, Threads) = SumFunctionOnSet(F, Threads) + (n - F[t])
        /\ SumFunctionOnSet(F, Threads) \in Int
    <2>1. G[t] = n /\ G[t] \in Int /\ t \in Threads /\ IsFiniteSet(Threads)
          /\ (\A u \in Threads : F[u] \in Int) /\ \A u \in Threads \ {t} : G[u] = F[u]
      BY <1>1, <1>2, <1>3, <1>6
    <2> QED BY ONLY <2>1, SumExcept
  <1>8. n \in Nat /\ F[t] \in Nat
    BY <1>2 DEF n
  <1> QED BY <1>3, <1>4, <1>5, <1>7, <1>8 DEF n

LEMMA OnStacksStill ==
    ASSUME UNCHANGED stack
    PROVE  OnStacks' = OnStacks
  BY DEF OnStacks

LEMMA OnStacksNat ==
    ASSUME StackInv
    PROVE  OnStacks \in Nat /\ \A t \in Threads : Leases(stack[t]) \in Nat /\ Leases(stack[t]) <= OnStacks
  <1> DEFINE F == [u \in Threads |-> Leases(stack[u])]
  <1>1. \A u \in Threads : stack[u] \in Seq(Frames)
    BY DEF StackInv, GoodStack
  <1>2. \A u \in Threads : Leases(stack[u]) \in Nat
    BY ONLY <1>1, LeasesNat
  <1>3. \A u \in Threads : F[u] = Leases(stack[u]) /\ F[u] \in Nat /\ F[u] \in Int
    BY <1>2
  <1> HIDE DEF F
  <1>4. IsFiniteSet(Threads)
    BY EventConstants
  <1>5. OnStacks = SumFunctionOnSet(F, Threads)
    BY DEF OnStacks, F
  <1>6. SumFunctionOnSet(F, Threads) \in Nat
    BY ONLY <1>3, <1>4, SumNat
  <1>7. ASSUME NEW t \in Threads PROVE F[t] <= SumFunctionOnSet(F, Threads)
    <2> DEFINE R == Threads \ {t}
    <2>1. IsFiniteSet(R) /\ \A u \in R : F[u] \in Nat
      BY <1>3, <1>4, FS_RemoveElement
    <2>2. SumFunctionOnSet(F, Threads) = F[t] + SumFunctionOnSet(F, R)
      BY ONLY <1>3, <1>4, t \in Threads, SumRemove
    <2> HIDE DEF R
    <2>3. SumFunctionOnSet(F, R) \in Nat
      BY ONLY <2>1, SumNat
    <2> QED BY <1>3, <2>2, <2>3
  <1> QED BY <1>3, <1>5, <1>6, <1>7

-----------------------------------------------------------------------------
(* What the threads' steps have in common.                                 *)

\* A step of t that does not hold the mutex and leaves its stack as z.
LEMMA StackMoved ==
    ASSUME ThreadInv, NEW t \in Threads, NEW z, GoodStack(z),
           stack' = [stack EXCEPT ![t] = z],
           UNCHANGED <<nextId, alive, lock, removedBy>>,
           ~(lock.op # "free" /\ lock.by = t),
           batch' = batch \/ t = Main,
           z # <<>> /\ Head(z).at = "call" => Head(Head(z).list).id \notin removedBy[t]
    PROVE  ThreadInv'
  <1>1. Frames' = Frames
    BY TypesSame
  <1>2. /\ stack'[t] = z /\ DOMAIN stack' = Threads
        /\ \A u \in Threads : u # t => stack'[u] = stack[u]
    BY DEF ThreadInv, StackInv
  <1>3. StackInv'
    <2>1. \A u \in Threads : GoodStack(stack'[u])
      BY <1>2 DEF ThreadInv, StackInv
    <2>2. stack' \in [Threads -> Seq(Frames)]
      BY DEF ThreadInv, StackInv, GoodStack
    <2> QED BY <1>1, <2>1, <2>2 DEF StackInv, GoodStack
  <1>4. HolderAtRest'
    <2> SUFFICES ASSUME NEW u \in Threads, lock'.op # "free", lock'.by = u
                 PROVE  AtRest(u)'
      BY DEF HolderAtRest
    <2>1. u # t /\ AtRest(u) /\ stack'[u] = stack[u]
      BY <1>2 DEF ThreadInv, HolderAtRest
    <2> QED BY <2>1 DEF AtRest, In, Top
  <1>5. Quiet'
    <2> SUFFICES ASSUME NEW u \in Threads
                 PROVE  /\ removedBy'[u] \cap alive' = {}
                        /\ In(u, "call")' => Current(u)'.id \notin removedBy'[u]
      BY DEF Quiet
    <2>1. CASE u = t
      BY <1>2, <2>1 DEF ThreadInv, Quiet, In, Top, Current
    <2>2. CASE u # t
      BY <1>2, <2>2 DEF ThreadInv, Quiet, In, Top, Current
    <2> QED BY <2>1, <2>2
  <1> QED BY <1>3, <1>4, <1>5 DEF ThreadInv

\* The stacks when t's topmost frame goes on, with a lease or without.
Goes(t, at, leased) == Replaced(t, [Top(t) EXCEPT !.at = at, !.leased = leased])

LEMMA GoToIs ==
    ASSUME StackInv, NEW t \in Threads, stack[t] # <<>>,
           NEW at \in {"check", "call", "running", "reserve", "warn", "post"},
           NEW leased \in BOOLEAN,
           leased => Top(t).drained \/ at = "post",
           Top(t).drained => at \in {"check", "call", "running"}
    PROVE  \E z : /\ Goes(t, at, leased) = [stack EXCEPT ![t] = z]
                  /\ GoodStack(z)
                  /\ z # <<>> /\ Head(z).at = at /\ Head(z).list = Top(t).list
                  /\ Leases(z) = Leases(stack[t]) + (IF leased THEN 1 ELSE 0) - One(Top(t))
                  /\ Leases(z) \in Nat
  <1> DEFINE s == stack[t]
             f == [Top(t) EXCEPT !.at = at, !.leased = leased]
             z == <<f>> \o Tail(s)
  <1>1. GoodStack(s)
    BY DEF StackInv
  <1>2. Top(t) \in Frames /\ FrameOK(Top(t))
    BY <1>1, TopIs DEF Top
  <1>3. f \in Frames /\ f.at = at /\ f.list = Top(t).list /\ f.leased = leased
        /\ f.drained = Top(t).drained
    BY <1>2 DEF Frames
  <1> HIDE DEF f
  <1>4. FrameOK(f)
    BY <1>2, <1>3 DEF FrameOK
  <1>5. /\ GoodStack(z) /\ z # <<>> /\ Head(z) = f
        /\ Leases(z) = Leases(s) + One(f) - One(Head(s))
    <2> HIDE DEF s
    <2>1. s # <<>>
      BY DEF s
    <2> QED BY ONLY <1>1, <1>3, <1>4, <2>1, ReplaceIs
  <1>6. Replaced(t, f) = [stack EXCEPT ![t] = z]
    BY DEF Replaced
  <1>7. Leases(z) \in Nat
    BY <1>5, LeasesNat DEF GoodStack
  <1>8. One(f) = IF leased THEN 1 ELSE 0
    BY <1>3 DEF One
  <1> HIDE DEF z
  <1> QED BY <1>3, <1>5, <1>6, <1>7, <1>8 DEF Top, f, Goes

LEMMA PoppedIs ==
    ASSUME StackInv, NEW t \in Threads, stack[t] # <<>>
    PROVE  \E z : /\ Popped(t) = [stack EXCEPT ![t] = z]
                  /\ GoodStack(z)
                  /\ z # <<>> => Head(z).at = "running"
                  /\ Leases(z) = Leases(stack[t]) - One(Top(t))
                  /\ Leases(z) \in Nat
  <1> DEFINE s == stack[t]
  <1>1. GoodStack(s) /\ s # <<>>
    BY DEF StackInv
  <1>2. /\ GoodStack(Tail(s)) /\ (Tail(s) # <<>> => Head(Tail(s)).at = "running")
        /\ Leases(s) = One(Head(s)) + Leases(Tail(s)) /\ Leases(Tail(s)) \in Nat
    BY ONLY <1>1, TopIs
  <1>3. One(Head(s)) \in Nat
    BY DEF One
  <1>4. Popped(t) = [stack EXCEPT ![t] = Tail(s)]
    BY DEF Popped
  <1>5. Leases(Tail(s)) = Leases(s) - One(Head(s))
    BY <1>2, <1>3
  <1> QED BY <1>2, <1>4, <1>5 DEF Top

LEMMA AdvancedIs ==
    ASSUME StackInv, NEW t \in Threads, stack[t] # <<>>
    PROVE  \E z : /\ Advanced(t) = [stack EXCEPT ![t] = z]
                  /\ GoodStack(z)
                  /\ z # <<>> => Head(z).at \in {"running", "check"}
                  /\ Leases(z) = Leases(stack[t]) - One(Top(t))
                  /\ Leases(z) \in Nat
  <1> DEFINE s == stack[t]
             f == [Top(t) EXCEPT !.at = "check", !.list = Tail(@), !.leased = FALSE]
             z == <<f>> \o Tail(s)
  <1>1. CASE Len(Top(t).list) = 1
    <2>1. Advanced(t) = Popped(t)
      BY <1>1 DEF Advanced
    <2> QED BY <2>1, PoppedIs
  <1>2. CASE Len(Top(t).list) # 1
    <2>1. GoodStack(s)
      BY DEF StackInv
    <2>2. Top(t) \in Frames /\ FrameOK(Top(t))
      BY <2>1, TopIs DEF Top
    <2>3. Top(t).list \in Seq(Entries) /\ Top(t).list # <<>> /\ Ordered(Top(t).list)
      BY <2>2 DEF Frames, FrameOK
    <2> DEFINE q == Top(t).list
    <2>4. Tail(q) \in Seq(Entries) /\ Ordered(Tail(q)) /\ Tail(q) # <<>>
      <3> HIDE DEF q
      <3>1. q \in Seq(Entries) /\ q # <<>> /\ Ordered(q) /\ Len(q) # 1
        BY <1>2, <2>3 DEF q
      <3>2. Tail(q) \in Seq(Entries) /\ Ordered(Tail(q))
        BY ONLY <3>1, TailIs
      <3>3. Len(Tail(q)) = Len(q) - 1 /\ Len(q) \in Nat
        BY ONLY <3>1, HeadTailProperties, LenProperties
      <3>4. Len(Tail(q)) # 0
        BY <3>1, <3>3
      <3>5. Tail(q) # <<>>
        BY ONLY <3>2, <3>4, EmptySeq
      <3> QED BY <3>2, <3>5
    <2>5. f \in Frames /\ f.at = "check" /\ f.list = Tail(q) /\ f.leased = FALSE
      BY <2>2, <2>4 DEF Frames
    <2> HIDE DEF f
    <2>6. FrameOK(f)
      BY <2>4, <2>5 DEF FrameOK
    <2>7. /\ GoodStack(z) /\ z # <<>> /\ Head(z) = f
          /\ Leases(z) = Leases(s) + One(f) - One(Head(s))
      <3> HIDE DEF s
      <3>1. s # <<>>
        BY DEF s
      <3> QED BY ONLY <2>1, <2>5, <2>6, <3>1, ReplaceIs
    <2>8. Advanced(t) = [stack EXCEPT ![t] = z]
      BY <1>2 DEF Advanced, Replaced, f
    <2>9. Leases(z) \in Nat /\ Leases(s) \in Nat /\ One(f) = 0 /\ One(Head(s)) \in Nat
      BY <2>1, <2>5, <2>7, LeasesNat DEF GoodStack, One
    <2> HIDE DEF z
    <2>10. Leases(z) = Leases(s) - One(Head(s))
      BY <2>7, <2>9
    <2> QED BY <2>5, <2>7, <2>8, <2>9, <2>10 DEF Top
  <1> QED BY <1>1, <1>2

\* A step inside a frame that keeps its lease, if it has one.
LEMMA JustMoves ==
    ASSUME StackInv, NEW t \in Threads, stack[t] # <<>>,
           NEW at \in {"check", "call", "running", "reserve", "warn", "post"},
           Top(t).leased => Top(t).drained,
           Top(t).drained => at \in {"check", "call", "running"}
    PROVE  \E z : /\ GoTo(t, at) = [stack EXCEPT ![t] = z]
                  /\ GoodStack(z)
                  /\ z # <<>> /\ Head(z).at = at /\ Head(z).list = Top(t).list
                  /\ Leases(z) = Leases(stack[t])
  <1> DEFINE l == Top(t).leased
  <1>1. Top(t) \in Frames
    BY TopIs DEF StackInv, Top
  <1>2. [Top(t) EXCEPT !.at = at] = [Top(t) EXCEPT !.at = at, !.leased = l]
    BY <1>1 DEF Frames
  <1>3. l \in BOOLEAN /\ (l => Top(t).drained \/ at = "post")
    BY <1>1 DEF Frames
  <1>4. One(Top(t)) = IF l THEN 1 ELSE 0
    BY DEF One
  <1>5. Leases(stack[t]) \in Nat
    BY OnStacksNat
  <1>6. GoTo(t, at) = Goes(t, at, l)
    BY <1>2 DEF GoTo, Goes
  <1> HIDE DEF l
  <1>7. PICK z : /\ Goes(t, at, l) = [stack EXCEPT ![t] = z]
                 /\ GoodStack(z)
                 /\ z # <<>> /\ Head(z).at = at /\ Head(z).list = Top(t).list
                 /\ Leases(z) = Leases(stack[t]) + (IF l THEN 1 ELSE 0) - One(Top(t))
    BY <1>3, GoToIs
  <1>8. Leases(z) = Leases(stack[t])
    BY <1>4, <1>5, <1>7
  <1> QED BY <1>6, <1>7, <1>8

\* What a thread may assume of the frame it is in.
LEMMA InFrame ==
    ASSUME ThreadInv, NEW t \in Threads, stack[t] # <<>>
    PROVE  /\ Top(t) \in Frames /\ FrameOK(Top(t))
           /\ Current(t) \in Entries
           /\ Top(t).at # "running" => ~(lock.op # "free" /\ lock.by = t)
  <1>1. Top(t) \in Frames /\ FrameOK(Top(t))
    BY TopIs DEF ThreadInv, StackInv, Top
  <1>2. Top(t).list \in Seq(Entries) /\ Top(t).list # <<>>
    BY <1>1 DEF Frames, FrameOK
  <1>3. Head(Top(t).list) \in Entries
    BY ONLY <1>2, TailIs
  <1>4. Top(t).at # "running" => ~AtRest(t)
    BY DEF AtRest, In
  <1> QED BY <1>1, <1>3, <1>4 DEF Current, ThreadInv, HolderAtRest

LEMMA QueueLeases ==
    ASSUME QueueTypes
    PROVE  Leases(queue) \in Nat /\ Leases(batch) \in Nat
  <1>1. queue \in Seq(Copies) /\ batch \in Seq(Copies)
    BY DEF QueueTypes
  <1> QED BY ONLY <1>1, LeasesNat

\* A step of t that leaves its stack as z, adds d leases to it and e to the queue and
\* the batch, and accounts for them.
LEMMA Settled ==
    ASSUME ThreadInv, AccountInv, NEW t \in Threads, NEW z, GoodStack(z),
           stack' = [stack EXCEPT ![t] = z],
           UNCHANGED <<nextId, alive, lock, removedBy>>,
           ~(lock.op # "free" /\ lock.by = t),
           batch' = batch \/ t = Main,
           z # <<>> /\ Head(z).at = "call" => Head(Head(z).list).id \notin removedBy[t],
           NEW d \in Int, NEW e \in Int,
           Leases(z) = Leases(stack[t]) + d,
           Leases(queue') + Leases(batch') = Leases(queue) + Leases(batch) + e,
           pending' = pending + d + e, pending' \in Nat, limit' \in Nat,
           StoreFlags', QueueTypes', EpisodesEnd'
    PROVE  ThreadInv' /\ AccountInv'
  <1>1. ThreadInv'
    BY StackMoved
  <1>2. Leases(z) \in Nat
    BY LeasesNat DEF GoodStack
  <1>3. /\ OnStacks' = OnStacks + Leases(z) - Leases(stack[t])
        /\ OnStacks \in Int /\ Leases(stack[t]) \in Nat
    BY <1>2, OnStacksChange DEF ThreadInv
  <1>4. Leases(queue) \in Nat /\ Leases(batch) \in Nat
    BY QueueLeases DEF AccountInv
  <1>5. pending = Leases(queue) + Leases(batch) + OnStacks
    BY DEF AccountInv, BacklogAccounted, LeasesBalanced, Backlog, OnStacks
  <1>6. OnStacks' = OnStacks + d
    BY <1>3
  <1> DEFINE q == Leases(queue') + Leases(batch')
  <1>7. q = Leases(queue) + Leases(batch) + e
    OBVIOUS
  <1> HIDE DEF q
  <1>8. pending' = q + OnStacks'
    BY ONLY <1>3, <1>4, <1>5, <1>6, <1>7, pending' = pending + d + e, d \in Int, e \in Int
  <1>9. LeasesBalanced'
    BY <1>8 DEF LeasesBalanced, Backlog, OnStacks, q
  <1> QED BY <1>1, <1>9 DEF AccountInv, StoreTypes, BacklogAccounted

\* The lease a thread's frame holds is among those accounted.
LEMMA LeaseCounted ==
    ASSUME ThreadInv, AccountInv, NEW t \in Threads, stack[t] # <<>>, Top(t).leased
    PROVE  pending - 1 \in Nat
  <1>1. OnStacks \in Nat /\ Leases(stack[t]) <= OnStacks /\ Leases(stack[t]) \in Nat
    BY OnStacksNat DEF ThreadInv
  <1>2. Leases(stack[t]) = One(Top(t)) + Leases(Tail(stack[t])) /\ Leases(Tail(stack[t])) \in Nat
    BY TopIs DEF ThreadInv, StackInv, Top
  <1>3. Leases(queue) \in Nat /\ Leases(batch) \in Nat
    BY QueueLeases DEF AccountInv
  <1>4. pending = Leases(queue) + Leases(batch) + OnStacks
    BY DEF AccountInv, BacklogAccounted, LeasesBalanced, Backlog, OnStacks
  <1>5. One(Top(t)) = 1
    BY DEF One
  <1> QED BY <1>1, <1>2, <1>3, <1>4, <1>5

LEMMA Released ==
    ASSUME ThreadInv, AccountInv, NEW t \in Threads, stack[t] # <<>>, Release(Top(t).leased),
           sourceAlive' = sourceAlive
    PROVE  /\ pending' = pending - One(Top(t)) /\ pending' \in Nat
           /\ StoreFlags' /\ EpisodesEnd'
  <1>1. pending \in Nat /\ StoreFlags /\ EpisodesEnd
    BY DEF AccountInv, StoreTypes, BacklogAccounted
  <1>2. CASE Top(t).leased
    <2>1. pending - 1 \in Nat
      BY <1>2, LeaseCounted
    <2>2. pending' = pending - 1 /\ overflowing' = (overflowing /\ ~(pending - 1 = 0))
      BY <1>2 DEF Release, Rearm
    <2>3. EpisodesEnd'
      BY <2>2 DEF EpisodesEnd
    <2>4. overflowing' \in BOOLEAN
      BY <2>2
    <2> QED BY <1>1, <1>2, <2>1, <2>2, <2>3, <2>4 DEF One, StoreFlags
  <1>3. CASE ~Top(t).leased
    <2>1. pending' = pending /\ overflowing' = overflowing
      BY <1>3 DEF Release
    <2> QED BY <1>1, <1>3, <2>1 DEF One, StoreFlags, EpisodesEnd
  <1> QED BY <1>2, <1>3

-----------------------------------------------------------------------------
(* The steps of a pass.                                                    *)

LEMMA QueueStill ==
    ASSUME QueueTypes, UNCHANGED <<nextId, queue, batch>>
    PROVE  /\ QueueTypes'
           /\ Leases(queue') + Leases(batch') = Leases(queue) + Leases(batch) + 0
  <1>1. Copies' = Copies
    BY TypesSame
  <1>2. Leases(queue) \in Nat /\ Leases(batch) \in Nat
    BY QueueLeases
  <1> QED BY <1>1, <1>2 DEF QueueTypes

\* A step that only moves t, without a lease before or after.
LEMMA OnlyMoves ==
    ASSUME ThreadInv, AccountInv, NEW t \in Threads, stack[t] # <<>>, ~Top(t).leased,
           NEW z, GoodStack(z), stack' = [stack EXCEPT ![t] = z],
           Leases(z) = Leases(stack[t]) - One(Top(t)),
           UNCHANGED <<listVars, limit, pending, queue, batch, removedBy>>,
           StoreFlags', EpisodesEnd',
           ~(lock.op # "free" /\ lock.by = t),
           z # <<>> /\ Head(z).at = "call" => Head(Head(z).list).id \notin removedBy[t]
    PROVE  ThreadInv' /\ AccountInv'
  <1>1. UNCHANGED <<nextId, alive, lock, removedBy, batch>>
    BY DEF listVars
  <1>2. /\ QueueTypes'
        /\ Leases(queue') + Leases(batch') = Leases(queue) + Leases(batch) + 0
    BY <1>1, QueueStill DEF AccountInv
  <1>3. Leases(z) = Leases(stack[t]) + 0
    <2>1. Leases(stack[t]) \in Nat
      BY OnStacksNat DEF ThreadInv
    <2> QED BY <2>1 DEF One
  <1>4. pending' = pending + 0 + 0 /\ pending' \in Nat /\ limit' \in Nat
    BY DEF AccountInv, StoreTypes
  <1> QED BY <1>1, <1>2, <1>3, <1>4, 0 \in Int, Settled

LEMMA CheckKeeps ==
    ASSUME ThreadInv, AccountInv, NEW t \in Threads, Check(t)
    PROVE  ThreadInv' /\ AccountInv'
  <1>1. /\ stack[t] # <<>> /\ Top(t).at = "check" /\ ~Top(t).drained
        /\ UNCHANGED <<listVars, limit, pending, overflowing, queue, batch, removedBy>>
    BY DEF Check, In, storeVars, queueVars
  <1>2. /\ Top(t) \in Frames /\ FrameOK(Top(t))
        /\ ~(lock.op # "free" /\ lock.by = t)
    BY <1>1, InFrame
  <1>3. ~Top(t).leased
    BY <1>1, <1>2 DEF FrameOK
  <1>4. StoreFlags' /\ EpisodesEnd' /\ StackInv
    BY <1>1 DEF AccountInv, StoreFlags, BacklogAccounted, EpisodesEnd, ThreadInv, listVars
  <1>5. CASE stack' = Advanced(t)
    <2>1. PICK z : /\ stack' = [stack EXCEPT ![t] = z] /\ GoodStack(z)
                   /\ z # <<>> => Head(z).at \in {"running", "check"}
                   /\ Leases(z) = Leases(stack[t]) - One(Top(t))
      BY <1>1, <1>4, <1>5, AdvancedIs
    <2> QED BY <1>1, <1>2, <1>3, <1>4, <2>1, OnlyMoves
  <1>6. ASSUME NEW at \in {"call", "reserve", "post"}, stack' = GoTo(t, at),
               at = "call" => Current(t).id \in alive
        PROVE  ThreadInv' /\ AccountInv'
    <2>3. PICK z : /\ stack' = [stack EXCEPT ![t] = z] /\ GoodStack(z)
                   /\ z # <<>> /\ Head(z).at = at /\ Head(z).list = Top(t).list
                   /\ Leases(z) = Leases(stack[t])
      BY <1>1, <1>3, <1>4, <1>6, JustMoves
    <2>4. Leases(z) = Leases(stack[t]) - One(Top(t))
      BY <1>3, <1>4, <2>3, OnStacksNat DEF One
    <2>5. Head(z).at = "call" => Head(Head(z).list).id \notin removedBy[t]
      BY <1>6, <2>3 DEF Current, ThreadInv, Quiet
    <2> QED BY <1>1, <1>2, <1>3, <1>4, <2>3, <2>4, <2>5, OnlyMoves
  <1> QED BY <1>5, <1>6 DEF Check, TokenSet, Live

LEMMA CallKeeps ==
    ASSUME ThreadInv, AccountInv, NEW t \in Threads, Call(t)
    PROVE  ThreadInv' /\ AccountInv'
  <1>1. /\ stack[t] # <<>> /\ Top(t).at = "call" /\ ~Top(t).drained
        /\ stack' = GoTo(t, "running")
        /\ UNCHANGED <<listVars, limit, pending, overflowing, queue, batch, removedBy>>
    BY DEF Call, In, storeVars, queueVars
  <1>2. /\ Top(t) \in Frames /\ FrameOK(Top(t))
        /\ ~(lock.op # "free" /\ lock.by = t)
    BY <1>1, InFrame
  <1>3. ~Top(t).leased
    BY <1>1, <1>2 DEF FrameOK
  <1>4. StoreFlags' /\ EpisodesEnd' /\ StackInv
    BY <1>1 DEF AccountInv, StoreFlags, BacklogAccounted, EpisodesEnd, ThreadInv, listVars
  <1>7. PICK z : /\ stack' = [stack EXCEPT ![t] = z] /\ GoodStack(z)
                 /\ z # <<>> /\ Head(z).at = "running"
                 /\ Leases(z) = Leases(stack[t])
    BY <1>1, <1>3, <1>4, JustMoves
  <1>8. Leases(z) = Leases(stack[t]) - One(Top(t))
    BY <1>3, <1>4, <1>7, OnStacksNat DEF One
  <1> QED BY <1>1, <1>2, <1>3, <1>4, <1>7, <1>8, OnlyMoves

LEMMA ReturnKeeps ==
    ASSUME ThreadInv, AccountInv, NEW t \in Threads, Return(t)
    PROVE  ThreadInv' /\ AccountInv'
  <1>1. /\ stack[t] # <<>> /\ Top(t).at = "running" /\ ~Top(t).drained
        /\ stack' \in {Advanced(t), Popped(t)}
        /\ UNCHANGED <<listVars, limit, pending, overflowing, queue, batch, removedBy>>
        /\ ~(lock.op # "free" /\ lock.by = t)
    BY DEF Return, In, storeVars, queueVars
  <1>2. Top(t) \in Frames /\ FrameOK(Top(t))
    BY <1>1, InFrame
  <1>3. ~Top(t).leased
    BY <1>1, <1>2 DEF FrameOK
  <1>4. StoreFlags' /\ EpisodesEnd' /\ StackInv
    BY <1>1 DEF AccountInv, StoreFlags, BacklogAccounted, EpisodesEnd, ThreadInv, listVars
  <1>5. PICK z : /\ stack' = [stack EXCEPT ![t] = z] /\ GoodStack(z)
                 /\ z # <<>> => Head(z).at \in {"running", "check"}
                 /\ Leases(z) = Leases(stack[t]) - One(Top(t))
    BY <1>1, <1>4, AdvancedIs, PoppedIs
  <1> QED BY <1>1, <1>3, <1>4, <1>5, OnlyMoves

LEMMA ReserveKeeps ==
    ASSUME ThreadInv, AccountInv, NEW t \in Threads, Reserve(t)
    PROVE  ThreadInv' /\ AccountInv'
  <1>1. /\ stack[t] # <<>> /\ Top(t).at = "reserve"
        /\ UNCHANGED <<listVars, limit, queue, batch, removedBy>>
    BY DEF Reserve, In, queueVars
  <1>2. /\ Top(t) \in Frames /\ FrameOK(Top(t))
        /\ ~(lock.op # "free" /\ lock.by = t)
    BY <1>1, InFrame
  <1>3. ~Top(t).drained /\ ~Top(t).leased
    BY <1>1, <1>2 DEF FrameOK
  <1>4. /\ StackInv /\ QueueTypes /\ StoreFlags /\ EpisodesEnd
        /\ pending \in Nat /\ limit \in Nat
        /\ sourceAlive' = sourceAlive
    BY <1>1 DEF AccountInv, StoreTypes, BacklogAccounted, ThreadInv, listVars
  <1>5. ASSUME stack' = Advanced(t), UNCHANGED pending, overflowing' \in BOOLEAN,
               overflowing' => pending # 0
        PROVE  ThreadInv' /\ AccountInv'
    <2>1. PICK z : /\ stack' = [stack EXCEPT ![t] = z] /\ GoodStack(z)
                   /\ z # <<>> => Head(z).at \in {"running", "check"}
                   /\ Leases(z) = Leases(stack[t]) - One(Top(t))
      BY <1>1, <1>4, <1>5, AdvancedIs
    <2>2. StoreFlags' /\ EpisodesEnd'
      BY <1>4, <1>5 DEF StoreFlags, EpisodesEnd
    <2> QED BY <1>1, <1>2, <1>3, <1>5, <2>1, <2>2, OnlyMoves
  <1>6. CASE /\ pending' = pending + 1
             /\ stack' = Replaced(t, [Top(t) EXCEPT !.at = "post", !.leased = TRUE])
             /\ UNCHANGED overflowing
    <2> DEFINE l == TRUE
               at == "post"
    <2>1. stack' = Goes(t, at, l) /\ l /\ at = "post"
      BY <1>6 DEF Goes
    <2>8. l \in BOOLEAN /\ at \in {"check", "call", "running", "reserve", "warn", "post"}
      OBVIOUS
    <2> HIDE DEF l, at
    <2>2. PICK z : /\ Goes(t, at, l) = [stack EXCEPT ![t] = z]
                   /\ GoodStack(z)
                   /\ z # <<>> /\ Head(z).at = at /\ Head(z).list = Top(t).list
                   /\ Leases(z) = Leases(stack[t]) + (IF l THEN 1 ELSE 0) - One(Top(t))
      <3>1. (l => Top(t).drained \/ at = "post") /\ (Top(t).drained => at \in {"check", "call", "running"})
        BY <1>3, <2>1
      <3> QED BY ONLY <1>1, <1>4, <2>8, <3>1, t \in Threads, GoToIs
    <2>3. Leases(z) = Leases(stack[t]) + 1
      BY <1>3, <1>4, <2>1, <2>2, OnStacksNat DEF One
    <2>4. StoreFlags' /\ EpisodesEnd'
      BY <1>4, <1>6 DEF StoreFlags, EpisodesEnd
    <2>5. UNCHANGED <<nextId, alive, lock, removedBy, batch, queue>>
      BY <1>1 DEF listVars
    <2>6. /\ QueueTypes'
          /\ Leases(queue') + Leases(batch') = Leases(queue) + Leases(batch) + 0
      BY <1>4, <2>5, QueueStill
    <2>7. pending' = pending + 1 + 0 /\ pending' \in Nat /\ limit' \in Nat
      BY <1>1, <1>4, <1>6
    <2> QED BY <1>2, <2>2, <2>3, <2>4, <2>1, <2>5, <2>6, <2>7, 0 \in Int, 1 \in Int, Settled
  <1>7. CASE /\ limit # 0 /\ pending >= limit
             /\ overflowing' = TRUE
             /\ stack' = IF overflowing THEN Advanced(t) ELSE GoTo(t, "warn")
             /\ UNCHANGED pending
    <2>1. pending # 0
      BY <1>4, <1>7
    <2>2. CASE overflowing
      BY <1>5, <1>7, <2>1, <2>2
    <2>3. CASE ~overflowing
      <3>1. PICK z : /\ stack' = [stack EXCEPT ![t] = z] /\ GoodStack(z)
                     /\ z # <<>> /\ Head(z).at = "warn"
                     /\ Leases(z) = Leases(stack[t])
        BY <1>1, <1>3, <1>4, <1>7, <2>3, JustMoves
      <3>2. Leases(z) = Leases(stack[t]) - One(Top(t))
        BY <1>3, <1>4, <3>1, OnStacksNat DEF One
      <3>3. StoreFlags' /\ EpisodesEnd'
        BY <1>4, <1>7, <2>1 DEF StoreFlags, EpisodesEnd
      <3> QED BY <1>1, <1>2, <1>3, <1>7, <3>1, <3>2, <3>3, OnlyMoves
    <2> QED BY <2>2, <2>3
  <1>8. CASE stack' = Advanced(t) /\ UNCHANGED <<pending, overflowing>>
    BY <1>4, <1>5, <1>8 DEF StoreFlags, EpisodesEnd
  <1> QED BY <1>6, <1>7, <1>8 DEF Reserve

\* A closure queued: the copies keep their type, and its lease is counted.
LEMMA Queued1 ==
    ASSUME QueueTypes, NEW x \in Copies, UNCHANGED <<nextId, batch>>,
           queue' = Append(queue, x)
    PROVE  /\ QueueTypes'
           /\ Leases(queue') + Leases(batch') = Leases(queue) + Leases(batch) + One(x)
  <1>1. Copies' = Copies
    BY TypesSame
  <1>2. queue \in Seq(Copies)
    BY DEF QueueTypes
  <1>3. Append(queue, x) \in Seq(Copies)
    BY <1>2
  <1>4. Leases(Append(queue, x)) = Leases(queue) + One(x)
    BY ONLY <1>2, x \in Copies, LeasesAppend
  <1>5. Leases(queue) \in Nat /\ Leases(batch) \in Nat /\ One(x) \in Nat
    BY QueueLeases DEF One
  <1> QED BY <1>1, <1>3, <1>4, <1>5 DEF QueueTypes

LEMMA WarnKeeps ==
    ASSUME ThreadInv, AccountInv, NEW t \in Threads, Warn(t)
    PROVE  ThreadInv' /\ AccountInv'
  <1>1. /\ stack[t] # <<>> /\ Top(t).at = "warn" /\ stack' = Advanced(t)
        /\ UNCHANGED <<listVars, limit, pending, overflowing, batch, removedBy>>
    BY DEF Warn, In, storeVars
  <1>2. /\ Top(t) \in Frames /\ FrameOK(Top(t))
        /\ ~(lock.op # "free" /\ lock.by = t)
    BY <1>1, InFrame
  <1>3. ~Top(t).leased
    BY <1>1, <1>2 DEF FrameOK
  <1>4. /\ StackInv /\ QueueTypes /\ StoreFlags' /\ EpisodesEnd'
        /\ pending \in Nat /\ limit \in Nat
    BY <1>1 DEF AccountInv, StoreTypes, StoreFlags, BacklogAccounted, EpisodesEnd, ThreadInv, listVars
  <1>5. PICK z : /\ stack' = [stack EXCEPT ![t] = z] /\ GoodStack(z)
                 /\ z # <<>> => Head(z).at \in {"running", "check"}
                 /\ Leases(z) = Leases(stack[t]) - One(Top(t))
    BY <1>1, <1>4, AdvancedIs
  <1>6. CASE UNCHANGED queue
    BY <1>1, <1>2, <1>3, <1>4, <1>5, <1>6, OnlyMoves
  <1>7. CASE queue' = Append(queue, Warning)
    <2>1. Warning \in Copies /\ One(Warning) = 0
      BY DEF Copies, Warning, One
    <2>2. UNCHANGED <<nextId, alive, lock, removedBy, batch>>
      BY <1>1 DEF listVars
    <2>3. /\ QueueTypes'
          /\ Leases(queue') + Leases(batch') = Leases(queue) + Leases(batch) + One(Warning)
      BY <1>4, <1>7, <2>1, <2>2, Queued1
    <2>4. Leases(queue') + Leases(batch') = Leases(queue) + Leases(batch) + 0
      BY <2>1, <2>3
    <2>5. Leases(z) = Leases(stack[t]) + 0
      BY <1>3, <1>4, <1>5, OnStacksNat DEF One
    <2>6. pending' = pending + 0 + 0 /\ pending' \in Nat /\ limit' \in Nat
      BY <1>1, <1>4
    <2> QED BY <1>2, <1>4, <1>5, <2>2, <2>3, <2>4, <2>5, <2>6, 0 \in Int, Settled
  <1> QED BY <1>6, <1>7 DEF Warn

LEMMA PostKeeps ==
    ASSUME ThreadInv, AccountInv, NEW t \in Threads, Post(t)
    PROVE  ThreadInv' /\ AccountInv'
  <1> DEFINE x == Copy(Current(t), Top(t).leased)
             n == One(Top(t))
  <1>1. /\ stack[t] # <<>> /\ Top(t).at = "post" /\ stack' = Advanced(t)
        /\ queue' = Append(queue, x)
        /\ UNCHANGED <<listVars, limit, pending, overflowing, batch, removedBy>>
    BY DEF Post, In, storeVars
  <1>2. /\ Top(t) \in Frames /\ Current(t) \in Entries
        /\ ~(lock.op # "free" /\ lock.by = t)
    BY <1>1, InFrame
  <1>3. x \in Copies /\ One(x) = n
    BY <1>2 DEF Copies, Copy, One, Frames
  <1>4. /\ StackInv /\ QueueTypes /\ StoreFlags' /\ EpisodesEnd'
        /\ pending \in Nat /\ limit \in Nat
    BY <1>1 DEF AccountInv, StoreTypes, StoreFlags, BacklogAccounted, EpisodesEnd, ThreadInv, listVars
  <1>5. PICK z : /\ stack' = [stack EXCEPT ![t] = z] /\ GoodStack(z)
                 /\ z # <<>> => Head(z).at \in {"running", "check"}
                 /\ Leases(z) = Leases(stack[t]) - One(Top(t))
    BY <1>1, <1>4, AdvancedIs
  <1>6. UNCHANGED <<nextId, alive, lock, removedBy, batch>>
    BY <1>1 DEF listVars
  <1> HIDE DEF x
  <1>7. /\ QueueTypes'
        /\ Leases(queue') + Leases(batch') = Leases(queue) + Leases(batch) + One(x)
    BY <1>1, <1>3, <1>4, <1>6, Queued1
  <1>8. n \in Int /\ -n \in Int
    BY DEF One
  <1>9. Leases(z) = Leases(stack[t]) + (-n)
    BY <1>4, <1>5, <1>8, OnStacksNat
  <1>10. Leases(queue') + Leases(batch') = Leases(queue) + Leases(batch) + n
    BY <1>3, <1>7
  <1>11. pending' = pending + (-n) + n /\ pending' \in Nat /\ limit' \in Nat
    BY <1>1, <1>4, <1>8
  <1> HIDE DEF n
  <1> QED BY <1>2, <1>4, <1>5, <1>6, <1>7, <1>8, <1>9, <1>10, <1>11, Settled

\* A step that gives the lease of t's frame back.
LEMMA GivesBack ==
    ASSUME ThreadInv, AccountInv, NEW t \in Threads, stack[t] # <<>>,
           NEW z, GoodStack(z), stack' = [stack EXCEPT ![t] = z],
           Leases(z) = Leases(stack[t]) - One(Top(t)),
           z # <<>> => Head(z).at # "call",
           Release(Top(t).leased),
           UNCHANGED <<listVars, limit, queue, batch, removedBy>>,
           ~(lock.op # "free" /\ lock.by = t)
    PROVE  ThreadInv' /\ AccountInv'
  <1> DEFINE n == One(Top(t))
  <1>1. UNCHANGED <<nextId, alive, lock, removedBy, queue, batch, sourceAlive>>
    BY DEF listVars
  <1>2. /\ QueueTypes'
        /\ Leases(queue') + Leases(batch') = Leases(queue) + Leases(batch) + 0
    BY <1>1, QueueStill DEF AccountInv
  <1>3. /\ pending' = pending - n /\ pending' \in Nat
        /\ StoreFlags' /\ EpisodesEnd'
    BY <1>1, Released
  <1>4. n \in Int /\ -n \in Int
    BY DEF One
  <1>5. pending' = pending + (-n) + 0 /\ limit' \in Nat
    BY <1>3, <1>4 DEF AccountInv, StoreTypes
  <1>6. Leases(z) = Leases(stack[t]) + (-n)
    BY <1>4, OnStacksNat DEF ThreadInv
  <1> HIDE DEF n
  <1> QED BY <1>1, <1>2, <1>3, <1>4, <1>5, <1>6, 0 \in Int, Settled

LEMMA PostFailsKeeps ==
    ASSUME ThreadInv, AccountInv, NEW t \in Threads, PostFails(t)
    PROVE  ThreadInv' /\ AccountInv'
  <1>1. /\ stack[t] # <<>> /\ Top(t).at = "post"
        /\ stack' \in {Advanced(t), Popped(t)}
        /\ Release(Top(t).leased)
        /\ UNCHANGED <<listVars, limit, queue, batch, removedBy>>
    BY DEF PostFails, In, queueVars, LeaseOf
  <1>2. ~(lock.op # "free" /\ lock.by = t) /\ StackInv
    BY <1>1, InFrame DEF ThreadInv
  <1>3. PICK z : /\ stack' = [stack EXCEPT ![t] = z] /\ GoodStack(z)
                 /\ z # <<>> => Head(z).at \in {"running", "check"}
                 /\ Leases(z) = Leases(stack[t]) - One(Top(t))
    BY <1>1, <1>2, AdvancedIs, PoppedIs
  <1> QED BY <1>1, <1>2, <1>3, GivesBack

-----------------------------------------------------------------------------
(* The drain, and user code that starts a pass.                            *)

LEMMA DrainKeeps ==
    ASSUME ThreadInv, AccountInv, Drain
    PROVE  ThreadInv' /\ AccountInv'
  <1>1. /\ stack[Main] = <<>> /\ batch = <<>> /\ lock.by # Main
        /\ batch' = queue /\ queue' = <<>>
        /\ UNCHANGED <<nextId, alive, lock, removedBy, stack, sourceAlive>>
        /\ UNCHANGED <<limit, pending, overflowing>>
    BY DEF Drain, Received, listVars, storeVars
  <1>2. Copies' = Copies /\ Frames' = Frames
    BY <1>1, TypesSame
  <1>3. StackInv' /\ Quiet'
    BY <1>1, <1>2 DEF ThreadInv, StackInv, GoodStack, Quiet, In, Top, Current
  <1>4. HolderAtRest'
    <2> SUFFICES ASSUME NEW u \in Threads, lock'.op # "free", lock'.by = u
                 PROVE  AtRest(u)'
      BY DEF HolderAtRest
    <2>1. u # Main /\ AtRest(u)
      BY <1>1 DEF ThreadInv, HolderAtRest
    <2> QED BY <1>1, <2>1 DEF AtRest, In, Top
  <1>5. QueueTypes'
    <2>1. <<>> \in Seq(Copies)
      OBVIOUS
    <2> QED BY <1>1, <1>2, <2>1 DEF AccountInv, QueueTypes
  <1>6. LeasesBalanced'
    <2>1. Leases(queue') = 0 /\ Leases(batch) = 0 /\ Leases(batch') = Leases(queue)
      BY <1>1, LeasesEmpty
    <2>2. Leases(queue) \in Nat
      BY QueueLeases DEF AccountInv
    <2>3. OnStacks' = OnStacks /\ OnStacks \in Nat
      BY <1>1, OnStacksNat, OnStacksStill DEF ThreadInv
    <2>4. pending = Leases(queue) + Leases(batch) + OnStacks
      BY DEF AccountInv, BacklogAccounted, LeasesBalanced, Backlog, OnStacks
    <2>5. pending' = Leases(queue') + Leases(batch') + OnStacks'
      BY <1>1, <2>1, <2>2, <2>3, <2>4
    <2> QED BY <2>5 DEF LeasesBalanced, Backlog, OnStacks
  <1> QED
    BY <1>1, <1>3, <1>4, <1>5, <1>6 DEF ThreadInv, AccountInv, StoreTypes, StoreFlags,
        BacklogAccounted, EpisodesEnd

LEMMA RunNextKeeps ==
    ASSUME ThreadInv, AccountInv, RunNext
    PROVE  ThreadInv' /\ AccountInv'
  <1> DEFINE x == Head(batch)
             n == One(x)
  <1>1. /\ stack[Main] = <<>> /\ batch # <<>>
        /\ batch' = Tail(batch) /\ queue' = queue
        /\ UNCHANGED <<nextId, alive, lock, removedBy, sourceAlive>>
        /\ UNCHANGED <<limit, pending, overflowing>>
    BY DEF RunNext, listVars, storeVars
  <1>2. x \in Copies /\ Tail(batch) \in Seq(Copies) /\ Leases(batch) = One(x) + Leases(Tail(batch))
    <2>1. batch \in Seq(Copies) /\ batch # <<>>
      BY <1>1 DEF AccountInv, QueueTypes
    <2>2. Head(batch) \in Copies /\ Tail(batch) \in Seq(Copies)
      BY ONLY <2>1, TailIs
    <2>3. Leases(batch) = One(Head(batch)) + Leases(Tail(batch))
      BY ONLY <2>1, LeasesTail
    <2> QED BY <2>2, <2>3
  <1>3. Copies' = Copies
    BY <1>1, TypesSame
  <1>4. QueueTypes'
    BY <1>1, <1>2, <1>3 DEF AccountInv, QueueTypes
  <1>5. n \in Int /\ -n \in Int
    BY DEF One
  <1>6. Leases(queue') + Leases(batch') = Leases(queue) + Leases(batch) + (-n)
    <2>1. Leases(queue) \in Nat /\ Leases(batch) \in Nat /\ Leases(Tail(batch)) \in Nat
      BY <1>2, QueueLeases, LeasesNat DEF AccountInv
    <2> QED BY <1>1, <1>2, <1>5, <2>1
  <1>7. /\ StoreFlags' /\ EpisodesEnd'
        /\ pending \in Nat /\ limit \in Nat
    BY <1>1 DEF AccountInv, StoreTypes, StoreFlags, BacklogAccounted, EpisodesEnd
  <1>8. Main \in Threads /\ ~(lock.op # "free" /\ lock.by = Main)
    BY <1>1, EventConstants DEF ThreadInv, HolderAtRest, AtRest, In
  <1>9. \E z : /\ stack' = [stack EXCEPT ![Main] = z] /\ GoodStack(z)
               /\ z # <<>> => Head(z).at # "call"
               /\ Leases(z) = Leases(stack[Main]) + n
    <2>1. StackInv /\ GoodStack(<<>>)
      BY <1>1, <1>8 DEF ThreadInv, StackInv
    <2>2. CASE x.kind = "warning"
      <3>1. stack' = stack
        BY <2>2 DEF RunNext
      <3>2. stack' = [stack EXCEPT ![Main] = <<>>]
        BY <1>1, <1>8, <2>1, <3>1 DEF StackInv
      <3>3. x.leased = FALSE
        BY <1>2, <2>2 DEF Copies, Warning
      <3>4. n = 0
        BY <3>3 DEF One
      <3>5. Leases(<<>>) = Leases(stack[Main]) + n
        BY <1>1, <3>4, LeasesEmpty
      <3> HIDE DEF n, x
      <3> QED BY <2>1, <3>2, <3>5
    <2>3. CASE x.kind # "warning"
      <3> DEFINE f == Frame(<<x.entry>>, FALSE, TRUE, x.leased)
      <3>1. x.entry \in Entries /\ x.leased \in BOOLEAN
        BY <1>2, <2>3 DEF Copies, Warning
      <3>2. <<x.entry>> \in Seq(Entries) /\ <<x.entry>> # <<>> /\ Ordered(<<x.entry>>)
        BY ONLY <3>1, OneEntry
      <3>3. f \in Frames /\ FrameOK(f) /\ f.at = "check" /\ One(f) = n
        BY <3>1, <3>2 DEF Frames, Frame, FrameOK, One
      <3>4. stack' = [stack EXCEPT ![Main] = <<f>>]
        BY <2>3 DEF RunNext
      <3> HIDE DEF f
      <3>5. <<f>> \o <<>> = <<f>>
        OBVIOUS
      <3>6. /\ GoodStack(<<f>> \o <<>>) /\ <<f>> \o <<>> # <<>> /\ Head(<<f>> \o <<>>) = f
            /\ Leases(<<f>> \o <<>>) = One(f) + Leases(<<>>)
        <4> DEFINE s == <<>>
        <4>1. GoodStack(s) /\ (s # <<>> => Head(s).at = "running")
          BY <2>1
        <4> HIDE DEF s
        <4>2. /\ GoodStack(<<f>> \o s) /\ <<f>> \o s # <<>> /\ Head(<<f>> \o s) = f
              /\ Leases(<<f>> \o s) = One(f) + Leases(s)
          BY ONLY <3>3, <4>1, PushIs
        <4> QED BY <4>2 DEF s
      <3>7. Leases(<<f>>) = Leases(stack[Main]) + n
        BY <1>1, <1>5, <3>3, <3>5, <3>6, LeasesEmpty
      <3> HIDE DEF n
      <3> QED BY <3>3, <3>4, <3>5, <3>6, <3>7
    <2> QED BY <2>2, <2>3
  <1>10. pending' = pending + n + (-n) /\ pending' \in Nat /\ limit' \in Nat
    BY <1>1, <1>5, <1>7
  <1> HIDE DEF n
  <1>11. PICK z : /\ stack' = [stack EXCEPT ![Main] = z] /\ GoodStack(z)
                  /\ z # <<>> => Head(z).at # "call"
                  /\ Leases(z) = Leases(stack[Main]) + n
    BY <1>9
  <1> QED BY <1>1, <1>4, <1>5, <1>6, <1>7, <1>8, <1>10, <1>11, Settled

LEMMA RecheckKeeps ==
    ASSUME ThreadInv, AccountInv, Recheck
    PROVE  ThreadInv' /\ AccountInv'
  <1>0. Main \in Threads
    BY EventConstants
  <1>1. /\ stack[Main] # <<>> /\ Top(Main).at = "check" /\ Top(Main).drained
        /\ UNCHANGED <<listVars, limit, queue, batch, removedBy>>
    BY DEF Recheck, In, queueVars
  <1>2. ~(lock.op # "free" /\ lock.by = Main) /\ StackInv
    BY <1>0, <1>1, InFrame DEF ThreadInv
  <1>3. CASE Live(Current(Main)) /\ stack' = GoTo(Main, "call") /\ UNCHANGED <<pending, overflowing>>
    <2>1. PICK z : /\ stack' = [stack EXCEPT ![Main] = z] /\ GoodStack(z)
                   /\ z # <<>> /\ Head(z).at = "call" /\ Head(z).list = Top(Main).list
                   /\ Leases(z) = Leases(stack[Main])
      BY <1>0, <1>1, <1>2, <1>3, JustMoves
    <2>2. Head(Head(z).list).id \notin removedBy[Main]
      BY <1>0, <1>3, <2>1 DEF Live, Current, ThreadInv, Quiet
    <2>3. Leases(z) = Leases(stack[Main]) + 0
      BY <1>0, <1>2, <2>1, OnStacksNat
    <2>4. UNCHANGED <<nextId, alive, lock, removedBy, queue, batch>>
      BY <1>1 DEF listVars
    <2>5. /\ QueueTypes'
          /\ Leases(queue') + Leases(batch') = Leases(queue) + Leases(batch) + 0
      BY <2>4, QueueStill DEF AccountInv
    <2>6. /\ pending' = pending + 0 + 0 /\ pending' \in Nat /\ limit' \in Nat
          /\ StoreFlags' /\ EpisodesEnd'
      BY <1>1, <1>3 DEF AccountInv, StoreTypes, StoreFlags, BacklogAccounted, EpisodesEnd, listVars
    <2> QED BY <1>0, <1>2, <2>1, <2>2, <2>3, <2>4, <2>5, <2>6, 0 \in Int, Settled
  <1>4. CASE stack' = Popped(Main) /\ Release(Top(Main).leased)
    <2>1. PICK z : /\ stack' = [stack EXCEPT ![Main] = z] /\ GoodStack(z)
                   /\ z # <<>> => Head(z).at = "running"
                   /\ Leases(z) = Leases(stack[Main]) - One(Top(Main))
      BY <1>0, <1>1, <1>2, <1>4, PoppedIs
    <2> QED BY <1>0, <1>1, <1>2, <1>4, <2>1, GivesBack
  <1> QED BY <1>3, <1>4 DEF Recheck, TokenSet

LEMMA CallCopyKeeps ==
    ASSUME ThreadInv, AccountInv, CallCopy
    PROVE  ThreadInv' /\ AccountInv'
  <1>0. Main \in Threads
    BY EventConstants
  <1>1. /\ stack[Main] # <<>> /\ Top(Main).at = "call" /\ Top(Main).drained
        /\ UNCHANGED <<listVars, limit, queue, batch, removedBy>>
    BY DEF CallCopy, In, queueVars
  <1>2. ~(lock.op # "free" /\ lock.by = Main) /\ StackInv
    BY <1>0, <1>1, InFrame DEF ThreadInv
  <1>3. CASE stack' = GoTo(Main, "running") /\ UNCHANGED <<pending, overflowing>>
    <2>1. PICK z : /\ stack' = [stack EXCEPT ![Main] = z] /\ GoodStack(z)
                   /\ z # <<>> /\ Head(z).at = "running"
                   /\ Leases(z) = Leases(stack[Main])
      BY <1>0, <1>1, <1>2, <1>3, JustMoves
    <2>3. Leases(z) = Leases(stack[Main]) + 0
      BY <1>0, <1>2, <2>1, OnStacksNat
    <2>4. UNCHANGED <<nextId, alive, lock, removedBy, queue, batch>>
      BY <1>1 DEF listVars
    <2>5. /\ QueueTypes'
          /\ Leases(queue') + Leases(batch') = Leases(queue) + Leases(batch) + 0
      BY <2>4, QueueStill DEF AccountInv
    <2>6. /\ pending' = pending + 0 + 0 /\ pending' \in Nat /\ limit' \in Nat
          /\ StoreFlags' /\ EpisodesEnd'
      BY <1>1, <1>3 DEF AccountInv, StoreTypes, StoreFlags, BacklogAccounted, EpisodesEnd, listVars
    <2> QED BY <1>0, <1>2, <2>1, <2>3, <2>4, <2>5, <2>6, 0 \in Int, Settled
  <1>4. CASE stack' = Popped(Main) /\ Release(Top(Main).leased)
    <2>1. PICK z : /\ stack' = [stack EXCEPT ![Main] = z] /\ GoodStack(z)
                   /\ z # <<>> => Head(z).at = "running"
                   /\ Leases(z) = Leases(stack[Main]) - One(Top(Main))
      BY <1>0, <1>1, <1>2, <1>4, PoppedIs
    <2> QED BY <1>0, <1>1, <1>2, <1>4, <2>1, GivesBack
  <1> QED BY <1>3, <1>4 DEF CallCopy

LEMMA ReturnCopyKeeps ==
    ASSUME ThreadInv, AccountInv, ReturnCopy
    PROVE  ThreadInv' /\ AccountInv'
  <1>0. Main \in Threads
    BY EventConstants
  <1>1. /\ stack[Main] # <<>> /\ stack' = Popped(Main) /\ Release(Top(Main).leased)
        /\ UNCHANGED <<listVars, limit, queue, batch, removedBy>>
        /\ ~(lock.op # "free" /\ lock.by = Main)
    BY DEF ReturnCopy, In, queueVars
  <1>2. PICK z : /\ stack' = [stack EXCEPT ![Main] = z] /\ GoodStack(z)
                 /\ z # <<>> => Head(z).at = "running"
                 /\ Leases(z) = Leases(stack[Main]) - One(Top(Main))
    BY <1>0, <1>1, PoppedIs DEF ThreadInv
  <1> QED BY <1>0, <1>1, <1>2, GivesBack

LEMMA NotifyKeeps ==
    ASSUME ThreadInv, AccountInv, ListTypes, ListInv, NEW t \in Threads, Notify(t)
    PROVE  ThreadInv' /\ AccountInv'
  <1> DEFINE s == stack[t]
             f == Frame(entries, External, FALSE, FALSE)
             z == <<f>> \o s
  <1>1. /\ lock.by # t /\ entries # <<>>
        /\ In(t, "running") \/ stack[t] = <<>>
        /\ stack' = [stack EXCEPT ![t] = z]
        /\ UNCHANGED <<nextId, alive, lock, removedBy, queue, batch, sourceAlive>>
        /\ UNCHANGED <<limit, pending, overflowing>>
    BY DEF Notify, UserCode, listVars, storeVars, queueVars
  <1>2. GoodStack(s) /\ (s # <<>> => Head(s).at = "running")
    BY <1>1 DEF ThreadInv, StackInv, In, Top
  <1>3. f \in Frames /\ FrameOK(f) /\ f.at = "check" /\ One(f) = 0
    BY <1>1, EventConstants
    DEF ListTypes, ListInv, ListsMatch, Frame, Frames, FrameOK, One
  <1> HIDE DEF s, f
  <1>4. /\ GoodStack(z) /\ z # <<>> /\ Head(z) = f
        /\ Leases(z) = One(f) + Leases(s) /\ Leases(s) \in Nat
    BY ONLY <1>2, <1>3, PushIs
  <1>5. Leases(z) = Leases(stack[t]) + 0
    BY <1>3, <1>4 DEF s
  <1> HIDE DEF z
  <1>6. /\ QueueTypes'
        /\ Leases(queue') + Leases(batch') = Leases(queue) + Leases(batch) + 0
    BY <1>1, QueueStill DEF AccountInv
  <1>7. /\ pending' = pending + 0 + 0 /\ pending' \in Nat /\ limit' \in Nat
        /\ StoreFlags' /\ EpisodesEnd'
    BY <1>1 DEF AccountInv, StoreTypes, StoreFlags, BacklogAccounted, EpisodesEnd
  <1> QED BY <1>1, <1>3, <1>4, <1>5, <1>6, <1>7, 0 \in Int, Settled

-----------------------------------------------------------------------------
(* User code and the holder of the mutex.                                  *)

\* Steps that leave the stacks and the queue alone keep their accounts.
LEMMA StacksStill ==
    ASSUME StackInv, AccountInv, nextId \in Nat, nextId' \in Nat, nextId <= nextId',
           UNCHANGED <<stack, queue, batch, pending>>,
           limit' \in Nat, StoreFlags', overflowing' => overflowing
    PROVE  StackInv' /\ AccountInv'
  <1>1. Seq(Frames) \subseteq Seq(Frames') /\ Seq(Copies) \subseteq Seq(Copies')
    BY TypesGrow
  <1>2. StackInv'
    <2>1. stack' \in [Threads -> Seq(Frames')]
      BY <1>1 DEF StackInv
    <2> QED BY <1>1, <2>1 DEF StackInv, GoodStack
  <1>3. QueueTypes'
    BY <1>1 DEF AccountInv, QueueTypes
  <1>4. BacklogAccounted'
    BY DEF AccountInv, BacklogAccounted, LeasesBalanced, Backlog, EpisodesEnd
  <1> QED BY <1>2, <1>3, <1>4 DEF AccountInv, StoreTypes

\* User code holds no mutex, and no call is about to be made by its thread.
LEMMA UserHolds ==
    ASSUME NEW t \in Threads, UserCode(t)
    PROVE  AtRest(t) /\ ~In(t, "call")
  BY DEF UserCode, AtRest, In

LEMMA UserKeeps ==
    ASSUME ThreadInv, AccountInv, ListTypes, ListInv, NEW t \in Threads,
           User(t) \/ Mutex(t), ~Notify(t)
    PROVE  ThreadInv' /\ AccountInv'
  <1> USE DEF listVars, storeVars, queueVars
  <1>0. nextId \in Nat /\ limit \in Nat /\ StoreFlags
    BY EventConstants DEF ListTypes, AccountInv, StoreTypes
  <1>1. StackInv /\ HolderAtRest /\ Quiet
    BY DEF ThreadInv
  <1>2. ASSUME UNCHANGED <<stack, queue, batch, pending>>, nextId' \in {nextId, nextId + 1},
               limit' \in Nat, StoreFlags', overflowing' => overflowing,
               lock'.op # "free" => (lock'.by = t /\ AtRest(t)) \/ lock' = lock,
               \A u \in Threads : removedBy'[u] \cap alive' = {},
               \A u \in Threads : (u = t /\ ~In(t, "call")) \/ removedBy'[u] = removedBy[u]
        PROVE  ThreadInv' /\ AccountInv'
    <2>1. StackInv' /\ AccountInv'
      BY <1>0, <1>1, <1>2, StacksStill
    <2>2. HolderAtRest'
      BY <1>1, <1>2 DEF HolderAtRest, AtRest, In, Top
    <2>3. Quiet'
      BY <1>1, <1>2 DEF Quiet, In, Top, Current
    <2> QED BY <2>1, <2>2, <2>3 DEF ThreadInv
  <1>3. ASSUME lock.by = t, lock.op # "free" PROVE AtRest(t) /\ ~In(t, "call")
    BY <1>1, <1>3 DEF HolderAtRest, AtRest, In
  <1>4. \A u \in Threads : removedBy[u] \cap alive = {} /\ removedBy[u] \subseteq IdRange
    BY <1>1 DEF Quiet, ListTypes
  <1>5. ASSUME NEW k \in Kinds, Listen(t, k) PROVE ThreadInv' /\ AccountInv'
    <2>1. /\ nextId' = nextId + 1 /\ alive' = alive \cup {nextId + 1}
          /\ UNCHANGED <<stack, queue, batch, pending, limit, overflowing, sourceAlive, lock, removedBy>>
      BY <1>5 DEF Listen
    <2>2. nextId + 1 \notin IdRange
      BY <1>0 DEF IdRange
    <2>3. \A u \in Threads : removedBy'[u] \cap alive' = {}
      BY <1>4, <2>1, <2>2
    <2> QED BY <1>0, <1>2, <2>1, <2>3 DEF StoreFlags
  <1>6. ASSUME NEW id \in handles, Disconnect(t, id) PROVE ThreadInv' /\ AccountInv'
    <2>1. /\ alive' = alive \ ({id} \cap Ids(entries)) /\ lock'.by = t
          /\ removedBy' = [removedBy EXCEPT ![t] = @ \cup {id}]
          /\ UNCHANGED <<nextId, stack, queue, batch, pending, limit, overflowing, sourceAlive>>
      BY <1>6 DEF Disconnect, Holder
    <2>2. id \notin alive'
      BY <2>1 DEF ListInv
    <2>3. \A u \in Threads : /\ removedBy'[u] \cap alive' = {}
                             /\ u # t => removedBy'[u] = removedBy[u]
      BY <1>4, <2>1, <2>2 DEF ListTypes
    <2>4. AtRest(t) /\ ~In(t, "call")
      BY <1>6, UserHolds DEF Disconnect
    <2> QED BY <1>0, <1>2, <2>1, <2>3, <2>4 DEF StoreFlags
  <1>7. ASSUME NEW id \in handles, DisconnectDead(t, id) PROVE ThreadInv' /\ AccountInv'
    <2>1. UNCHANGED <<nextId, alive, stack, queue, batch, pending, limit, overflowing, sourceAlive,
                      lock, removedBy>>
      BY <1>7 DEF DisconnectDead
    <2> QED BY <1>0, <1>2, <1>4, <2>1 DEF StoreFlags
  <1>8. CASE Clear(t)
    <2>1. /\ lock'.by = t
          /\ UNCHANGED <<nextId, alive, stack, queue, batch, pending, limit, overflowing, sourceAlive,
                         removedBy>>
      BY <1>8 DEF Clear, Holder
    <2>2. AtRest(t)
      BY <1>8, UserHolds DEF Clear
    <2> QED BY <1>0, <1>2, <1>4, <2>1, <2>2 DEF StoreFlags
  <1>9. ASSUME NEW n \in Limits, SetLimit(t, n) PROVE ThreadInv' /\ AccountInv'
    <2>1. /\ limit' = n /\ n \in Nat /\ overflowing' = (overflowing /\ n # 0 /\ pending >= n)
          /\ UNCHANGED <<nextId, alive, stack, queue, batch, pending, sourceAlive, lock, removedBy>>
      BY <1>9, EventConstants DEF SetLimit
    <2>2. overflowing' \in BOOLEAN /\ (overflowing' => overflowing)
      BY <2>1
    <2>3. StoreFlags'
      BY <1>0, <2>1, <2>2 DEF StoreFlags
    <2> QED BY <1>0, <1>2, <1>4, <2>1, <2>2, <2>3
  <1>10. CASE Rebuild(t) \/ ClearEnd(t)
    <2>1. /\ lock'.op = "free"
          /\ UNCHANGED <<nextId, alive, stack, queue, batch, pending, limit, overflowing, sourceAlive,
                         removedBy>>
      BY <1>10 DEF Rebuild, ClearEnd, Free
    <2> QED BY <1>0, <1>2, <1>4, <2>1 DEF StoreFlags
  <1>11. CASE ClearOne(t)
    <2> DEFINE id == Head(lock.left).id
    <2>1. /\ alive' = alive \ {id} /\ lock.by = t /\ lock.op # "free"
          /\ lock' = [lock EXCEPT !.left = Tail(@)]
          /\ removedBy' = [removedBy EXCEPT ![t] = @ \cup {id}]
          /\ UNCHANGED <<nextId, stack, queue, batch, pending, limit, overflowing, sourceAlive>>
      BY <1>11 DEF ClearOne
    <2> HIDE DEF id
    <2>2. lock'.by = t
      BY <2>1 DEF ListTypes
    <2>3. \A u \in Threads : /\ removedBy'[u] \cap alive' = {}
                             /\ u # t => removedBy'[u] = removedBy[u]
      BY <1>4, <2>1 DEF ListTypes
    <2> QED BY <1>0, <1>2, <1>3, <2>1, <2>2, <2>3 DEF StoreFlags
  <1> QED BY <1>5, <1>6, <1>7, <1>8, <1>9, <1>10, <1>11 DEF User, Mutex

LEMMA DestroyKeeps ==
    ASSUME ThreadInv, AccountInv, ListTypes, Destroy
    PROVE  ThreadInv' /\ AccountInv'
  <1>1. /\ UNCHANGED <<nextId, alive, stack, queue, batch, pending, limit, overflowing, lock, removedBy>>
        /\ sourceAlive' = FALSE
    BY DEF Destroy, storeVars, queueVars
  <1>2. /\ nextId \in Nat /\ nextId' \in Nat /\ nextId <= nextId'
        /\ limit' \in Nat
    BY <1>1, EventConstants DEF ListTypes, AccountInv, StoreTypes
  <1>3. StoreFlags' /\ (overflowing' => overflowing)
    BY <1>1 DEF AccountInv, StoreFlags
  <1>4. StackInv' /\ AccountInv'
    BY <1>1, <1>2, <1>3, StacksStill DEF ThreadInv
  <1> QED BY <1>1, <1>4 DEF ThreadInv, HolderAtRest, AtRest, Quiet, In, Top, Current

LEMMA StutterKeeps ==
    ASSUME ThreadInv, AccountInv, ListTypes, UNCHANGED vars
    PROVE  ThreadInv' /\ AccountInv'
  <1> USE DEF vars, listVars, storeVars, queueVars
  <1>1. /\ nextId \in Nat /\ nextId' \in Nat /\ nextId <= nextId'
        /\ limit' \in Nat /\ StoreFlags' /\ (overflowing' => overflowing)
    BY EventConstants DEF ListTypes, AccountInv, StoreTypes, StoreFlags
  <1>2. StackInv' /\ AccountInv'
    BY <1>1, StacksStill DEF ThreadInv
  <1> QED BY <1>2 DEF ThreadInv, HolderAtRest, AtRest, Quiet, In, Top, Current

-----------------------------------------------------------------------------
(* The theorems.                                                           *)

LEMMA InitInv == Init => IInv
  <1> SUFFICES ASSUME Init PROVE IInv
    OBVIOUS
  <1> USE DEF Init
  <1>1. <<>> \in Seq(Entries) /\ <<>> \in Seq(Frames) /\ <<>> \in Seq(Copies)
        /\ Range(<<>>) = {} /\ Ordered(<<>>)
    BY DEF Range, Ordered
  <1>2. ListTypes
    BY <1>1, EventConstants DEF ListTypes, Free, Owners
  <1>3. ListInv
    BY <1>1 DEF ListInv, ListsMatch, Connected, NoneDead, ClearsUsers, Free
  <1>4. ThreadInv
    BY <1>1 DEF ThreadInv, StackInv, GoodStack, HolderAtRest, Quiet, In, Free
  <1>5. OnStacks = 0
    <2> DEFINE F == [t \in Threads |-> Leases(stack[t])]
    <2>1. IsFiniteSet(Threads) /\ \A t \in Threads : F[t] = 0
      BY EventConstants, LeasesEmpty
    <2> HIDE DEF F
    <2>2. SumFunctionOnSet(F, Threads) = 0
      BY ONLY <2>1, SumZero
    <2> QED BY <2>2 DEF OnStacks, F
  <1>6. AccountInv
    <2>1. LeasesBalanced
      <3>1. Backlog = Leases(queue) + Leases(batch) + OnStacks
        BY DEF Backlog, OnStacks
      <3>2. Leases(queue) = 0 /\ Leases(batch) = 0 /\ pending = 0
        BY LeasesEmpty
      <3> QED BY ONLY <1>5, <3>1, <3>2 DEF LeasesBalanced
    <2>2. QueueTypes /\ StoreTypes
      BY <1>1 DEF QueueTypes, StoreTypes
    <2>3. StoreFlags /\ EpisodesEnd
      BY DEF StoreFlags, EpisodesEnd
    <2> QED BY <2>1, <2>2, <2>3 DEF AccountInv, BacklogAccounted
  <1> QED BY <1>2, <1>3, <1>4, <1>6 DEF IInv

LEMMA StepInv == IInv /\ [Next]_vars => IInv' /\ KeepsConnected
  <1> SUFFICES ASSUME IInv, [Next]_vars PROVE IInv' /\ KeepsConnected
    OBVIOUS
  <1>1. ListTypes /\ ListInv /\ ThreadInv /\ AccountInv
    BY DEF IInv
  <1>2. ListTypes' /\ ListInv' /\ KeepsConnected
    BY <1>1, ListStep
  <1>3. CASE UNCHANGED vars
    BY <1>1, <1>2, <1>3, StutterKeeps DEF IInv
  <1>4. CASE Destroy
    BY <1>1, <1>2, <1>4, DestroyKeeps DEF IInv
  <1>5. CASE MainTurn
    BY <1>1, <1>2, <1>5, DrainKeeps, RunNextKeeps, RecheckKeeps, CallCopyKeeps, ReturnCopyKeeps
    DEF MainTurn, IInv
  <1>6. ASSUME NEW t \in Threads, User(t) \/ Mutex(t) PROVE IInv'
    BY <1>1, <1>2, <1>6, UserKeeps, NotifyKeeps DEF IInv
  <1>7. ASSUME NEW t \in Threads, Pass(t) PROVE IInv'
    BY <1>1, <1>2, <1>7, CheckKeeps, CallKeeps, ReturnKeeps, ReserveKeeps, WarnKeeps, PostKeeps,
       PostFailsKeeps DEF Pass, IInv
  <1> QED BY <1>2, <1>3, <1>4, <1>5, <1>6, <1>7 DEF Next

LEMMA SpecInv == Spec => []IInv
  BY InitInv, StepInv, PTL DEF Spec

\* The state of an Event, of the store of its limit, and of the main thread's queue
\* has its types, for any threads, listeners, limits and nesting; pending never
\* underflows, and no pass walks on an empty list.
THEOREM EventTypeCorrect == Spec => []TypeOK
  <1>1. IInv => TypeOK
    <2> SUFFICES ASSUME IInv PROVE TypeOK
      OBVIOUS
    <2>1. \A t \in Threads : \A i \in DOMAIN stack[t] : stack[t][i].list # <<>>
      BY DEF IInv, ThreadInv, StackInv, GoodStack, FrameOK, Range
    <2>2. sourceAlive \in BOOLEAN /\ overflowing \in BOOLEAN
      BY DEF IInv, AccountInv, StoreFlags
    <2>3. stack \in [Threads -> Seq(Frames)]
      BY DEF IInv, ThreadInv, StackInv
    <2>4. limit \in Nat /\ pending \in Nat /\ queue \in Seq(Copies) /\ batch \in Seq(Copies)
      BY DEF IInv, AccountInv, StoreTypes, QueueTypes
    <2> HIDE DEF TypeOK
    <2> QED BY <2>1, <2>2, <2>3, <2>4 DEF TypeOK, IInv, ListTypes
  <1> QED BY <1>1, SpecInv, PTL

\* The published list holds exactly the live listeners between two updates, if
\* allocations succeed, and all of them in any case; it and every snapshot under way
\* are in the order of priority and registration.
THEOREM ListStaysSound == Spec => []ListsAreSound
  <1>1. IInv => ListsAreSound
    <2> SUFFICES ASSUME IInv PROVE ListsAreSound
      OBVIOUS
    <2>1. InOrder
      BY DEF IInv, ListInv, ListsMatch, ThreadInv, StackInv, GoodStack, FrameOK, InOrder, Range
    <2>2. alive \subseteq Ids(entries)
      BY DEF IInv, ListInv
    <2>3. ASSUME lock = Free, ~Failures PROVE Ids(entries) \subseteq alive
      <3>1. \A e \in Range(entries) : e.id \in alive
        BY <2>3 DEF IInv, ListInv, NoneDead, Free
      <3>2. Ids(entries) = {e.id : e \in Range(entries)}
        BY IdsAre
      <3> QED BY <3>1, <3>2
    <2> QED BY <2>1, <2>2, <2>3 DEF ListsAreSound, NothingLost
  <1> QED BY <1>1, SpecInv, PTL

\* The account of external copies is exact in every interleaving of sources, failures
\* and drains, and while an overflow is muted a copy is out whose release can end it.
THEOREM BacklogStaysAccounted == Spec => []BacklogAccounted
  <1>1. IInv => BacklogAccounted
    BY DEF IInv, AccountInv
  <1> QED BY <1>1, SpecInv, PTL

\* A drained copy is called only through the look at its event's token.
LEMMA StartsDrained ==
    ASSUME IInv, Next, NEW t \in Threads, Starts(t), Top(t).drained
    PROVE  sourceAlive
  <1> USE DEF In, Top
  <1>0. Main \in Threads /\ DOMAIN stack = Threads
    BY EventConstants DEF IInv, ThreadInv, StackInv
  <1>1. /\ stack[t] # <<>> /\ Top(t).at = "call" /\ stack'[t] # stack[t]
        /\ Len(stack'[t]) = Len(stack[t])
    BY DEF Starts
  <1>2. ASSUME UNCHANGED stack PROVE FALSE
    BY <1>1, <1>2
  <1>3. ASSUME NEW u \in Threads, u # t, NEW z, stack' = [stack EXCEPT ![u] = z] PROVE FALSE
    BY <1>1, <1>3
  <1>4. CASE Destroy \/ \E u \in Threads : Mutex(u)
    BY <1>2, <1>4 DEF Destroy, Mutex, Rebuild, ClearOne, ClearEnd
  <1>5. ASSUME NEW u \in Threads, User(u) PROVE FALSE
    <2>1. CASE Notify(u)
      <3>1. u # t
        BY <1>1, <2>1 DEF Notify, UserCode
      <3> QED BY <1>3, <2>1, <3>1 DEF Notify
    <2> QED BY <1>2, <1>5, <2>1 DEF User, Listen, Disconnect, DisconnectDead, Clear, SetLimit
  <1>6. ASSUME NEW u \in Threads, Pass(u) PROVE FALSE
    <2>1. u # t
      BY <1>1, <1>6 DEF Pass, Check, Call, Return, Reserve, Warn, Post, PostFails
    <2>2. \E z : stack' = [stack EXCEPT ![u] = z]
      BY <1>6 DEF Pass, Check, Call, Return, Reserve, Warn, Post, PostFails, Advanced, Popped,
         GoTo, Replaced
    <2> QED BY <1>3, <2>1, <2>2
  <1>7. CASE MainTurn
    <2>1. CASE Drain
      BY <1>2, <2>1 DEF Drain
    <2>2. CASE RunNext
      <3>1. t # Main
        BY <1>1, <2>2 DEF RunNext
      <3>2. stack' = stack \/ \E z : stack' = [stack EXCEPT ![Main] = z]
        BY <2>2 DEF RunNext
      <3> QED BY <1>0, <1>2, <1>3, <3>1, <3>2
    <2>3. CASE Recheck \/ ReturnCopy
      <3>1. t # Main
        BY <1>1, <2>3 DEF Recheck, ReturnCopy
      <3>2. \E z : stack' = [stack EXCEPT ![Main] = z]
        BY <2>3 DEF Recheck, ReturnCopy, GoTo, Replaced, Popped
      <3> QED BY <1>0, <1>3, <3>1, <3>2
    <2>4. CASE CallCopy
      <3>1. \E z : stack' = [stack EXCEPT ![Main] = z]
        BY <2>4 DEF CallCopy, GoTo, Replaced, Popped
      <3>2. t = Main
        BY <1>0, <1>3, <3>1
      <3>3. ASSUME stack' = Popped(Main) PROVE FALSE
        <4>1. stack'[t] = Tail(stack[t])
          BY <1>0, <3>2, <3>3 DEF Popped
        <4>2. stack[t] \in Seq(Frames) /\ stack[t] # <<>>
          BY <1>1 DEF IInv, ThreadInv, StackInv
        <4>3. Len(Tail(stack[t])) = Len(stack[t]) - 1 /\ Len(stack[t]) \in Nat
          BY ONLY <4>2, HeadTailProperties, LenProperties
        <4> QED BY <1>1, <4>1, <4>3
      <3> QED BY <2>4, <3>3 DEF CallCopy, SourceSet
    <2> QED BY <1>7, <2>1, <2>2, <2>3, <2>4 DEF MainTurn
  <1> QED BY <1>4, <1>5, <1>6, <1>7 DEF Next

\* Removal silences exactly what was removed, for any threads and listeners: no
\* callback starts on the thread that removed its listener, in the pass under way or
\* from a copy queued before; no copy runs after its event; and a connected listener of
\* the framework survives every clear, failed rebuild and sweep.
THEOREM RemovalStaysExact == Spec => RemovalIsExact
  <1>1. IInv /\ [Next]_vars =>
            [\A t \in Threads : Starts(t) =>
                /\ Current(t).id \notin removedBy[t]
                /\ Top(t).drained => sourceAlive]_vars
    <2> SUFFICES ASSUME IInv, Next, NEW t \in Threads, Starts(t)
                 PROVE  /\ Current(t).id \notin removedBy[t]
                        /\ Top(t).drained => sourceAlive
      OBVIOUS
    <2>1. Current(t).id \notin removedBy[t]
      BY DEF IInv, ThreadInv, Quiet, Starts
    <2> QED BY <2>1, StartsDrained
  <1>2. IInv /\ [Next]_vars =>
            [\A e \in Range(entries) : e.framework /\ e.id \in handles' =>
                e \in Range(entries') /\ e.id \in alive']_vars
    <2> SUFFICES ASSUME IInv, [Next]_vars, NEW e \in Range(entries), e.framework, e.id \in handles'
                 PROVE  e \in Range(entries') /\ e.id \in alive'
      OBVIOUS
    <2>1. IInv' /\ KeepsConnected
      BY StepInv
    <2>2. e \in Range(entries')
      BY <2>1 DEF KeepsConnected
    <2> QED BY <2>1, <2>2 DEF IInv, ListInv, Connected
  <1>3. Spec => RemovedStayQuiet
    BY <1>1, SpecInv, PTL DEF RemovedStayQuiet, Spec
  <1>4. Spec => FrameworkSurvives
    BY <1>2, SpecInv, PTL DEF FrameworkSurvives, Spec
  <1> QED BY <1>3, <1>4 DEF RemovalIsExact
=============================================================================
