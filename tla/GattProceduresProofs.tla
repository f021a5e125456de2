------------------------ MODULE GattProceduresProofs ------------------------
(***************************************************************************)
(* Theorems about GattProcedures, for every set of servers, any number of  *)
(* notifications, and centrals with the GATT_CL service and without it.    *)
(*                                                                         *)
(* The state says which step a test is at.  What is known there, which     *)
(* command may be under way and what the local variables hold, depends on  *)
(* the phase of the test, and so the proofs begin with a way through the   *)
(* phases for the program of every test.                                   *)
(*                                                                         *)
(* Four invariants follow, each of which needs those before it.  TInv has  *)
(* the types, and that at most one response is under way; FInv, that what  *)
(* comes back is the result of the command that was sent; PInv, that a     *)
(* discovery finds what it looks for and nothing else; GInv, that nothing  *)
(* is lost on a standing link but for the causes a test may fail for.      *)
(***************************************************************************)
EXTENDS GattProcedures, FiniteSetTheorems, SequenceTheorems, WellFoundedInduction, TLAPS

-----------------------------------------------------------------------------
\* Handles.

\* Every set of natural numbers that is not empty has a least element.
LEMMA LeastNumber ==
    ASSUME NEW S \in SUBSET Nat, S # {}
    PROVE  \E m \in S : \A n \in S : m <= n
<1>1. PICK R : R = OpToRel(<, Nat)
  OBVIOUS
<1>2. IsWellFoundedOn(R, Nat)
  BY <1>1, NatLessThanWellFounded
<1>3. PICK m \in S : \A n \in S : ~(<<n, m>> \in R)
  BY <1>2, WFMin
<1>4. \A n \in Nat : n < m => <<n, m>> \in R
  BY <1>1 DEF OpToRel
<1>5. \A n \in S : n \in Nat /\ m \in Nat /\ ~(n < m)
  BY <1>3, <1>4
<1>6. QED
  BY <1>5

Handle == 1 .. MaxHandle

LEMMA MaxHandleNat == MaxHandle \in Nat
BY DEF MaxHandle

LEMMA HandleIs ==
    \A h \in Handle : h \in Nat /\ 1 <= h /\ h <= MaxHandle /\ h \in 0 .. MaxHandle /\ h # None
BY MaxHandleNat DEF Handle, None

\* The lowest of a set of handles.
LEMMA LowestOf ==
    ASSUME NEW S \in SUBSET Handle
    PROVE  /\ S = {} => Lowest(S) = None
           /\ S # {} => Lowest(S) \in S /\ (\A g \in S : Lowest(S) <= g)
           /\ Lowest(S) \in 0 .. MaxHandle
           /\ Lowest(S) = None => S = {}
<1>1. S = {} => Lowest(S) = None
  BY DEF Lowest
<1>2. ASSUME S # {}
      PROVE  Lowest(S) \in S /\ (\A g \in S : Lowest(S) <= g)
  <2>1. S \in SUBSET Nat
    BY MaxHandleNat DEF Handle
  <2>2. PICK m \in S : \A g \in S : m <= g
    BY <1>2, <2>1, LeastNumber
  <2>3. QED
    BY <1>2, <2>2 DEF Lowest
<1>3. \A h \in S : h \in 0 .. MaxHandle /\ h # None
  BY HandleIs
<1>4. 0 \in 0 .. MaxHandle
  BY MaxHandleNat
<1>5. QED
  BY <1>1, <1>2, <1>3, <1>4 DEF None

LEMMA LowestIs ==
    ASSUME NEW S \in SUBSET Handle, NEW m \in S, \A g \in S : m <= g
    PROVE  Lowest(S) = m
<1>1. Lowest(S) \in S /\ Lowest(S) <= m /\ m <= Lowest(S)
  BY LowestOf
<1>2. Lowest(S) \in Nat /\ m \in Nat
  BY <1>1, HandleIs
<1>3. QED
  BY <1>1, <1>2

\* Where a handle is in the order of its set.
LEMMA RankInOrder ==
    ASSUME NEW S \in SUBSET Handle
    PROVE  /\ Cardinality(S) \in Nat
           /\ \A h \in S : Cardinality({g \in S : g < h}) \in 0 .. Cardinality(S) - 1
           /\ \A h, i \in S : h < i =>
                 Cardinality({g \in S : g < h}) < Cardinality({g \in S : g < i})
<1>1. IsFiniteSet(Handle)
  BY MaxHandleNat, FS_Interval DEF Handle
<1>2. IsFiniteSet(S) /\ Cardinality(S) \in Nat
  BY <1>1, FS_Subset, FS_CardinalityType
<1>3. \A T \in SUBSET S : IsFiniteSet(T) /\ Cardinality(T) \in Nat /\ Cardinality(T) <= Cardinality(S)
                         /\ (Cardinality(S) = Cardinality(T) => S = T)
  BY <1>2, FS_Subset, FS_CardinalityType
<1>4. ASSUME NEW h \in S
      PROVE  Cardinality({g \in S : g < h}) \in 0 .. Cardinality(S) - 1
  <2>1. PICK T : T = {g \in S : g < h}
    OBVIOUS
  <2>2. T \in SUBSET S /\ T # S
    BY <2>1, MaxHandleNat DEF Handle
  <2>3. Cardinality(T) \in Nat /\ Cardinality(T) <= Cardinality(S) /\ Cardinality(S) # Cardinality(T)
    BY <1>3, <2>2
  <2>4. QED
    BY <1>2, <2>1, <2>3
<1>5. ASSUME NEW h \in S, NEW i \in S, h < i
      PROVE  Cardinality({g \in S : g < h}) < Cardinality({g \in S : g < i})
  <2>1. PICK T, U : T = {g \in S : g < h} /\ U = {g \in S : g < i}
    OBVIOUS
  <2>2. \A g \in S : g < h => g < i
    BY <1>5, MaxHandleNat DEF Handle
  <2>3. T \in SUBSET U /\ T # U /\ U \in SUBSET S /\ T \in SUBSET S
    <3>1. h \in U /\ h \notin T
      BY <1>5, <2>1, HandleIs
    <3>2. QED
      BY <2>1, <2>2, <3>1
  <2>4. IsFiniteSet(U) /\ Cardinality(U) \in Nat /\ Cardinality(T) \in Nat
    BY <1>3, <2>3
  <2>5. Cardinality(T) <= Cardinality(U) /\ Cardinality(U) # Cardinality(T)
    BY <2>3, <2>4, FS_Subset
  <2>6. QED
    BY <2>1, <2>4, <2>5
<1>6. QED
  BY <1>2, <1>4, <1>5

\* What a discovery reports: each attribute once, the lowest first.
LEMMA SortedIs ==
    ASSUME NEW S \in SUBSET Handle
    PROVE  /\ Sorted(S) \in Seq(S) /\ Elements(Sorted(S)) = S
           /\ S # {} => Sorted(S) # <<>> /\ Sorted(S)[1] = Lowest(S)
           /\ Sorted(S) = <<>> <=> S = {}
<1>1. PICK n : n = Cardinality(S)
  OBVIOUS
<1>2. PICK rank : rank = [h \in S |-> Cardinality({g \in S : g < h})]
  OBVIOUS
<1>3. /\ n \in Nat /\ \A h \in S : rank[h] \in 0 .. n - 1
      /\ \A h, i \in S : h < i => rank[h] < rank[i]
  BY <1>1, <1>2, RankInOrder
<1>4. \A h, i \in S : rank[h] = rank[i] => h = i
  <2>1. \A h, i \in S : h < i \/ h = i \/ i < h
    BY MaxHandleNat DEF Handle
  <2>2. \A h, i \in S : h < i => rank[h] # rank[i]
    BY <1>3
  <2>3. QED
    BY <2>1, <2>2
<1>5. \A k \in 1 .. n : \E h \in S : rank[h] = k - 1
  <2>1. PICK f : f = [h \in S |-> rank[h] + 1]
    OBVIOUS
  <2>2. f \in [S -> 1 .. n] /\ \A h, i \in S : f[h] = f[i] => h = i
    BY <1>3, <1>4, <2>1
  <2>3. f \in Injection(S, 1 .. n)
    BY <2>2 DEF Injection, IsInjective
  <2>4. IsFiniteSet(1 .. n) /\ Cardinality(1 .. n) = n
    BY <1>3, FS_Interval
  <2>5. f \in Surjection(S, 1 .. n)
    BY <1>1, <2>3, <2>4, FS_Injection
  <2>6. \A k \in 1 .. n : \E h \in S : f[h] = k
    BY <2>5 DEF Surjection
  <2>7. QED
    BY <1>3, <2>1, <2>6
<1>6. PICK s : s = Sorted(S)
  OBVIOUS
<1>7. /\ s = [k \in 1 .. n |-> CHOOSE h \in S : Cardinality({g \in S : g < h}) = k - 1]
      /\ \A k \in 1 .. n : s[k] = CHOOSE h \in S : Cardinality({g \in S : g < h}) = k - 1
  BY <1>1, <1>6 DEF Sorted
<1>8. \A k \in 1 .. n : s[k] \in S /\ rank[s[k]] = k - 1
  <2>1. ASSUME NEW k \in 1 .. n
        PROVE  s[k] \in S /\ Cardinality({g \in S : g < s[k]}) = k - 1
    <3>1. \E h \in S : Cardinality({g \in S : g < h}) = k - 1
      BY <1>2, <1>5
    <3>2. QED
      BY <1>7, <3>1
  <2>2. QED
    BY <1>2, <2>1
<1>9. s \in Seq(S) /\ Len(s) = n /\ DOMAIN s = 1 .. n
  <2>1. s \in [1 .. n -> S]
    <3>1. DOMAIN s = 1 .. n /\ s = [k \in 1 .. n |-> s[k]]
      BY ONLY <1>7
    <3>2. QED
      BY ONLY <1>8, <3>1
  <2>2. QED
    BY ONLY <1>3, <2>1
<1>10. \A h \in S : rank[h] + 1 \in 1 .. n /\ s[rank[h] + 1] = h
  <2>1. \A h \in S : rank[h] + 1 \in 1 .. n /\ (rank[h] + 1) - 1 = rank[h]
    BY <1>3
  <2>2. QED
    BY <1>4, <1>8, <2>1
<1>11. Elements(s) = S
  BY <1>8, <1>9, <1>10 DEF Elements
<1>12. s = <<>> <=> S = {}
  BY <1>9, <1>11 DEF Elements
<1>13. ASSUME S # {}
       PROVE  s # <<>> /\ s[1] = Lowest(S)
  <2>1. 1 \in 1 .. n /\ s[1] \in S /\ rank[s[1]] = 0
    BY <1>8, <1>9, <1>12, <1>13
  <2>2. \A g \in S : ~(g < s[1])
    BY <1>3, <2>1
  <2>3. \A g \in S : s[1] \in Nat /\ g \in Nat /\ s[1] <= g
    BY <2>1, <2>2, HandleIs
  <2>4. QED
    BY <1>12, <1>13, <2>1, <2>3, LowestIs
<1>14. QED
  BY <1>6, <1>9, <1>11, <1>12, <1>13

-----------------------------------------------------------------------------
\* Sequences: what is in them, and how often.

\* The elements of a sequence that grows, shrinks or is joined to another.
LEMMA ElementsEmpty == Elements(<<>>) = {}
BY DEF Elements

LEMMA ElementsAppend ==
    ASSUME NEW S, NEW s \in Seq(S), NEW e \in S
    PROVE  /\ Append(s, e) \in Seq(S) /\ Len(Append(s, e)) = Len(s) + 1 /\ Append(s, e) # <<>>
           /\ Elements(Append(s, e)) = Elements(s) \cup {e}
           /\ Append(s, e)[Len(s) + 1] = e
           /\ \A k \in 1 .. Len(s) : Append(s, e)[k] = s[k]
<1>1. PICK n, t : n = Len(s) /\ t = Append(s, e)
  OBVIOUS
<1>2. /\ t \in Seq(S) /\ n \in Nat /\ Len(t) = n + 1 /\ t[n + 1] = e /\ t # <<>>
      /\ \A k \in 1 .. n : t[k] = s[k]
  BY <1>1, AppendProperties
<1>3. DOMAIN s = 1 .. n /\ DOMAIN t = 1 .. n + 1
  BY <1>1, <1>2, LenProperties
<1>4. \A k \in 1 .. n + 1 : k \in 1 .. n \/ k = n + 1
  BY <1>2
<1>5. \A k \in 1 .. n : k \in 1 .. n + 1
  BY <1>2
<1>6. n + 1 \in 1 .. n + 1
  BY <1>2
<1>7. Elements(t) = Elements(s) \cup {e}
  BY <1>2, <1>3, <1>4, <1>5, <1>6 DEF Elements
<1>8. QED
  BY <1>1, <1>2, <1>7

LEMMA ElementsTail ==
    ASSUME NEW S, NEW s \in Seq(S), s # <<>>
    PROVE  /\ Head(s) \in S /\ Head(s) = s[1] /\ Tail(s) \in Seq(S) /\ Len(Tail(s)) = Len(s) - 1
           /\ Len(s) \in Nat \ {0}
           /\ Elements(s) = Elements(Tail(s)) \cup {Head(s)}
           /\ \A k \in 1 .. Len(s) - 1 : Tail(s)[k] = s[k + 1]
<1>1. PICK n, t : n = Len(s) /\ t = Tail(s)
  OBVIOUS
<1>2. /\ t \in Seq(S) /\ n \in Nat \ {0} /\ Len(t) = n - 1 /\ Head(s) = s[1] /\ s[1] \in S
      /\ \A k \in 1 .. n - 1 : t[k] = s[k + 1]
  BY <1>1, HeadTailProperties, LenProperties, EmptySeq
<1>3. DOMAIN s = 1 .. n /\ DOMAIN t = 1 .. n - 1
  BY <1>1, <1>2, LenProperties
<1>4. \A k \in 1 .. n : k = 1 \/ (k - 1 \in 1 .. n - 1 /\ (k - 1) + 1 = k)
  BY <1>2
<1>5. \A k \in 1 .. n - 1 : k + 1 \in 1 .. n
  BY <1>2
<1>6. 1 \in 1 .. n
  BY <1>2
<1>7. \A k \in 1 .. n : s[k] = s[1] \/ \E j \in 1 .. n - 1 : t[j] = s[k]
  <2> TAKE k \in 1 .. n
  <2>1. CASE k = 1
    BY <2>1
  <2>2. CASE k - 1 \in 1 .. n - 1 /\ (k - 1) + 1 = k
    BY <1>2, <2>2
  <2>3. QED
    BY <1>4, <2>1, <2>2
<1>8. Elements(s) = Elements(t) \cup {s[1]}
  <2>1. \A k \in 1 .. n - 1 : \E j \in 1 .. n : s[j] = t[k]
    BY <1>2, <1>5
  <2>2. Elements(s) = {s[k] : k \in 1 .. n} /\ Elements(t) = {t[k] : k \in 1 .. n - 1}
    BY <1>3 DEF Elements
  <2>3. QED
    BY <1>6, <1>7, <2>1, <2>2
<1>9. QED
  BY <1>1, <1>2, <1>8

LEMMA ElementsConcat ==
    ASSUME NEW S, NEW s \in Seq(S), NEW t \in Seq(S)
    PROVE  /\ s \o t \in Seq(S) /\ Len(s \o t) = Len(s) + Len(t)
           /\ Elements(s \o t) = Elements(s) \cup Elements(t)
           /\ \A k \in 1 .. Len(s) : (s \o t)[k] = s[k] /\ k \in 1 .. Len(s \o t)
           /\ \A k \in 1 .. Len(t) : (s \o t)[Len(s) + k] = t[k] /\ Len(s) + k \in 1 .. Len(s \o t)
           /\ \A k \in 1 .. Len(s \o t) : k \in 1 .. Len(s) \/ \E j \in 1 .. Len(t) : k = Len(s) + j
<1>1. PICK m, n, p : m = Len(s) /\ n = Len(t) /\ p = s \o t
  OBVIOUS
<1>2. /\ p \in Seq(S) /\ m \in Nat /\ n \in Nat /\ Len(p) = m + n
      /\ \A k \in 1 .. m + n : p[k] = IF k <= m THEN s[k] ELSE t[k - m]
  BY <1>1, ConcatProperties, LenProperties
<1>3. DOMAIN s = 1 .. m /\ DOMAIN t = 1 .. n /\ DOMAIN p = 1 .. m + n
  BY <1>1, <1>2, LenProperties
<1>4. \A k \in 1 .. m : k \in 1 .. m + n /\ k <= m
  BY <1>2
<1>5. \A k \in 1 .. n : m + k \in 1 .. m + n /\ ~(m + k <= m) /\ (m + k) - m = k
  BY <1>2
<1>6. \A k \in 1 .. m + n : k \in 1 .. m \/ \E j \in 1 .. n : k = m + j
  <2> TAKE k \in 1 .. m + n
  <2>1. k \in 1 .. m \/ (k - m \in 1 .. n /\ k = m + (k - m))
    BY <1>2
  <2>2. QED
    BY <2>1
<1>7. /\ \A k \in 1 .. m : p[k] = s[k]
      /\ \A k \in 1 .. n : p[m + k] = t[k]
  BY <1>2, <1>4, <1>5
<1>8. Elements(p) = Elements(s) \cup Elements(t)
  BY <1>3, <1>4, <1>5, <1>6, <1>7 DEF Elements
<1>9. QED
  BY <1>1, <1>2, <1>4, <1>5, <1>6, <1>7, <1>8

LEMMA ElementsOne ==
    ASSUME NEW e
    PROVE  Elements(<<e>>) = {e} /\ Len(<<e>>) = 1 /\ <<e>>[1] = e /\ <<e>> # <<>>
BY DEF Elements

LEMMA ElementsTyped ==
    ASSUME NEW S, NEW s \in Seq(S)
    PROVE  /\ Elements(s) \subseteq S /\ Len(s) \in Nat /\ DOMAIN s = 1 .. Len(s)
           /\ \A k \in 1 .. Len(s) : s[k] \in Elements(s)
           /\ \A e \in Elements(s) : \E k \in 1 .. Len(s) : s[k] = e
           /\ s = <<>> <=> Len(s) = 0
           /\ s = <<>> <=> Elements(s) = {}
<1>1. Len(s) \in Nat /\ DOMAIN s = 1 .. Len(s) /\ \A k \in 1 .. Len(s) : s[k] \in S
  BY LenProperties, ElementOfSeq
<1>2. s = <<>> <=> Len(s) = 0
  BY EmptySeq, <1>1
<1>3. Len(s) # 0 => 1 \in 1 .. Len(s)
  BY <1>1
<1>4. Len(s) = 0 => ~ \E k \in 1 .. Len(s) : TRUE
  BY <1>1
<1>5. QED
  BY <1>1, <1>2, <1>3, <1>4 DEF Elements

\* No two elements of a sequence are in X.
Once(X, s) == \A j, k \in 1 .. Len(s) : s[j] \in X /\ s[k] \in X => j = k

LEMMA OnceGrows ==
    ASSUME NEW S, NEW s \in Seq(S), NEW e \in S, NEW X, Once(X, s),
           e \in X => \A f \in Elements(s) : f \notin X
    PROVE  Once(X, Append(s, e))
<1>1. PICK n, t : n = Len(s) /\ t = Append(s, e)
  OBVIOUS
<1>2. /\ n \in Nat /\ Len(t) = n + 1 /\ t[n + 1] = e
      /\ \A k \in 1 .. n : t[k] = s[k] /\ s[k] \in Elements(s)
  BY <1>1, ElementsAppend, ElementsTyped
<1>3. \A k \in 1 .. n + 1 : k \in 1 .. n \/ k = n + 1
  BY <1>2
<1>4. QED
  BY <1>1, <1>2, <1>3 DEF Once

LEMMA OnceShrinks ==
    ASSUME NEW S, NEW s \in Seq(S), s # <<>>, NEW X, Once(X, s)
    PROVE  /\ Once(X, Tail(s))
           /\ Head(s) \in X => \A f \in Elements(Tail(s)) : f \notin X
<1>1. PICK n, t : n = Len(s) /\ t = Tail(s)
  OBVIOUS
<1>2. /\ n \in Nat \ {0} /\ Len(t) = n - 1 /\ Head(s) = s[1] /\ t \in Seq(S)
      /\ \A k \in 1 .. n - 1 : t[k] = s[k + 1]
  BY <1>1, ElementsTail
<1>3. \A k \in 1 .. n - 1 : k + 1 \in 1 .. n /\ k + 1 # 1
  BY <1>2
<1>4. 1 \in 1 .. n /\ \A j, k \in 1 .. n - 1 : j + 1 = k + 1 => j = k
  BY <1>2
<1>5. \A f \in Elements(t) : \E k \in 1 .. n - 1 : t[k] = f
  BY <1>2, ElementsTyped
<1>6. QED
  BY <1>1, <1>2, <1>3, <1>4, <1>5 DEF Once

LEMMA OnceEmpty == \A X : Once(X, <<>>)
BY DEF Once

\* How many elements of a sequence are in X.
CountIn(X, s) == Cardinality({k \in 1 .. Len(s) : s[k] \in X})

LEMMA CountGrows ==
    ASSUME NEW S, NEW s \in Seq(S), NEW e \in S, NEW X
    PROVE  /\ CountIn(X, s) \in Nat
           /\ CountIn(X, Append(s, e)) = CountIn(X, s) + IF e \in X THEN 1 ELSE 0
<1>1. PICK n, t, P, Q : /\ n = Len(s) /\ t = Append(s, e)
                        /\ P = {k \in 1 .. n : s[k] \in X} /\ Q = {k \in 1 .. n + 1 : t[k] \in X}
  OBVIOUS
<1>2. n \in Nat /\ Len(t) = n + 1 /\ t[n + 1] = e /\ \A k \in 1 .. n : t[k] = s[k]
  BY <1>1, ElementsAppend, ElementsTyped
<1>3. IsFiniteSet(P) /\ Cardinality(P) \in Nat
  <2>1. IsFiniteSet(1 .. n)
    BY <1>2, FS_Interval
  <2>2. P \in SUBSET (1 .. n)
    BY <1>1
  <2>3. QED
    BY <2>1, <2>2, FS_Subset, FS_CardinalityType
<1>4. /\ n + 1 \notin 1 .. n /\ n + 1 \in 1 .. n + 1
      /\ \A k \in 1 .. n + 1 : k \in 1 .. n \/ k = n + 1
      /\ \A k \in 1 .. n : k \in 1 .. n + 1
  BY <1>2
<1>c. CountIn(X, s) = Cardinality(P) /\ CountIn(X, t) = Cardinality(Q)
  BY ONLY <1>1, <1>2 DEF CountIn
<1>5. CASE e \in X
  <2>1. Q = P \cup {n + 1} /\ n + 1 \notin P
    BY <1>1, <1>2, <1>4, <1>5
  <2>2. QED
    <3>1. Cardinality(Q) = Cardinality(P) + 1
      BY <1>3, <2>1, FS_AddElement
    <3>2. CountIn(X, t) = CountIn(X, s) + 1 /\ CountIn(X, s) \in Nat
      BY ONLY <1>c, <1>3, <3>1
    <3>3. QED
      BY ONLY <1>1, <1>5, <3>2
<1>6. CASE e \notin X
  <2>1. Q = P
    BY <1>1, <1>2, <1>4, <1>6
  <2>2. QED
    <3>1. CountIn(X, t) = CountIn(X, s) /\ CountIn(X, s) \in Nat
      BY ONLY <1>c, <1>3, <2>1
    <3>2. CountIn(X, t) = CountIn(X, s) + 0
      BY ONLY <3>1
    <3>3. QED
      BY ONLY <1>1, <1>6, <3>1, <3>2
<1>7. QED
  BY <1>5, <1>6

LEMMA CountShrinks ==
    ASSUME NEW S, NEW s \in Seq(S), s # <<>>, NEW X
    PROVE  /\ CountIn(X, s) \in Nat /\ CountIn(X, Tail(s)) \in Nat
           /\ CountIn(X, s) = CountIn(X, Tail(s)) + IF Head(s) \in X THEN 1 ELSE 0
<1>1. PICK n, t, P, Q : /\ n = Len(s) /\ t = Tail(s)
                        /\ P = {k \in 1 .. n : s[k] \in X} /\ Q = {k \in 1 .. n - 1 : t[k] \in X}
  OBVIOUS
<1>2. /\ n \in Nat \ {0} /\ Len(t) = n - 1 /\ Head(s) = s[1]
      /\ \A k \in 1 .. n - 1 : t[k] = s[k + 1]
  BY <1>1, ElementsTail
<1>3. IsFiniteSet(P) /\ Cardinality(P) \in Nat /\ IsFiniteSet(Q) /\ Cardinality(Q) \in Nat
  <2>1. IsFiniteSet(1 .. n) /\ IsFiniteSet(1 .. n - 1)
    BY <1>2, FS_Interval
  <2>2. P \in SUBSET (1 .. n) /\ Q \in SUBSET (1 .. n - 1)
    BY <1>1
  <2>3. QED
    BY <2>1, <2>2, FS_Subset, FS_CardinalityType
<1>4. Cardinality(P \ {1}) = Cardinality(Q)
  <2>1. PICK f : f = [k \in Q |-> k + 1]
    OBVIOUS
  <2>2. \A k \in 1 .. n - 1 : k \in Nat /\ k + 1 \in 1 .. n /\ k + 1 # 1
    BY <1>2
  <2>3. f \in [Q -> P \ {1}]
    BY <1>1, <1>2, <2>1, <2>2
  <2>4. \A j, k \in Q : f[j] = f[k] => j = k
    <3>1. \A j, k \in Q : j \in Nat /\ k \in Nat /\ (j + 1 = k + 1 => j = k)
      BY <1>1, <2>2
    <3>2. QED
      BY <2>1, <3>1
  <2>5. \A p \in P \ {1} : \E k \in Q : f[k] = p
    <3>1. ASSUME NEW p \in P \ {1}
          PROVE  \E k \in Q : f[k] = p
      <4>1. p - 1 \in 1 .. n - 1 /\ (p - 1) + 1 = p
        BY <1>1, <1>2
      <4>2. p - 1 \in Q
        BY <1>1, <1>2, <4>1
      <4>3. QED
        BY <2>1, <4>1, <4>2
    <3>2. QED
      BY <3>1
  <2>6. f \in Bijection(Q, P \ {1})
    BY <2>3, <2>4, <2>5 DEF Bijection, Injection, Surjection, IsInjective
  <2>7. QED
    BY <1>3, <2>6, FS_Bijection DEF ExistsBijection
<1>5. Cardinality(P \ {1}) = IF 1 \in P THEN Cardinality(P) - 1 ELSE Cardinality(P)
  BY <1>3, FS_RemoveElement
<1>6. 1 \in P <=> Head(s) \in X
  BY <1>1, <1>2
<1>c. CountIn(X, s) = Cardinality(P) /\ CountIn(X, t) = Cardinality(Q)
  BY ONLY <1>1, <1>2 DEF CountIn
<1>7. /\ Cardinality(P) = Cardinality(Q) + IF Head(s) \in X THEN 1 ELSE 0
      /\ Cardinality(P) \in Nat /\ Cardinality(Q) \in Nat
  BY ONLY <1>3, <1>4, <1>5, <1>6
<1>8. QED
  BY ONLY <1>1, <1>c, <1>7

LEMMA CountEmpty == \A X : CountIn(X, <<>>) = 0
<1>1. \A X : {k \in 1 .. Len(<<>>) : <<>>[k] \in X} = {}
  OBVIOUS
<1>2. QED
  BY <1>1, FS_EmptySet DEF CountIn

-----------------------------------------------------------------------------
\* The statements of the callbacks.

AnyStatement ==
    [do : {"list", "append", "count", "add", "clear", "value", "write_status", "notification"},
     of : Lists \cup Statuses \cup {""}, n : Nat]

\* What a callback does to one list, for the attributes it was told of.
ListStatements(list, found) ==
    {Statement("list", list, 0), Statement("append", list, 0)}
    \cup {Statement("count", list, n) : n \in Nat}
    \cup {Statement("add", list, h) : h \in Elements(found)}

\* The first attribute it was told of is the first it adds.
FirstBefore(first, statements) ==
    \A k \in 1 .. Len(statements) : statements[k].do = "add" =>
        \E j \in 1 .. k : statements[j].do = "add" /\ statements[j].n = first

Part(list, found, statements) ==
    /\ statements \in Seq(AnyStatement)
    /\ Elements(statements) \subseteq ListStatements(list, found)
    /\ FirstBefore(found[1], statements)

LEMMA FirstBeforeConcat ==
    ASSUME NEW S, NEW s \in Seq(S), NEW t \in Seq(S), NEW h, FirstBefore(h, s), FirstBefore(h, t)
    PROVE  FirstBefore(h, s \o t)
<1>1. PICK m, n, p : m = Len(s) /\ n = Len(t) /\ p = s \o t
  OBVIOUS
<1>2. /\ m \in Nat /\ n \in Nat /\ Len(p) = m + n
      /\ \A k \in 1 .. m : p[k] = s[k]
      /\ \A k \in 1 .. n : p[m + k] = t[k]
      /\ \A k \in 1 .. m + n : k \in 1 .. m \/ \E j \in 1 .. n : k = m + j
  BY <1>1, ElementsConcat, ElementsTyped
<1>3. ASSUME NEW k \in 1 .. m, p[k].do = "add"
      PROVE  \E j \in 1 .. k : p[j].do = "add" /\ p[j].n = h
  <2>1. PICK j \in 1 .. k : s[j].do = "add" /\ s[j].n = h
    BY <1>1, <1>2, <1>3 DEF FirstBefore
  <2>2. j \in 1 .. m
    BY <1>2
  <2>3. QED
    BY <1>2, <2>1, <2>2
<1>4. ASSUME NEW k \in 1 .. n, p[m + k].do = "add"
      PROVE  \E j \in 1 .. m + k : p[j].do = "add" /\ p[j].n = h
  <2>1. PICK j \in 1 .. k : t[j].do = "add" /\ t[j].n = h
    BY <1>1, <1>2, <1>4 DEF FirstBefore
  <2>2. j \in 1 .. n /\ m + j \in 1 .. m + k
    BY <1>2
  <2>3. p[m + j] = t[j]
    BY <1>2, <2>2
  <2>4. QED
    BY <2>1, <2>2, <2>3
<1>5. ASSUME NEW k \in 1 .. m + n, p[k].do = "add"
      PROVE  \E j \in 1 .. k : p[j].do = "add" /\ p[j].n = h
  <2>1. CASE k \in 1 .. m
    BY <1>3, <1>5, <2>1
  <2>2. CASE \E j \in 1 .. n : k = m + j
    <3>1. PICK j \in 1 .. n : k = m + j
      BY <2>2
    <3>2. p[m + j].do = "add"
      BY <1>5, <3>1
    <3>3. \E i \in 1 .. m + j : p[i].do = "add" /\ p[i].n = h
      BY <1>4, <3>2
    <3>4. QED
      BY <3>1, <3>3
  <2>3. QED
    BY <1>2, <2>1, <2>2
<1>6. QED
  BY <1>1, <1>2, <1>5 DEF FirstBefore

LEMMA PartConcat ==
    \A l, found, s, t : Part(l, found, s) /\ Part(l, found, t) => Part(l, found, s \o t)
BY FirstBeforeConcat, ElementsConcat DEF Part

LEMMA ListStatementsTyped ==
    ASSUME NEW list \in Lists, NEW found \in Seq(Handle)
    PROVE  ListStatements(list, found) \subseteq AnyStatement
<1>2. Elements(found) \subseteq Nat
  BY ElementsTyped, HandleIs
<1>3. /\ Statement("list", list, 0) \in AnyStatement /\ Statement("append", list, 0) \in AnyStatement
      /\ \A n \in Nat : Statement("count", list, n) \in AnyStatement
      /\ \A h \in Elements(found) : Statement("add", list, h) \in AnyStatement
  BY <1>2 DEF Statement, AnyStatement
<1>4. QED
  BY <1>3 DEF ListStatements

LEMMA PublishPart ==
    ASSUME NEW list \in Lists, NEW found \in Seq(Handle)
    PROVE  Part(list, found, Publish(list, found))
<1>1. PICK a, b, p : a = Statement("list", list, 0) /\ b = Statement("count", list, Len(found))
                     /\ p = Publish(list, found)
  OBVIOUS
<1>2. Len(found) \in Nat
  BY ElementsTyped
<1>3. a \in ListStatements(list, found) /\ b \in ListStatements(list, found)
  BY <1>1, <1>2 DEF ListStatements
<1>4. a.do # "add" /\ b.do # "add"
  BY <1>1 DEF Statement
<1>5. p = <<a, b>>
  BY <1>1 DEF Publish
<1>6. p \in Seq(AnyStatement) /\ Len(p) = 2 /\ p[1] = a /\ p[2] = b /\ DOMAIN p = 1 .. 2
  BY <1>3, <1>5, ListStatementsTyped
<1>7. Elements(p) \subseteq {a, b}
  BY <1>6 DEF Elements
<1>8. \A k \in 1 .. 2 : p[k].do # "add"
  BY <1>4, <1>6
<1>9. FirstBefore(found[1], p)
  BY <1>6, <1>8 DEF FirstBefore
<1>10. QED
  BY <1>1, <1>3, <1>6, <1>7, <1>9 DEF Part

LEMMA AppendAndAddPart ==
    ASSUME NEW list \in Lists, NEW found \in Seq(Handle)
    PROVE  /\ Part(list, found, AppendAndAdd(list, found))
           /\ \A h \in Elements(found) : Statement("add", list, h) \in Elements(AppendAndAdd(list, found))
<1>1. PICK n, p, a : n = Len(found) /\ p = AppendAndAdd(list, found) /\ a = Statement("append", list, 0)
  OBVIOUS
<1>2. n \in Nat /\ \A k \in 1 .. n : found[k] \in Elements(found)
  BY <1>1, ElementsTyped
<1>3. p = [k \in 1 .. 2 * n |-> IF k % 2 = 1 THEN a ELSE Statement("add", list, found[k \div 2])]
  BY <1>1 DEF AppendAndAdd
<1>4. \A k \in 1 .. 2 * n : k % 2 = 1 \/ k \div 2 \in 1 .. n
  BY <1>2
<1>5. \A k \in 1 .. 2 * n :
          p[k] = a \/ (k \div 2 \in 1 .. n /\ p[k] = Statement("add", list, found[k \div 2]))
  BY <1>3, <1>4
<1>6. a \in ListStatements(list, found) /\ a.do # "add"
  BY <1>1 DEF ListStatements, Statement
<1>7. \A h \in Elements(found) : Statement("add", list, h) \in ListStatements(list, found)
  BY DEF ListStatements
<1>8. \A k \in 1 .. 2 * n : p[k] \in ListStatements(list, found)
  BY <1>2, <1>5, <1>6, <1>7
<1>9. p \in Seq(AnyStatement) /\ Len(p) = 2 * n /\ DOMAIN p = 1 .. 2 * n
  <2>1. p = [k \in 1 .. 2 * n |-> p[k]]
    BY ONLY <1>3
  <2>2. \A k \in 1 .. 2 * n : p[k] \in AnyStatement
    BY <1>8, ListStatementsTyped
  <2>3. 2 * n \in Nat
    BY <1>2
  <2>4. p \in [1 .. 2 * n -> AnyStatement]
    BY ONLY <2>1, <2>2
  <2>5. QED
    BY ONLY <2>3, <2>4
<1>10. Elements(p) \subseteq ListStatements(list, found)
  BY <1>8, <1>9 DEF Elements
<1>11. \A k \in 1 .. n : 2 * k \in 1 .. 2 * n /\ (2 * k) % 2 # 1 /\ (2 * k) \div 2 = k
  BY <1>2
<1>12. \A k \in 1 .. n : p[2 * k] = Statement("add", list, found[k])
  BY <1>3, <1>11
<1>13. \A h \in Elements(found) : \E k \in 1 .. n : found[k] = h
  BY <1>1, ElementsTyped
<1>14. \A h \in Elements(found) : Statement("add", list, h) \in Elements(p)
  <2>1. \A k \in 1 .. n : Statement("add", list, found[k]) \in Elements(p)
    <3>1. \A k \in 1 .. n : p[2 * k] \in Elements(p)
      BY <1>9, <1>11 DEF Elements
    <3>2. QED
      BY <1>12, <3>1
  <2>2. QED
    BY <1>13, <2>1
<1>15. FirstBefore(found[1], p)
  <2>1. ASSUME NEW k \in 1 .. 2 * n, p[k].do = "add"
        PROVE  \E j \in 1 .. k : p[j].do = "add" /\ p[j].n = found[1]
    <3>1. k % 2 # 1
      BY <1>3, <1>6, <2>1
    <3>2. 2 \in 1 .. k /\ 1 \in 1 .. n
      BY <1>2, <3>1
    <3>3. p[2] = Statement("add", list, found[1])
      <4>1. p[2 * 1] = Statement("add", list, found[1])
        BY <1>12, <3>2
      <4>2. QED
        BY <4>1
    <3>4. p[2].do = "add" /\ p[2].n = found[1]
      BY <3>3 DEF Statement
    <3>5. QED
      BY <3>2, <3>4
  <2>2. QED
    BY <1>9, <2>1 DEF FirstBefore
<1>16. QED
  BY <1>1, <1>9, <1>10, <1>14, <1>15 DEF Part

LEMMA AppendThenAddPart ==
    ASSUME NEW list \in Lists, NEW found \in Seq(Handle)
    PROVE  /\ Part(list, found, AppendThenAdd(list, found))
           /\ \A h \in Elements(found) : Statement("add", list, h) \in Elements(AppendThenAdd(list, found))
<1>1. PICK n, p, a : n = Len(found) /\ p = AppendThenAdd(list, found) /\ a = Statement("append", list, 0)
  OBVIOUS
<1>2. n \in Nat /\ \A k \in 1 .. n : found[k] \in Elements(found)
  BY <1>1, ElementsTyped
<1>3. p = [k \in 1 .. 2 * n |-> IF k <= n THEN a ELSE Statement("add", list, found[k - n])]
  BY <1>1 DEF AppendThenAdd
<1>4. \A k \in 1 .. 2 * n : k <= n \/ k - n \in 1 .. n
  BY <1>2
<1>5. \A k \in 1 .. 2 * n :
          p[k] = a \/ (k - n \in 1 .. n /\ p[k] = Statement("add", list, found[k - n]))
  BY <1>3, <1>4
<1>6. a \in ListStatements(list, found) /\ a.do # "add"
  BY <1>1 DEF ListStatements, Statement
<1>7. \A h \in Elements(found) : Statement("add", list, h) \in ListStatements(list, found)
  BY DEF ListStatements
<1>8. \A k \in 1 .. 2 * n : p[k] \in ListStatements(list, found)
  BY <1>2, <1>5, <1>6, <1>7
<1>9. p \in Seq(AnyStatement) /\ Len(p) = 2 * n /\ DOMAIN p = 1 .. 2 * n
  <2>1. p = [k \in 1 .. 2 * n |-> p[k]]
    BY ONLY <1>3
  <2>2. \A k \in 1 .. 2 * n : p[k] \in AnyStatement
    BY <1>8, ListStatementsTyped
  <2>3. 2 * n \in Nat
    BY <1>2
  <2>4. p \in [1 .. 2 * n -> AnyStatement]
    BY ONLY <2>1, <2>2
  <2>5. QED
    BY ONLY <2>3, <2>4
<1>10. Elements(p) \subseteq ListStatements(list, found)
  BY <1>8, <1>9 DEF Elements
<1>11. \A k \in 1 .. n : n + k \in 1 .. 2 * n /\ ~(n + k <= n) /\ (n + k) - n = k
  BY <1>2
<1>12. \A k \in 1 .. n : p[n + k] = Statement("add", list, found[k])
  BY <1>3, <1>11
<1>13. \A h \in Elements(found) : \E k \in 1 .. n : found[k] = h
  BY <1>1, ElementsTyped
<1>14. \A h \in Elements(found) : Statement("add", list, h) \in Elements(p)
  BY <1>9, <1>11, <1>12, <1>13 DEF Elements
<1>15. FirstBefore(found[1], p)
  <2>1. ASSUME NEW k \in 1 .. 2 * n, p[k].do = "add"
        PROVE  \E j \in 1 .. k : p[j].do = "add" /\ p[j].n = found[1]
    <3>1. ~(k <= n)
      BY <1>3, <1>6, <2>1
    <3>2. n + 1 \in 1 .. k /\ 1 \in 1 .. n
      BY <1>2, <3>1
    <3>3. p[n + 1] = Statement("add", list, found[1])
      BY <1>12, <3>2
    <3>4. p[n + 1].do = "add" /\ p[n + 1].n = found[1]
      BY <3>3 DEF Statement
    <3>5. QED
      BY <3>2, <3>4
  <2>2. QED
    BY <1>9, <2>1 DEF FirstBefore
<1>16. QED
  BY <1>1, <1>9, <1>10, <1>14, <1>15 DEF Part

LEMMA EmptyPart == \A l, found : Part(l, found, <<>>)
BY DEF Part, FirstBefore, Elements

\* The tests by what they discover.
Whole == {"GAD_1", "GAD_3"}
Inside == {"GAD_4", "GAD_6", "GAR_3", "GAR_4", "GAW_3", "GAW_4"}
Straight == {"GAD_5", "GAR_1", "GAR_2", "GAW_1", "GAW_2", "GAN_1", "GAI_1"}
Deep == {"GAD_6", "GAR_3", "GAR_4", "GAW_3", "GAW_4", "GAN_1", "GAI_1"}
Writes == {"GAW_1", "GAW_2", "GAW_3", "GAW_4"}

ChrUuid(t) ==
    IF t \in {"GAR_2", "GAW_2"} THEN "LONG_CHR_READ_WRITE"
    ELSE IF t \in Subscribes THEN "CHR_NOTIFY" ELSE "CHR_READ_WRITE"
DscUuid(t) ==
    IF t \in {"GAR_4", "GAW_4"} THEN "LONG_DSC_READ_WRITE"
    ELSE IF t \in Subscribes THEN "CCC" ELSE "DSC_READ_WRITE"

\* The access to what was discovered.
AccessOp(t) ==
    CASE t \in {"GAR_1", "GAR_3"} -> "read"
      [] t \in {"GAR_2", "GAR_4"} -> "read_long"
      [] t \in {"GAW_1", "GAW_3"} -> "write"
      [] t \in {"GAW_2", "GAW_4"} -> "write_long"
      [] t = "GAN_1" -> "cfg_notify"
      [] OTHER -> "cfg_indicate"
AccessArg(t) == IF t \in {"GAR_1", "GAR_2", "GAW_1", "GAW_2"} THEN "value" ELSE "dsc"

\* The phases of a test.
SvcPhase == {"svc_sent", "svc_wait", "svc_in", "svc"}
IncPhase == {"inc_next", "inc_sent", "inc_wait", "inc_in", "inc"}
ChrPhase == {"chr_reset", "chr_sent", "chr_wait", "chr_in", "chr", "end"}
DscPhase == {"dsc_reset", "dsc_sent", "dsc_wait", "dsc_in", "dsc"}
ReadPhase == {"read_sent", "read_wait", "read_in", "read_got"}
WritePhase == {"write_sent", "write_answered", "write_wait", "write_late", "write_in",
               "write_got", "write_sure"}
CfgPhase == {"cfg_sent", "cfg_wait", "cfg_late", "cfg_in", "cfg_got", "cfg_note", "cfg_noted",
             "cfg_future", "cfg_verify"}
Phase == {"start"} \cup SvcPhase \cup IncPhase \cup ChrPhase \cup DscPhase \cup ReadPhase
         \cup WritePhase \cup {"cfg_listen"} \cup CfgPhase \cup {"done", "over"}

PhasesOf(t, c) ==
    {"start", "over"}
    \cup (IF t \in Inside \cup {"GAD_1", "GAD_2"} THEN {"svc_sent", "svc_in", "svc"} ELSE {})
    \cup (IF t = "GAD_3" THEN {"svc_sent", "svc_in", "inc_sent", "inc_in", "inc"} ELSE {})
    \cup (IF t \in Inside \cup Straight THEN {"chr_sent", "chr_in", "chr"} ELSE {})
    \cup (IF t \in Deep THEN {"end", "dsc_sent", "dsc_in", "dsc"} ELSE {})
    \cup (IF t \in Reads THEN {"read_sent", "read_got", "done"} ELSE {})
    \cup (IF t \in Writes THEN {"write_sent", "write_got", "done"} ELSE {})
    \cup (IF t \in Writes \ {"GAW_3"} THEN {"write_sure"} ELSE {})
    \cup (IF t \in Subscribes THEN {"cfg_sent", "cfg_got", "cfg_verify", "done"} ELSE {})
    \cup (IF c
          THEN (IF t \in Whole \cup Inside \cup {"GAD_2"} THEN {"svc_wait"} ELSE {})
               \cup (IF t = "GAD_3" THEN {"inc_wait"} ELSE {})
               \cup (IF t \in Inside \cup Straight THEN {"chr_reset", "chr_wait"} ELSE {})
               \cup (IF t \in Deep THEN {"dsc_reset", "dsc_wait"} ELSE {})
               \cup (IF t \in Reads THEN {"read_wait", "read_in"} ELSE {})
               \cup (IF t \in Writes THEN {"write_answered", "write_wait", "write_in"} ELSE {})
               \cup (IF t \in Subscribes THEN {"cfg_wait", "cfg_in", "cfg_note", "cfg_noted"} ELSE {})
          ELSE (IF t = "GAD_3" THEN {"inc_next"} ELSE {})
               \cup (IF t \in Writes THEN {"write_late"} ELSE {})
               \cup (IF t \in Subscribes THEN {"cfg_listen", "cfg_late", "cfg_future"} ELSE {}))

Sent == {"svc_sent", "inc_sent", "chr_sent", "dsc_sent", "read_sent", "write_sent",
         "write_late", "cfg_sent"}

SendMoves(t, c, op, arg, from, to) ==
    \/ to = "svc_sent" /\ from = "start" /\ t \in Whole /\ op = "disc_prim_svcs" /\ arg = "any"
    \/ to = "svc_sent" /\ from = "start" /\ t \in Inside \cup {"GAD_2"}
       /\ op = "disc_prim_uuid" /\ arg = "SVC"
    \/ to = "inc_sent" /\ t = "GAD_3" /\ op = "find_included"
       /\ from = (IF c THEN "svc_in" ELSE "inc_next") /\ arg = (IF c THEN "any" ELSE "service")
    \/ to = "chr_sent" /\ t \in Inside /\ op = "disc_all_chrc" /\ arg = "any"
       /\ from = (IF c THEN "chr_reset" ELSE "svc")
    \/ to = "chr_sent" /\ t \in Straight /\ op = "disc_chrc_uuid" /\ arg = ChrUuid(t)
       /\ from = (IF c THEN "chr_reset" ELSE "start")
    \/ to = "dsc_sent" /\ t \in Deep /\ op = "disc_all_desc" /\ arg = "any"
       /\ from = (IF c THEN "dsc_reset" ELSE "end")
    \/ to = "read_sent" /\ t \in Reads /\ op = AccessOp(t) /\ arg = AccessArg(t)
       /\ from = (IF arg = "value" THEN "chr" ELSE "dsc")
    \/ to = "write_sent" /\ t \in Writes /\ op = AccessOp(t) /\ arg = AccessArg(t)
       /\ from = (IF arg = "value" THEN "chr" ELSE "dsc")
    \/ to = "cfg_sent" /\ t \in Subscribes /\ op = AccessOp(t) /\ arg = AccessArg(t)
       /\ from = (IF c THEN "dsc" ELSE "cfg_listen")

RspMoves(t, c, op, from, to) ==
    \/ c /\ op = "status"
       /\ \/ from = "svc_sent" /\ to = "svc_wait"
          \/ from = "inc_sent" /\ to = "inc_wait"
          \/ from = "chr_sent" /\ to = "chr_wait"
          \/ from = "dsc_sent" /\ to = "dsc_wait"
          \/ from = "read_sent" /\ to = "read_wait"
          \/ from = "write_sent" /\ to = "write_answered"
          \/ from = "cfg_sent" /\ to = "cfg_wait"
    \/ ~c /\ op = "new_db"
       /\ \/ from = "svc_sent" /\ to = "svc_in"
          \/ from = "chr_sent" /\ to = "chr_in"
          \/ from = "dsc_sent" /\ to = "dsc_in"
    \/ ~c /\ op = "add_to_db" /\ from = "inc_sent" /\ to = "inc_in"
    \/ ~c /\ op = "value"
       /\ \/ from = "read_sent" /\ to = "read_got"
          \/ from = "write_late" /\ to = "write_got"
          \/ from = "cfg_late" /\ to = "cfg_got"
    \/ ~c /\ op = "status" /\ from = "cfg_sent" /\ to = "cfg_late"

WaitMoves(c, what, from, to) ==
    c /\ \/ what = "prim_svcs" /\ from = "svc_wait" /\ to = "svc_in"
         \/ what = "incl_svcs" /\ from = "inc_wait" /\ to = "inc_in"
         \/ what = "chrcs" /\ from = "chr_wait" /\ to = "chr_in"
         \/ what = "dscs" /\ from = "dsc_wait" /\ to = "dsc_in"
         \/ what = "read" /\ from = "read_wait" /\ to = "read_in"
         \/ what = "write_rsp" /\ from = "write_wait" /\ to = "write_in"
         \/ what = "write_rsp" /\ from = "cfg_wait" /\ to = "cfg_in"
         \/ what = "notifications" /\ from = "cfg_note" /\ to = "cfg_noted"

FindMoves(t, kind, uuid, from, to) ==
    \/ kind = "svc" /\ uuid = "SVC" /\ from = "svc_in" /\ to = "svc"
       /\ t \in Inside \cup {"GAD_1", "GAD_2"}
    \/ kind = "inc" /\ uuid = "INC_SVC" /\ from = "inc_in" /\ to = "inc" /\ t = "GAD_3"
    \/ kind = "chr" /\ uuid = ChrUuid(t) /\ from = "chr_in" /\ to = "chr"
       /\ t \in Inside \cup Straight
    \/ kind = "dsc" /\ uuid = DscUuid(t) /\ from = "dsc_in" /\ to = "dsc" /\ t \in Deep

ResetMoves(t, c, list, from, to) ==
    c /\ \/ list = "chrcs" /\ to = "chr_reset" /\ from = "svc" /\ t \in Inside
         \/ list = "chrcs" /\ to = "chr_reset" /\ from = "start" /\ t \in Straight
         \/ list = "dscs" /\ to = "dsc_reset" /\ from = "end" /\ t \in Deep

AssertMoves(t, c, what, from, to) ==
    \/ what = "rsp" /\ from = "read_got" /\ to = "done"
    \/ what = "rsp" /\ from = "write_got" /\ to = "write_sure" /\ t # "GAW_3"
    \/ what = "rsp" /\ from = "cfg_got" /\ to = (IF c THEN "cfg_note" ELSE "cfg_future")
    \/ what = "handle" /\ from = "cfg_verify" /\ to = "done"

\* The phase in which a test disconnects.
LastPhase(t) ==
    IF t \in {"GAD_1", "GAD_2"} THEN "svc" ELSE IF t = "GAD_3" THEN "inc"
    ELSE IF t \in {"GAD_4", "GAD_5"} THEN "chr" ELSE IF t = "GAD_6" THEN "dsc" ELSE "done"

Moves(t, c, from, s, to) ==
    \/ s.do = "send" /\ SendMoves(t, c, s.op, s.arg, from, to)
    \/ s.do = "rsp" /\ RspMoves(t, c, s.op, from, to)
    \/ s.do = "wait" /\ WaitMoves(c, s.op, from, to)
    \/ s.do = "find" /\ FindMoves(t, s.op, s.arg, from, to)
    \/ s.do = "reset" /\ ResetMoves(t, c, s.op, from, to)
    \/ s.do = "assert" /\ AssertMoves(t, c, s.op, from, to)
    \/ s.do = "services" /\ ~c /\ t = "GAD_3" /\ from = "svc_in" /\ to = "inc_next"
    \/ s.do = "end" /\ from = "chr" /\ to = "end" /\ t \in Deep
    \/ s.do = "value" /\ c /\ from = "read_in" /\ to = "read_got"
    \/ s.do = "value" /\ c /\ from = "write_in" /\ to = "write_got"
    \/ s.do = "value" /\ c /\ from = "cfg_in" /\ to = "cfg_got"
    \/ s.do = "listen" /\ from = "write_answered" /\ to = "write_wait" /\ c
    \/ s.do = "listen" /\ from = "write_sent" /\ to = "write_late" /\ ~c
    \/ s.do = "listen" /\ from = "dsc" /\ to = "cfg_listen" /\ ~c /\ t \in Subscribes
    \/ s.do = "notification" /\ c /\ from = "cfg_noted" /\ to = "cfg_verify"
    \/ s.do = "future" /\ from = "write_sure" /\ to = "done"
    \/ s.do = "future" /\ from = "write_got" /\ to = "done" /\ t = "GAW_3"
    \/ s.do = "future" /\ ~c /\ from = "cfg_future" /\ to = "cfg_verify"
    \/ s.do = "disconnect" /\ from = LastPhase(t) /\ to = "over"

-----------------------------------------------------------------------------
\* A way through the phases of a test, and where on it the test is.
AllStep ==
    [do : {"send", "rsp", "wait", "find", "reset", "assert", "services", "end", "value", "listen",
           "notification", "future", "disconnect"},
     op : Command \cup Lists \cup {"status", "new_db", "add_to_db", "value", "read", "write_rsp",
                                   "notifications", "rsp", "handle", ""} \cup Kind,
     arg : {"any", "service", "SVC", "INC_SVC", "CHR_READ_WRITE", "LONG_CHR_READ_WRITE", "CHR_NOTIFY",
            "DSC_READ_WRITE", "LONG_DSC_READ_WRITE", "CCC", "value", "dsc", "no_error", ""}]

Passage(t, c, p, from, to) ==
    \E f \in [0 .. Len(p) -> PhasesOf(t, c)] :
        /\ f[0] = from /\ f[Len(p)] = to
        /\ \A k \in 1 .. Len(p) : Moves(t, c, f[k - 1], p[k], f[k])

Route(p, t, c) ==
    CHOOSE f \in [0 .. Len(p) -> PhasesOf(t, c)] :
        /\ f[0] = "start" /\ f[Len(p)] = "over"
        /\ \A k \in 1 .. Len(p) : Moves(t, c, f[k - 1], p[k], f[k])

phase == Route(Program(test), test, cl)[pc - 1]

-----------------------------------------------------------------------------
Discovery == {"disc_prim_svcs", "disc_prim_uuid", "find_included", "disc_all_chrc",
              "disc_chrc_uuid", "disc_all_desc"}
Access == {"read", "read_long", "write", "write_long", "cfg_notify", "cfg_indicate"}

Uuid == {"any", "SVC", "CHR_READ_WRITE", "LONG_CHR_READ_WRITE", "CHR_NOTIFY"}

Requests ==
    {r \in [op : Command, lo : Nat, hi : Nat, uuid : Uuid] :
        r.op \in Access => r.lo \in Handle}

\* The command of a phase.
CommandOf(ph, l, td) ==
    LET Req(op, lo, hi, uuid) == [op |-> op, lo |-> lo, hi |-> hi, uuid |-> uuid]
    IN  IF ph \in SvcPhase
        THEN IF test \in Whole THEN Req("disc_prim_svcs", 1, MaxHandle, "any")
                               ELSE Req("disc_prim_uuid", 1, MaxHandle, "SVC")
        ELSE IF ph \in IncPhase
        THEN IF cl THEN Req("find_included", 1, MaxHandle, "any")
                   ELSE Req("find_included", Head(td), server[Head(td)].last, "any")
        ELSE IF ph \in ChrPhase
        THEN IF test \in Inside THEN Req("disc_all_chrc", l.start, l.stop, "any")
                                ELSE Req("disc_chrc_uuid", 1, MaxHandle, ChrUuid(test))
        ELSE IF ph \in DscPhase
        THEN Req("disc_all_desc", l.value + 1, l.end, "any")
        ELSE Req(AccessOp(test), l[AccessArg(test)], l[AccessArg(test)], "any")

wanted == CommandOf(phase, loc, todo)

LocRecord ==
    [start : 0 .. MaxHandle, stop : 0 .. MaxHandle, chr : 0 .. MaxHandle, value : 0 .. MaxHandle,
     dsc : 0 .. MaxHandle, end : 0 .. MaxHandle, handle : 0 .. MaxHandle,
     rsp : Statuses \cup {"none"}]

\* The frames the central sends and the statements of its callbacks.
FrameOK(f) ==
    /\ f \in Frame
    /\ f.op \in Discovery => f.found \in Seq(DOMAIN server)
    /\ f.op = "notification" => f.type = "ev"

StatementOK(s) ==
    /\ s.do \in {"list", "append", "count"} => s.of \in Lists
    /\ s.do = "add" => s.n \in DOMAIN server
    /\ s.do = "value" => s.of \in Statuses
    /\ s.do = "notification" => s.n \in Handle

Responses == {f \in Frame : f.type = "rsp"}
Reports == {f \in Frame : f.type = "ev" /\ f.op # "notification"}
Notifications == {f \in Frame : f.op = "notification"}

Under(frames) == \E f \in Elements(stream) : f \in frames


Typed ==
    /\ test \in Test /\ cl \in BOOLEAN /\ server \in Server /\ att \in Att
    /\ air \in {"linked", "lost", "crashed"}
    /\ pc \in 1 .. Len(Program(test)) + 1
    /\ outcome \in {"running", "passed", "assertion", "raised"}
    /\ loc \in LocRecord
    /\ todo \in Seq(DOMAIN server)
    /\ DOMAIN db \subseteq DOMAIN server /\ db = [h \in DOMAIN db |-> server[h]]
    /\ lists \in [Lists -> Nat] /\ counts \in [Lists -> Nat \cup {NoCount}]
    /\ values \in Seq(Statuses) /\ written \in BOOLEAN /\ notes \in Seq(Handle)
    /\ future \in {"none", "waiting", "done"}
    /\ dead \in BOOLEAN /\ changed \in BOOLEAN /\ missed \in BOOLEAN /\ torn \in BOOLEAN
    /\ notified \in 0 .. MaxNotes /\ subscribed \in 0 .. MaxHandle
    /\ request \in Requests \cup {NoRequest} /\ busy \in Requests \cup {NoRequest}

Channels ==
    /\ stream \in Seq(Frame) /\ \A f \in Elements(stream) : FrameOK(f)
    /\ rspq \in Seq(Frame) /\ Len(rspq) <= 1 /\ \A f \in Elements(rspq) : FrameOK(f)
    /\ callback \in Seq(AnyStatement)
    /\ \A s \in Elements(callback) :
          StatementOK(s) /\ (s.do = "notification" => Len(callback) = 1)

\* At most one response is under way, that of the command the test has sent.
OneResponse ==
    /\ request # NoRequest =>
          phase \in Sent /\ request = wanted /\ rspq = <<>> /\ ~Under(Responses)
    /\ Under(Responses) =>
          /\ phase \in Sent /\ request = NoRequest /\ rspq = <<>>
          /\ \A f \in Elements(stream) : f \in Responses => f.op = wanted.op
    /\ Once(Responses, stream)
    /\ rspq # <<>> =>
          /\ phase \in Sent /\ request = NoRequest /\ ~Under(Responses)
          /\ Head(rspq) \in Responses /\ Head(rspq).op = wanted.op

Progress ==
    /\ outcome = "running" => phase # "over"
    /\ outcome = "passed" => phase = "over" /\ air = "linked"
    /\ todo # <<>> <=> ~cl /\ phase \in {"inc_next", "inc_sent"}

\* What the local variables hold.
HasSvc(ph) ==
    test \in Inside \cup {"GAD_1", "GAD_2"} /\ ph \notin {"start", "svc_sent", "svc_wait", "svc_in"}
HasChr(ph) ==
    /\ test \in Inside \cup Straight
    /\ ph \notin {"start", "chr_reset", "chr_sent", "chr_wait", "chr_in"} \cup SvcPhase
HasDsc(ph) ==
    /\ test \in Deep
    /\ ph \notin {"start", "dsc_reset", "dsc_sent", "dsc_wait", "dsc_in"} \cup SvcPhase \cup ChrPhase

Locals ==
    /\ HasSvc(phase) =>
          /\ loc.start \in OfKind(server, "svc") /\ server[loc.start].uuid = "SVC"
          /\ loc.stop = server[loc.start].last
    /\ HasChr(phase) =>
          /\ loc.chr \in OfKind(server, "chr") /\ server[loc.chr].uuid = ChrUuid(test)
          /\ loc.value = server[loc.chr].last
    /\ IF HasDsc(phase)
       THEN loc.dsc \in OfKind(server, "dsc") /\ server[loc.dsc].uuid = DscUuid(test)
       ELSE loc.dsc = None

\* How many notifications have come, are coming and have been sent.
Noted ==
    Len(notes) + IF \E s \in Elements(callback) : s.do = "notification" THEN 1 ELSE 0
NoteBound == Noted + CountIn(Notifications, stream) <= notified

TInv == Typed /\ Channels /\ OneResponse /\ Progress /\ Locals /\ NoteBound

\* The list a discovery fills.
ListFor(op) ==
    CASE op \in {"disc_prim_svcs", "disc_prim_uuid"} -> "prim_svcs"
      [] op = "find_included" -> "incl_svcs"
      [] op \in {"disc_all_chrc", "disc_chrc_uuid"} -> "chrcs"
      [] op = "disc_all_desc" -> "dscs"

Delivers(list, found, statements) ==
    /\ Part(list, found, statements)
    /\ \A h \in Elements(found) : Statement("add", list, h) \in Elements(statements)

LEMMA Published ==
    ASSUME NEW list \in Lists, NEW found \in Seq(Handle), NEW rest, Delivers(list, found, rest)
    PROVE  Delivers(list, found, Publish(list, found) \o rest)
<1>1. Part(list, found, Publish(list, found))
  BY PublishPart
<1>2. Part(list, found, Publish(list, found) \o rest)
  BY <1>1, PartConcat DEF Delivers
<1>3. Elements(rest) \subseteq Elements(Publish(list, found) \o rest)
  BY <1>1, ElementsConcat DEF Part, Delivers
<1>4. QED
  BY <1>2, <1>3 DEF Delivers

LEMMA Appended ==
    ASSUME NEW list \in Lists, NEW found \in Seq(Handle)
    PROVE  /\ Delivers(list, found, AppendAndAdd(list, found))
           /\ Delivers(list, found, AppendThenAdd(list, found))
BY AppendAndAddPart, AppendThenAddPart DEF Delivers

LEMMA DescriptorsDelivered ==
    ASSUME NEW found \in Seq(Handle)
    PROVE  Delivers("dscs", found, gatt_cl_disc_all_desc_rsp_ev_(found))
<1>1. "dscs" \in Lists
  BY DEF Lists
<1>2. PICK p, q, r : p = Publish("dscs", found) /\ q = AppendAndAdd("dscs", found)
                     /\ r = IF found = <<>> THEN <<>> ELSE Publish("dscs", found)
  OBVIOUS
<1>3. Delivers("dscs", found, q) /\ Part("dscs", found, p) /\ Part("dscs", found, r)
  BY <1>1, <1>2, Appended, PublishPart, EmptyPart
<1>4. Part("dscs", found, p \o r)
  BY <1>3, PartConcat
<1>5. Part("dscs", found, (p \o r) \o q)
  BY <1>3, <1>4, PartConcat DEF Delivers
<1>6. Elements(q) \subseteq Elements((p \o r) \o q)
  <2>1. q \in Seq(AnyStatement) /\ p \o r \in Seq(AnyStatement)
    BY <1>3, <1>4 DEF Part, Delivers
  <2>2. Elements((p \o r) \o q) = Elements(p \o r) \cup Elements(q)
    BY ONLY <2>1, ElementsConcat
  <2>3. QED
    BY <2>2
<1>7. Delivers("dscs", found, (p \o r) \o q)
  BY <1>3, <1>5, <1>6 DEF Delivers
<1>8. QED
  BY <1>2, <1>7 DEF gatt_cl_disc_all_desc_rsp_ev_

LEMMA CallbackDelivers ==
    ASSUME NEW f \in Frame, f.op \in Discovery
    PROVE  Delivers(ListFor(f.op), f.found, Callback(f)) /\ ListFor(f.op) \in Lists
<1>1. f.found \in Seq(Handle)
  BY DEF Frame, Handle
<1>2. "prim_svcs" \in Lists /\ "incl_svcs" \in Lists /\ "chrcs" \in Lists /\ "dscs" \in Lists
  BY DEF Lists
<1>3. CASE f.op \in {"disc_prim_svcs", "disc_prim_uuid"}
  <2>1. Delivers("prim_svcs", f.found, Publish("prim_svcs", f.found) \o AppendAndAdd("prim_svcs", f.found))
    BY <1>1, <1>2, Published, Appended
  <2>2. QED
    BY <1>2, <1>3, <2>1 DEF Callback, ListFor, gatt_cl_disc_all_prim_rsp_ev_, gatt_cl_disc_prim_uuid_rsp_ev_
<1>4. CASE f.op = "find_included"
  <2>1. Delivers("incl_svcs", f.found, Publish("incl_svcs", f.found) \o AppendAndAdd("incl_svcs", f.found))
    BY <1>1, <1>2, Published, Appended
  <2>2. QED
    BY <1>2, <1>4, <2>1 DEF Callback, ListFor, gatt_cl_find_incld_rsp_ev_
<1>5. CASE f.op \in {"disc_all_chrc", "disc_chrc_uuid"}
  <2>1. Delivers("chrcs", f.found, Publish("chrcs", f.found) \o AppendThenAdd("chrcs", f.found))
    BY <1>1, <1>2, Published, Appended
  <2>2. QED
    BY <1>2, <1>5, <2>1 DEF Callback, ListFor, gatt_cl_disc_all_chrc_rsp_ev_, gatt_cl_disc_chrc_uuid_rsp_ev_
<1>6. CASE f.op = "disc_all_desc"
  BY <1>1, <1>2, <1>6, DescriptorsDelivered DEF Callback, ListFor
<1>7. QED
  BY <1>3, <1>4, <1>5, <1>6 DEF Discovery

\* What the callback of a read, a write or a subscription does.
LEMMA CallbackAccess ==
    ASSUME NEW f \in Frame, f.op \in Access
    PROVE  /\ Callback(f) \in Seq(AnyStatement)
           /\ Elements(Callback(f)) \subseteq
                 {Statement("write_status", "", 0), clear_verify_values, add_to_verify_values(f.status)}
           /\ f.op # "read" \/ f.found # <<>> =>
                 Callback(f) # <<>> /\ Callback(f)[Len(Callback(f))] = add_to_verify_values(f.status)
<1>1. PICK w, c, v : /\ w = Statement("write_status", "", 0) /\ c = clear_verify_values
                     /\ v = add_to_verify_values(f.status)
  OBVIOUS
<1>2. w \in AnyStatement /\ c \in AnyStatement /\ v \in AnyStatement
  BY <1>1 DEF Statement, AnyStatement, clear_verify_values, add_to_verify_values, Frame
<1>3. \/ Callback(f) = <<c>> \o (IF f.found = <<>> THEN <<>> ELSE <<v>>) /\ f.op = "read"
      \/ Callback(f) = <<c, v>>
      \/ Callback(f) = <<w, c, v>>
  BY <1>1 DEF Callback, Access, gatt_cl_read_rsp_ev_, gatt_cl_read_long_rsp_ev_, gatt_cl_write_rsp_ev_
<1>4. <<c>> \o <<v>> = <<c, v>> /\ <<c>> \o <<>> = <<c>>
  <2>1. <<c>> \o <<v>> = <<c, v>>
    <3>1. PICK s, t, p, q : s = <<c>> /\ t = <<v>> /\ p = s \o t /\ q = <<c, v>>
      OBVIOUS
    <3>2. /\ s \in Seq(AnyStatement) /\ t \in Seq(AnyStatement) /\ q \in Seq(AnyStatement)
          /\ Len(s) = 1 /\ Len(t) = 1 /\ Len(q) = 2 /\ s[1] = c /\ t[1] = v /\ q[1] = c /\ q[2] = v
      BY ONLY <1>2, <3>1
    <3>3. p \in Seq(AnyStatement) /\ Len(p) = 2 /\ p[1] = c /\ p[2] = v
      BY ONLY <3>1, <3>2, ConcatProperties
    <3>4. \A k \in 1 .. 2 : k = 1 \/ k = 2
      OBVIOUS
    <3>5. \A k \in 1 .. Len(p) : p[k] = q[k]
      BY ONLY <3>2, <3>3, <3>4
    <3>6. p = q
      BY ONLY <3>2, <3>3, <3>5, SeqEqual
    <3>7. QED
      BY <3>1, <3>6
  <2>2. <<c>> \o <<>> = <<c>>
    BY ONLY <1>2, ConcatEmptySeq
  <2>3. QED
    BY <2>1, <2>2
<1>5. \/ Callback(f) = <<c>> /\ f.op = "read" /\ f.found = <<>>
      \/ Callback(f) = <<c, v>>
      \/ Callback(f) = <<w, c, v>>
  BY <1>3, <1>4
<1>6. /\ Elements(<<c>>) = {c} /\ Elements(<<c, v>>) = {c, v} /\ Elements(<<w, c, v>>) = {w, c, v}
      /\ Len(<<c, v>>) = 2 /\ Len(<<w, c, v>>) = 3
      /\ <<c, v>>[2] = v /\ <<w, c, v>>[3] = v
      /\ <<c, v>> # <<>> /\ <<w, c, v>> # <<>>
  <2>1. DOMAIN <<c>> = {1} /\ DOMAIN <<c, v>> = {1, 2} /\ DOMAIN <<w, c, v>> = {1, 2, 3}
    OBVIOUS
  <2>2. QED
    BY <2>1 DEF Elements
<1>7. <<c>> \in Seq(AnyStatement) /\ <<c, v>> \in Seq(AnyStatement) /\ <<w, c, v>> \in Seq(AnyStatement)
  BY <1>2
<1>8. CASE Callback(f) = <<c>> /\ f.op = "read" /\ f.found = <<>>
  BY <1>1, <1>6, <1>7, <1>8
<1>9. CASE Callback(f) = <<c, v>>
  BY <1>1, <1>6, <1>7, <1>9
<1>10. CASE Callback(f) = <<w, c, v>>
  BY <1>1, <1>6, <1>7, <1>10
<1>11. QED
  BY <1>5, <1>8, <1>9, <1>10

LEMMA CallbackNotification ==
    ASSUME NEW f \in Frame, f.op = "notification"
    PROVE  /\ f.found = <<>> => Callback(f) = <<>>
           /\ f.found # <<>> => Callback(f) = <<Statement("notification", "", f.found[1])>>
           /\ \A s \in Elements(Callback(f)) : s.do = "notification"
<1>1. Callback(f) = gatt_cl_notification_rxed_ev_(f.found)
  BY DEF Callback
<1>2. PICK s : s = Statement("notification", "", f.found[1])
  OBVIOUS
<1>3. s.do = "notification" /\ Callback(f) = IF f.found = <<>> THEN <<>> ELSE <<s>>
  BY <1>1, <1>2 DEF gatt_cl_notification_rxed_ev_, Statement
<1>4. Elements(Callback(f)) \subseteq {s}
  BY <1>3, ElementsOne, ElementsEmpty
<1>5. QED
  BY <1>2, <1>3, <1>4

-----------------------------------------------------------------------------
\* Ways through the phases.

LEMMA PassageJoined ==
    ASSUME NEW t, NEW c, NEW s \in Seq(AllStep), NEW u \in Seq(AllStep), NEW from, NEW via, NEW to,
           Passage(t, c, s, from, via), Passage(t, c, u, via, to)
    PROVE  s \o u \in Seq(AllStep) /\ Passage(t, c, s \o u, from, to)
<1>1. PICK m, n, p, ok : m = Len(s) /\ n = Len(u) /\ p = s \o u /\ ok = PhasesOf(t, c)
  OBVIOUS
<1>2. /\ p \in Seq(AllStep) /\ m \in Nat /\ n \in Nat /\ Len(p) = m + n
      /\ \A k \in 1 .. m + n : p[k] = IF k <= m THEN s[k] ELSE u[k - m]
  BY <1>1, ConcatProperties
<1>3. PICK f \in [0 .. m -> ok] :
         f[0] = from /\ f[m] = via /\ \A k \in 1 .. m : Moves(t, c, f[k - 1], s[k], f[k])
  BY <1>1 DEF Passage
<1>4. PICK g \in [0 .. n -> ok] :
         g[0] = via /\ g[n] = to /\ \A k \in 1 .. n : Moves(t, c, g[k - 1], u[k], g[k])
  BY <1>1 DEF Passage
<1>5. PICK h : h = [k \in 0 .. m + n |-> IF k <= m THEN f[k] ELSE g[k - m]]
  OBVIOUS
<1>6. h \in [0 .. m + n -> ok]
  <2>1. \A k \in 0 .. m + n : IF k <= m THEN k \in 0 .. m ELSE k - m \in 0 .. n
    BY <1>2
  <2>2. QED
    BY <1>3, <1>4, <1>5, <2>1
<1>7. /\ \A k \in 0 .. m : h[k] = f[k]
      /\ \A k \in 0 .. n : h[m + k] = g[k]
  <2>1. \A k \in 0 .. m : k \in 0 .. m + n /\ k <= m
    BY <1>2
  <2>2. ASSUME NEW k \in 0 .. n
        PROVE  h[m + k] = g[k]
    <3>1. CASE k = 0
      <4>1. m + k = m /\ m \in 0 .. m + n /\ m <= m
        BY <1>2, <3>1
      <4>2. QED
        BY <1>3, <1>4, <1>5, <3>1, <4>1
    <3>2. CASE k # 0
      <4>1. m + k \in 0 .. m + n /\ ~(m + k <= m) /\ (m + k) - m = k
        BY <1>2, <3>2
      <4>2. QED
        BY <1>5, <4>1
    <3>3. QED
      BY <3>1, <3>2
  <2>3. QED
    BY <1>5, <2>1, <2>2
<1>8. h[0] = from /\ h[m + n] = to
  BY <1>2, <1>3, <1>4, <1>7
<1>9. ASSUME NEW k \in 1 .. m + n
      PROVE  Moves(t, c, h[k - 1], p[k], h[k])
  <2>1. CASE k <= m
    <3>1. k - 1 \in 0 .. m /\ k \in 0 .. m /\ k \in 1 .. m
      BY <1>2, <2>1
    <3>2. h[k - 1] = f[k - 1] /\ h[k] = f[k] /\ p[k] = s[k]
      BY <1>2, <1>7, <2>1, <3>1
    <3>3. QED
      BY <1>3, <3>1, <3>2
  <2>2. CASE ~(k <= m)
    <3>1. PICK l : l = k - m
      OBVIOUS
    <3>2. l \in 1 .. n /\ l \in 0 .. n /\ l - 1 \in 0 .. n /\ m + l = k /\ m + (l - 1) = k - 1
      BY <1>2, <2>2, <3>1
    <3>3. h[k - 1] = g[l - 1] /\ h[k] = g[l] /\ p[k] = u[l]
      BY <1>2, <1>7, <2>2, <3>1, <3>2
    <3>4. QED
      BY <1>4, <3>2, <3>3
  <2>3. QED
    BY <2>1, <2>2
<1>10. Passage(t, c, p, from, to)
  BY <1>1, <1>2, <1>6, <1>8, <1>9 DEF Passage
<1>11. QED
  BY <1>1, <1>2, <1>10

\* The programs that lead from one phase to another.
From(t, c, from, to) == {p \in Seq(AllStep) : Passage(t, c, p, from, to)}

LEMMA FromJoined ==
    \A t, c, x, y, z : \A s \in From(t, c, x, y), u \in From(t, c, y, z) : s \o u \in From(t, c, x, z)
BY PassageJoined DEF From

LEMMA StepFrom ==
    ASSUME NEW t, NEW c, NEW s \in AllStep, NEW from \in PhasesOf(t, c), NEW to \in PhasesOf(t, c),
           Moves(t, c, from, s, to)
    PROVE  <<s>> \in From(t, c, from, to)
<1>1. PICK p, f : p = <<s>> /\ f = [k \in 0 .. 1 |-> IF k = 0 THEN from ELSE to]
  OBVIOUS
<1>2. p \in Seq(AllStep) /\ Len(p) = 1 /\ p[1] = s
  BY <1>1
<1>3. f \in [0 .. 1 -> PhasesOf(t, c)] /\ f[0] = from /\ f[1] = to
  BY <1>1
<1>4. \A k \in 1 .. 1 : k = 1 /\ k - 1 = 0
  OBVIOUS
<1>5. \A k \in 1 .. Len(p) : Moves(t, c, f[k - 1], p[k], f[k])
  BY <1>2, <1>3, <1>4
<1>6. Passage(t, c, p, from, to)
  BY <1>2, <1>3, <1>5 DEF Passage
<1>7. QED
  BY <1>1, <1>2, <1>6 DEF From

\* A step that leads from one phase to another.
Leads(t, c, from, do, op, arg, to) ==
    /\ [do |-> do, op |-> op, arg |-> arg] \in AllStep
    /\ from \in PhasesOf(t, c) /\ to \in PhasesOf(t, c)
    /\ Moves(t, c, from, [do |-> do, op |-> op, arg |-> arg], to)

LEMMA StepLeads ==
    \A t, c, from, do, op, arg, to :
        Leads(t, c, from, do, op, arg, to) => Step(do, op, arg) \in From(t, c, from, to)
BY StepFrom DEF Leads, Step

LEMMA Disconnected ==
    ASSUME NEW t \in Tests, NEW c \in BOOLEAN
    PROVE  disconnection_procedure \in From(t, c, LastPhase(t), "over")
<1>1. /\ [do |-> "disconnect", op |-> "", arg |-> ""] \in AllStep
      /\ LastPhase(t) \in PhasesOf(t, c) /\ "over" \in PhasesOf(t, c)
      /\ Moves(t, c, LastPhase(t), [do |-> "disconnect", op |-> "", arg |-> ""], "over")
  BY DEF AllStep, PhasesOf, Moves, Whole, Inside, Straight, Deep, Reads, Writes, Subscribes, Tests, LastPhase
<1>2. QED
  BY <1>1, StepFrom DEF disconnection_procedure, Step

\* What a step is, and which moves there are, throughout the next lemmas.
USE DEF Leads, Send, ReadRsp, Wait, Find, FindEnd, FirstValue, AssertNoError, WaitFutures,
        gattc_notification_ev, gatts_attr_value_changed_ev, verify_notification_ev,
        disconnection_procedure, LastPhase, ChrUuid, DscUuid, AccessOp, AccessArg, AllStep,
        PhasesOf, Moves, SendMoves, RspMoves, WaitMoves, FindMoves, ResetMoves, AssertMoves,
        Command, Lists, Kind, Whole, Inside, Straight, Deep, Reads, Writes, Subscribes, Tests

LEMMA DiscPrimSvcs ==
    ASSUME NEW t \in Whole, cl \in BOOLEAN
    PROVE  disc_prim_svcs \in From(t, cl, "start", "svc_in")
<1>1. CASE cl
  <2>0. cl = TRUE
    BY <1>1
  <2>1. Send("disc_prim_svcs", "any") \in From(t, TRUE, "start", "svc_sent")
    BY StepLeads
  <2>2. ReadRsp("status") \in From(t, TRUE, "svc_sent", "svc_wait")
    BY StepLeads
  <2>3. Wait("prim_svcs") \in From(t, TRUE, "svc_wait", "svc_in")
    BY StepLeads
  <2>4. QED
    BY <2>0, <2>1, <2>2, <2>3, FromJoined DEF disc_prim_svcs, gatt_cl_disc_prim_svcs, gatt_cl_command_rsp_succ
<1>2. CASE ~cl
  <2>0. cl = FALSE
    BY <1>2
  <2>1. Send("disc_prim_svcs", "any") \in From(t, FALSE, "start", "svc_sent")
    BY StepLeads
  <2>2. ReadRsp("new_db") \in From(t, FALSE, "svc_sent", "svc_in")
    BY StepLeads
  <2>3. QED
    BY <2>0, <2>1, <2>2, FromJoined DEF disc_prim_svcs, gattc_disc_prim_svcs, gattc_disc_prim_svcs_rsp
<1>3. QED
  BY <1>1, <1>2

LEMMA DiscPrimUuid ==
    ASSUME NEW t \in Inside \cup {"GAD_2"}, cl \in BOOLEAN
    PROVE  disc_prim_uuid("SVC") \in From(t, cl, "start", "svc_in")
<1>1. CASE cl
  <2>0. cl = TRUE
    BY <1>1
  <2>1. Send("disc_prim_uuid", "SVC") \in From(t, TRUE, "start", "svc_sent")
    BY StepLeads
  <2>2. ReadRsp("status") \in From(t, TRUE, "svc_sent", "svc_wait")
    BY StepLeads
  <2>3. Wait("prim_svcs") \in From(t, TRUE, "svc_wait", "svc_in")
    BY StepLeads
  <2>4. QED
    BY <2>0, <2>1, <2>2, <2>3, FromJoined DEF disc_prim_uuid, gatt_cl_disc_prim_uuid, gatt_cl_command_rsp_succ
<1>2. CASE ~cl
  <2>0. cl = FALSE
    BY <1>2
  <2>1. Send("disc_prim_uuid", "SVC") \in From(t, FALSE, "start", "svc_sent")
    BY StepLeads
  <2>2. ReadRsp("new_db") \in From(t, FALSE, "svc_sent", "svc_in")
    BY StepLeads
  <2>3. QED
    BY <2>0, <2>1, <2>2, FromJoined DEF disc_prim_uuid, gattc_disc_prim_uuid, gattc_disc_prim_uuid_rsp
<1>3. QED
  BY <1>1, <1>2

LEMMA FindIncluded ==
    ASSUME NEW t, t = "GAD_3", cl \in BOOLEAN
    PROVE  find_included_svcs \in From(t, cl, "svc_in", "inc_in")
<1>1. CASE cl
  <2>0. cl = TRUE
    BY <1>1
  <2>1. Send("find_included", "any") \in From(t, TRUE, "svc_in", "inc_sent")
    BY StepLeads
  <2>2. ReadRsp("status") \in From(t, TRUE, "inc_sent", "inc_wait")
    BY StepLeads
  <2>3. Wait("incl_svcs") \in From(t, TRUE, "inc_wait", "inc_in")
    BY StepLeads
  <2>4. QED
    BY <2>0, <2>1, <2>2, <2>3, FromJoined DEF find_included_svcs, gatt_cl_find_included, gatt_cl_command_rsp_succ
<1>2. CASE ~cl
  <2>0. cl = FALSE
    BY <1>2
  <2>1. Step("services", "", "") \in From(t, FALSE, "svc_in", "inc_next")
    BY StepLeads
  <2>2. Send("find_included", "service") \in From(t, FALSE, "inc_next", "inc_sent")
    BY StepLeads
  <2>3. ReadRsp("add_to_db") \in From(t, FALSE, "inc_sent", "inc_in")
    BY StepLeads
  <2>4. QED
    BY <2>0, <2>1, <2>2, <2>3, FromJoined DEF find_included_svcs, gattc_find_included, gattc_find_included_rsp
<1>3. QED
  BY <1>1, <1>2

LEMMA DiscAllChrc ==
    ASSUME NEW t \in Inside, cl \in BOOLEAN
    PROVE  disc_all_chrc \in From(t, cl, "svc", "chr_in")
<1>1. CASE cl
  <2>0. cl = TRUE
    BY <1>1
  <2>1. Step("reset", "chrcs", "") \in From(t, TRUE, "svc", "chr_reset")
    BY StepLeads
  <2>2. Send("disc_all_chrc", "any") \in From(t, TRUE, "chr_reset", "chr_sent")
    BY StepLeads
  <2>3. ReadRsp("status") \in From(t, TRUE, "chr_sent", "chr_wait")
    BY StepLeads
  <2>4. Wait("chrcs") \in From(t, TRUE, "chr_wait", "chr_in")
    BY StepLeads
  <2>5. QED
    BY <2>0, <2>1, <2>2, <2>3, <2>4, FromJoined DEF disc_all_chrc, gatt_cl_disc_all_chrc, gatt_cl_command_rsp_succ
<1>2. CASE ~cl
  <2>0. cl = FALSE
    BY <1>2
  <2>1. Send("disc_all_chrc", "any") \in From(t, FALSE, "svc", "chr_sent")
    BY StepLeads
  <2>2. ReadRsp("new_db") \in From(t, FALSE, "chr_sent", "chr_in")
    BY StepLeads
  <2>3. QED
    BY <2>0, <2>1, <2>2, FromJoined DEF disc_all_chrc, gattc_disc_all_chrc, gattc_disc_all_chrc_rsp
<1>3. QED
  BY <1>1, <1>2

LEMMA DiscChrcUuid ==
    ASSUME NEW t \in Straight, cl \in BOOLEAN
    PROVE  disc_chrc_uuid(ChrUuid(t)) \in From(t, cl, "start", "chr_in")
<1>1. CASE cl
  <2>0. cl = TRUE
    BY <1>1
  <2>1. Step("reset", "chrcs", "") \in From(t, TRUE, "start", "chr_reset")
    BY StepLeads
  <2>2. Send("disc_chrc_uuid", ChrUuid(t)) \in From(t, TRUE, "chr_reset", "chr_sent")
    BY StepLeads
  <2>3. ReadRsp("status") \in From(t, TRUE, "chr_sent", "chr_wait")
    BY StepLeads
  <2>4. Wait("chrcs") \in From(t, TRUE, "chr_wait", "chr_in")
    BY StepLeads
  <2>5. QED
    BY <2>0, <2>1, <2>2, <2>3, <2>4, FromJoined DEF disc_chrc_uuid, gatt_cl_disc_chrc_uuid, gatt_cl_command_rsp_succ
<1>2. CASE ~cl
  <2>0. cl = FALSE
    BY <1>2
  <2>1. Send("disc_chrc_uuid", ChrUuid(t)) \in From(t, FALSE, "start", "chr_sent")
    BY StepLeads
  <2>2. ReadRsp("new_db") \in From(t, FALSE, "chr_sent", "chr_in")
    BY StepLeads
  <2>3. QED
    BY <2>0, <2>1, <2>2, FromJoined DEF disc_chrc_uuid, gattc_disc_chrc_uuid, gattc_disc_chrc_uuid_rsp
<1>3. QED
  BY <1>1, <1>2

LEMMA DiscAllDesc ==
    ASSUME NEW t \in Deep, cl \in BOOLEAN
    PROVE  disc_all_desc \in From(t, cl, "end", "dsc_in")
<1>1. CASE cl
  <2>0. cl = TRUE
    BY <1>1
  <2>1. Step("reset", "dscs", "") \in From(t, TRUE, "end", "dsc_reset")
    BY StepLeads
  <2>2. Send("disc_all_desc", "any") \in From(t, TRUE, "dsc_reset", "dsc_sent")
    BY StepLeads
  <2>3. ReadRsp("status") \in From(t, TRUE, "dsc_sent", "dsc_wait")
    BY StepLeads
  <2>4. Wait("dscs") \in From(t, TRUE, "dsc_wait", "dsc_in")
    BY StepLeads
  <2>5. QED
    BY <2>0, <2>1, <2>2, <2>3, <2>4, FromJoined DEF disc_all_desc, gatt_cl_disc_all_desc, gatt_cl_command_rsp_succ
<1>2. CASE ~cl
  <2>0. cl = FALSE
    BY <1>2
  <2>1. Send("disc_all_desc", "any") \in From(t, FALSE, "end", "dsc_sent")
    BY StepLeads
  <2>2. ReadRsp("new_db") \in From(t, FALSE, "dsc_sent", "dsc_in")
    BY StepLeads
  <2>3. QED
    BY <2>0, <2>1, <2>2, FromJoined DEF disc_all_desc, gattc_disc_all_desc, gattc_disc_all_desc_rsp
<1>3. QED
  BY <1>1, <1>2

LEMMA FindSvc ==
    ASSUME NEW t \in Inside \cup {"GAD_1", "GAD_2"}, NEW c \in BOOLEAN
    PROVE  Find("svc", "SVC") \in From(t, c, "svc_in", "svc")
BY StepLeads

LEMMA FindInc ==
    ASSUME NEW t, t = "GAD_3", NEW c \in BOOLEAN
    PROVE  Find("inc", "INC_SVC") \in From(t, c, "inc_in", "inc")
BY StepLeads

LEMMA FindChr ==
    ASSUME NEW t \in Inside \cup Straight, NEW c \in BOOLEAN
    PROVE  Find("chr", ChrUuid(t)) \in From(t, c, "chr_in", "chr")
BY StepLeads

LEMMA FindEnds ==
    ASSUME NEW t \in Deep, NEW c \in BOOLEAN
    PROVE  FindEnd \in From(t, c, "chr", "end")
BY StepLeads

LEMMA FindDsc ==
    ASSUME NEW t \in Deep, NEW c \in BOOLEAN
    PROVE  Find("dsc", DscUuid(t)) \in From(t, c, "dsc_in", "dsc")
BY StepLeads

LEMMA Access_read ==
    ASSUME NEW t \in {"GAR_1", "GAR_3"}, NEW a, a = AccessArg(t), NEW f, f = IF a = "value" THEN "chr" ELSE "dsc", cl \in BOOLEAN
    PROVE  read(a) \in From(t, cl, f, "done")
<1>1. CASE cl
  <2>0. cl = TRUE
    BY <1>1
  <2>1. Send("read", a) \in From(t, TRUE, f, "read_sent")
    BY StepLeads
  <2>2. ReadRsp("status") \in From(t, TRUE, "read_sent", "read_wait")
    BY StepLeads
  <2>3. Wait("read") \in From(t, TRUE, "read_wait", "read_in")
    BY StepLeads
  <2>4. FirstValue \in From(t, TRUE, "read_in", "read_got")
    BY StepLeads
  <2>5. AssertNoError \in From(t, TRUE, "read_got", "done")
    BY StepLeads
  <2>6. QED
    BY <2>0, <2>1, <2>2, <2>3, <2>4, <2>5, FromJoined DEF read, gatt_cl_read, gatt_cl_command_rsp_succ
<1>2. CASE ~cl
  <2>0. cl = FALSE
    BY <1>2
  <2>1. Send("read", a) \in From(t, FALSE, f, "read_sent")
    BY StepLeads
  <2>2. ReadRsp("value") \in From(t, FALSE, "read_sent", "read_got")
    BY StepLeads
  <2>3. AssertNoError \in From(t, FALSE, "read_got", "done")
    BY StepLeads
  <2>4. QED
    BY <2>0, <2>1, <2>2, <2>3, FromJoined DEF read, gattc_read, gattc_read_rsp
<1>3. QED
  BY <1>1, <1>2

LEMMA Access_read_long ==
    ASSUME NEW t \in {"GAR_2", "GAR_4"}, NEW a, a = AccessArg(t), NEW f, f = IF a = "value" THEN "chr" ELSE "dsc", cl \in BOOLEAN
    PROVE  read_long(a) \in From(t, cl, f, "done")
<1>1. CASE cl
  <2>0. cl = TRUE
    BY <1>1
  <2>1. Send("read_long", a) \in From(t, TRUE, f, "read_sent")
    BY StepLeads
  <2>2. ReadRsp("status") \in From(t, TRUE, "read_sent", "read_wait")
    BY StepLeads
  <2>3. Wait("read") \in From(t, TRUE, "read_wait", "read_in")
    BY StepLeads
  <2>4. FirstValue \in From(t, TRUE, "read_in", "read_got")
    BY StepLeads
  <2>5. AssertNoError \in From(t, TRUE, "read_got", "done")
    BY StepLeads
  <2>6. QED
    BY <2>0, <2>1, <2>2, <2>3, <2>4, <2>5, FromJoined DEF read_long, gatt_cl_read_long, gatt_cl_command_rsp_succ
<1>2. CASE ~cl
  <2>0. cl = FALSE
    BY <1>2
  <2>1. Send("read_long", a) \in From(t, FALSE, f, "read_sent")
    BY StepLeads
  <2>2. ReadRsp("value") \in From(t, FALSE, "read_sent", "read_got")
    BY StepLeads
  <2>3. AssertNoError \in From(t, FALSE, "read_got", "done")
    BY StepLeads
  <2>4. QED
    BY <2>0, <2>1, <2>2, <2>3, FromJoined DEF read_long, gattc_read_long, gattc_read_long_rsp
<1>3. QED
  BY <1>1, <1>2

LEMMA Access_write ==
    ASSUME NEW t \in {"GAW_1", "GAW_3"}, NEW a, a = AccessArg(t), NEW f, f = IF a = "value" THEN "chr" ELSE "dsc", cl \in BOOLEAN
    PROVE  write(a) \in From(t, cl, f, "write_got")
<1>1. CASE cl
  <2>0. cl = TRUE
    BY <1>1
  <2>1. Send("write", a) \in From(t, TRUE, f, "write_sent")
    BY StepLeads
  <2>2. ReadRsp("status") \in From(t, TRUE, "write_sent", "write_answered")
    BY StepLeads
  <2>3. gatts_attr_value_changed_ev \in From(t, TRUE, "write_answered", "write_wait")
    BY StepLeads
  <2>4. Wait("write_rsp") \in From(t, TRUE, "write_wait", "write_in")
    BY StepLeads
  <2>5. FirstValue \in From(t, TRUE, "write_in", "write_got")
    BY StepLeads
  <2>6. QED
    BY <2>0, <2>1, <2>2, <2>3, <2>4, <2>5, FromJoined DEF write, gatt_cl_write, gatt_cl_command_rsp_succ
<1>2. CASE ~cl
  <2>0. cl = FALSE
    BY <1>2
  <2>1. Send("write", a) \in From(t, FALSE, f, "write_sent")
    BY StepLeads
  <2>2. gatts_attr_value_changed_ev \in From(t, FALSE, "write_sent", "write_late")
    BY StepLeads
  <2>3. ReadRsp("value") \in From(t, FALSE, "write_late", "write_got")
    BY StepLeads
  <2>4. QED
    BY <2>0, <2>1, <2>2, <2>3, FromJoined DEF write, gattc_write, gattc_write_rsp
<1>3. QED
  BY <1>1, <1>2

LEMMA Access_write_long ==
    ASSUME NEW t \in {"GAW_2", "GAW_4"}, NEW a, a = AccessArg(t), NEW f, f = IF a = "value" THEN "chr" ELSE "dsc", cl \in BOOLEAN
    PROVE  write_long(a) \in From(t, cl, f, "write_got")
<1>1. CASE cl
  <2>0. cl = TRUE
    BY <1>1
  <2>1. Send("write_long", a) \in From(t, TRUE, f, "write_sent")
    BY StepLeads
  <2>2. ReadRsp("status") \in From(t, TRUE, "write_sent", "write_answered")
    BY StepLeads
  <2>3. gatts_attr_value_changed_ev \in From(t, TRUE, "write_answered", "write_wait")
    BY StepLeads
  <2>4. Wait("write_rsp") \in From(t, TRUE, "write_wait", "write_in")
    BY StepLeads
  <2>5. FirstValue \in From(t, TRUE, "write_in", "write_got")
    BY StepLeads
  <2>6. QED
    BY <2>0, <2>1, <2>2, <2>3, <2>4, <2>5, FromJoined DEF write_long, gatt_cl_write_long, gatt_cl_command_rsp_succ
<1>2. CASE ~cl
  <2>0. cl = FALSE
    BY <1>2
  <2>1. Send("write_long", a) \in From(t, FALSE, f, "write_sent")
    BY StepLeads
  <2>2. gatts_attr_value_changed_ev \in From(t, FALSE, "write_sent", "write_late")
    BY StepLeads
  <2>3. ReadRsp("value") \in From(t, FALSE, "write_late", "write_got")
    BY StepLeads
  <2>4. QED
    BY <2>0, <2>1, <2>2, <2>3, FromJoined DEF write_long, gattc_write_long, gattc_write_long_rsp
<1>3. QED
  BY <1>1, <1>2

LEMMA Access_cfg_notify ==
    ASSUME NEW t, t = "GAN_1", cl \in BOOLEAN
    PROVE  cfg_notify \in From(t, cl, "dsc", "cfg_verify")
<1>1. CASE cl
  <2>0. cl = TRUE
    BY <1>1
  <2>1. Send("cfg_notify", "dsc") \in From(t, TRUE, "dsc", "cfg_sent")
    BY StepLeads
  <2>2. ReadRsp("status") \in From(t, TRUE, "cfg_sent", "cfg_wait")
    BY StepLeads
  <2>3. Wait("write_rsp") \in From(t, TRUE, "cfg_wait", "cfg_in")
    BY StepLeads
  <2>4. FirstValue \in From(t, TRUE, "cfg_in", "cfg_got")
    BY StepLeads
  <2>5. AssertNoError \in From(t, TRUE, "cfg_got", "cfg_note")
    BY StepLeads
  <2>6. Wait("notifications") \in From(t, TRUE, "cfg_note", "cfg_noted")
    BY StepLeads
  <2>7. Step("notification", "", "") \in From(t, TRUE, "cfg_noted", "cfg_verify")
    BY StepLeads
  <2>8. QED
    BY <2>0, <2>1, <2>2, <2>3, <2>4, <2>5, <2>6, <2>7, FromJoined DEF cfg_notify, gatt_cl_cfg_notify, gatt_cl_command_rsp_succ
<1>2. CASE ~cl
  <2>0. cl = FALSE
    BY <1>2
  <2>1. gattc_notification_ev \in From(t, FALSE, "dsc", "cfg_listen")
    BY StepLeads
  <2>2. Send("cfg_notify", "dsc") \in From(t, FALSE, "cfg_listen", "cfg_sent")
    BY StepLeads
  <2>3. ReadRsp("status") \in From(t, FALSE, "cfg_sent", "cfg_late")
    BY StepLeads
  <2>4. ReadRsp("value") \in From(t, FALSE, "cfg_late", "cfg_got")
    BY StepLeads
  <2>5. AssertNoError \in From(t, FALSE, "cfg_got", "cfg_future")
    BY StepLeads
  <2>6. WaitFutures \in From(t, FALSE, "cfg_future", "cfg_verify")
    BY StepLeads
  <2>7. QED
    BY <2>0, <2>1, <2>2, <2>3, <2>4, <2>5, <2>6, FromJoined DEF cfg_notify, gattc_cfg_notify, gattc_write_rsp
<1>3. QED
  BY <1>1, <1>2

LEMMA Access_cfg_indicate ==
    ASSUME NEW t, t = "GAI_1", cl \in BOOLEAN
    PROVE  cfg_indicate \in From(t, cl, "dsc", "cfg_verify")
<1>1. CASE cl
  <2>0. cl = TRUE
    BY <1>1
  <2>1. Send("cfg_indicate", "dsc") \in From(t, TRUE, "dsc", "cfg_sent")
    BY StepLeads
  <2>2. ReadRsp("status") \in From(t, TRUE, "cfg_sent", "cfg_wait")
    BY StepLeads
  <2>3. Wait("write_rsp") \in From(t, TRUE, "cfg_wait", "cfg_in")
    BY StepLeads
  <2>4. FirstValue \in From(t, TRUE, "cfg_in", "cfg_got")
    BY StepLeads
  <2>5. AssertNoError \in From(t, TRUE, "cfg_got", "cfg_note")
    BY StepLeads
  <2>6. Wait("notifications") \in From(t, TRUE, "cfg_note", "cfg_noted")
    BY StepLeads
  <2>7. Step("notification", "", "") \in From(t, TRUE, "cfg_noted", "cfg_verify")
    BY StepLeads
  <2>8. QED
    BY <2>0, <2>1, <2>2, <2>3, <2>4, <2>5, <2>6, <2>7, FromJoined DEF cfg_indicate, gatt_cl_cfg_indicate, gatt_cl_command_rsp_succ
<1>2. CASE ~cl
  <2>0. cl = FALSE
    BY <1>2
  <2>1. gattc_notification_ev \in From(t, FALSE, "dsc", "cfg_listen")
    BY StepLeads
  <2>2. Send("cfg_indicate", "dsc") \in From(t, FALSE, "cfg_listen", "cfg_sent")
    BY StepLeads
  <2>3. ReadRsp("status") \in From(t, FALSE, "cfg_sent", "cfg_late")
    BY StepLeads
  <2>4. ReadRsp("value") \in From(t, FALSE, "cfg_late", "cfg_got")
    BY StepLeads
  <2>5. AssertNoError \in From(t, FALSE, "cfg_got", "cfg_future")
    BY StepLeads
  <2>6. WaitFutures \in From(t, FALSE, "cfg_future", "cfg_verify")
    BY StepLeads
  <2>7. QED
    BY <2>0, <2>1, <2>2, <2>3, <2>4, <2>5, <2>6, FromJoined DEF cfg_indicate, gattc_cfg_indicate, gattc_write_rsp
<1>3. QED
  BY <1>1, <1>2

LEMMA WriteSure ==
    ASSUME NEW t \in Writes \ {"GAW_3"}, NEW c \in BOOLEAN
    PROVE  AssertNoError \in From(t, c, "write_got", "write_sure")
BY StepLeads

LEMMA WriteHeard ==
    ASSUME NEW t \in Writes \ {"GAW_3"}, NEW c \in BOOLEAN
    PROVE  WaitFutures \in From(t, c, "write_sure", "done")
BY StepLeads

LEMMA WriteHeardOnly ==
    ASSUME NEW t, t = "GAW_3", NEW c \in BOOLEAN
    PROVE  WaitFutures \in From(t, c, "write_got", "done")
BY StepLeads

LEMMA NotificationVerified ==
    ASSUME NEW t \in Subscribes, NEW c \in BOOLEAN
    PROVE  verify_notification_ev \in From(t, c, "cfg_verify", "done")
BY StepLeads

HIDE DEF Leads, Send, ReadRsp, Wait, Find, FindEnd, FirstValue, AssertNoError, WaitFutures,
         gattc_notification_ev, gatts_attr_value_changed_ev, verify_notification_ev,
         disconnection_procedure, LastPhase, ChrUuid, DscUuid, AccessOp, AccessArg, AllStep,
         PhasesOf, Moves, SendMoves, RspMoves, WaitMoves, FindMoves, ResetMoves, AssertMoves,
         Command, Lists, Kind, Whole, Inside, Straight, Deep, Reads, Writes, Subscribes, Tests

LEMMA ProgramPassage ==
    ASSUME NEW t \in Tests, cl \in BOOLEAN
    PROVE  Program(t) \in From(t, cl, "start", "over")
<1>1. CASE t = "GAD_1"
  <2>1. disc_prim_svcs \in From(t, cl, "start", "svc_in")
    BY <1>1, DiscPrimSvcs DEF Whole
  <2>2. Find("svc", "SVC") \in From(t, cl, "svc_in", "svc")
    BY <1>1, FindSvc DEF Inside
  <2>3. disconnection_procedure \in From(t, cl, "svc", "over")
    BY <1>1, Disconnected DEF LastPhase
  <2>4. QED
    BY <1>1, <2>1, <2>2, <2>3, FromJoined DEF Program, test_btp_GATT_CL_GAD_1
<1>2. CASE t = "GAD_2"
  <2>1. disc_prim_uuid("SVC") \in From(t, cl, "start", "svc_in")
    BY <1>2, DiscPrimUuid DEF Inside
  <2>2. Find("svc", "SVC") \in From(t, cl, "svc_in", "svc")
    BY <1>2, FindSvc DEF Inside
  <2>3. disconnection_procedure \in From(t, cl, "svc", "over")
    BY <1>2, Disconnected DEF LastPhase
  <2>4. QED
    BY <1>2, <2>1, <2>2, <2>3, FromJoined DEF Program, test_btp_GATT_CL_GAD_2
<1>3. CASE t = "GAD_3"
  <2>1. disc_prim_svcs \in From(t, cl, "start", "svc_in")
    BY <1>3, DiscPrimSvcs DEF Whole
  <2>2. find_included_svcs \in From(t, cl, "svc_in", "inc_in")
    BY <1>3, FindIncluded
  <2>3. Find("inc", "INC_SVC") \in From(t, cl, "inc_in", "inc")
    BY <1>3, FindInc
  <2>4. disconnection_procedure \in From(t, cl, "inc", "over")
    BY <1>3, Disconnected DEF LastPhase
  <2>5. QED
    BY <1>3, <2>1, <2>2, <2>3, <2>4, FromJoined DEF Program, test_btp_GATT_CL_GAD_3
<1>4. CASE t = "GAD_4"
  <2>1. disc_prim_uuid("SVC") \in From(t, cl, "start", "svc_in")
    BY <1>4, DiscPrimUuid DEF Inside
  <2>2. Find("svc", "SVC") \in From(t, cl, "svc_in", "svc")
    BY <1>4, FindSvc DEF Inside
  <2>3. disc_all_chrc \in From(t, cl, "svc", "chr_in")
    BY <1>4, DiscAllChrc DEF Inside
  <2>4. Find("chr", "CHR_READ_WRITE") \in From(t, cl, "chr_in", "chr")
    BY <1>4, FindChr DEF Inside, Straight, ChrUuid, Subscribes
  <2>5. disconnection_procedure \in From(t, cl, "chr", "over")
    BY <1>4, Disconnected DEF LastPhase
  <2>6. QED
    BY <1>4, <2>1, <2>2, <2>3, <2>4, <2>5, FromJoined DEF Program, test_btp_GATT_CL_GAD_4
<1>5. CASE t = "GAD_5"
  <2>1. disc_chrc_uuid("CHR_READ_WRITE") \in From(t, cl, "start", "chr_in")
    BY <1>5, DiscChrcUuid DEF Straight, ChrUuid, Subscribes
  <2>2. Find("chr", "CHR_READ_WRITE") \in From(t, cl, "chr_in", "chr")
    BY <1>5, FindChr DEF Inside, Straight, ChrUuid, Subscribes
  <2>3. disconnection_procedure \in From(t, cl, "chr", "over")
    BY <1>5, Disconnected DEF LastPhase
  <2>4. QED
    BY <1>5, <2>1, <2>2, <2>3, FromJoined DEF Program, test_btp_GATT_CL_GAD_5
<1>6. CASE t = "GAD_6"
  <2>1. disc_prim_uuid("SVC") \in From(t, cl, "start", "svc_in")
    BY <1>6, DiscPrimUuid DEF Inside
  <2>2. Find("svc", "SVC") \in From(t, cl, "svc_in", "svc")
    BY <1>6, FindSvc DEF Inside
  <2>3. disc_all_chrc \in From(t, cl, "svc", "chr_in")
    BY <1>6, DiscAllChrc DEF Inside
  <2>4. Find("chr", "CHR_READ_WRITE") \in From(t, cl, "chr_in", "chr")
    BY <1>6, FindChr DEF Inside, Straight, ChrUuid, Subscribes
  <2>5. FindEnd \in From(t, cl, "chr", "end")
    BY <1>6, FindEnds DEF Deep
  <2>6. disc_all_desc \in From(t, cl, "end", "dsc_in")
    BY <1>6, DiscAllDesc DEF Deep
  <2>7. Find("dsc", "DSC_READ_WRITE") \in From(t, cl, "dsc_in", "dsc")
    BY <1>6, FindDsc DEF Deep, DscUuid, Subscribes
  <2>8. disconnection_procedure \in From(t, cl, "dsc", "over")
    BY <1>6, Disconnected DEF LastPhase
  <2>9. Descriptor("DSC_READ_WRITE") \in From(t, cl, "start", "dsc")
    BY <2>1, <2>2, <2>3, <2>4, <2>5, <2>6, <2>7, FromJoined DEF Descriptor
  <2>10. QED
    BY <1>6, <2>9, <2>8, FromJoined DEF Program, test_btp_GATT_CL_GAD_6
<1>7. CASE t = "GAR_1"
  <2>1. disc_chrc_uuid("CHR_READ_WRITE") \in From(t, cl, "start", "chr_in")
    BY <1>7, DiscChrcUuid DEF Straight, ChrUuid, Subscribes
  <2>2. Find("chr", "CHR_READ_WRITE") \in From(t, cl, "chr_in", "chr")
    BY <1>7, FindChr DEF Inside, Straight, ChrUuid, Subscribes
  <2>3. read("value") \in From(t, cl, "chr", "done")
    BY <1>7, Access_read DEF AccessArg
  <2>4. disconnection_procedure \in From(t, cl, "done", "over")
    BY <1>7, Disconnected DEF LastPhase
  <2>5. QED
    BY <1>7, <2>1, <2>2, <2>3, <2>4, FromJoined DEF Program, test_btp_GATT_CL_GAR_1
<1>8. CASE t = "GAR_2"
  <2>1. disc_chrc_uuid("LONG_CHR_READ_WRITE") \in From(t, cl, "start", "chr_in")
    BY <1>8, DiscChrcUuid DEF Straight, ChrUuid, Subscribes
  <2>2. Find("chr", "LONG_CHR_READ_WRITE") \in From(t, cl, "chr_in", "chr")
    BY <1>8, FindChr DEF Inside, Straight, ChrUuid, Subscribes
  <2>3. read_long("value") \in From(t, cl, "chr", "done")
    BY <1>8, Access_read_long DEF AccessArg
  <2>4. disconnection_procedure \in From(t, cl, "done", "over")
    BY <1>8, Disconnected DEF LastPhase
  <2>5. QED
    BY <1>8, <2>1, <2>2, <2>3, <2>4, FromJoined DEF Program, test_btp_GATT_CL_GAR_2
<1>9. CASE t = "GAR_3"
  <2>1. disc_prim_uuid("SVC") \in From(t, cl, "start", "svc_in")
    BY <1>9, DiscPrimUuid DEF Inside
  <2>2. Find("svc", "SVC") \in From(t, cl, "svc_in", "svc")
    BY <1>9, FindSvc DEF Inside
  <2>3. disc_all_chrc \in From(t, cl, "svc", "chr_in")
    BY <1>9, DiscAllChrc DEF Inside
  <2>4. Find("chr", "CHR_READ_WRITE") \in From(t, cl, "chr_in", "chr")
    BY <1>9, FindChr DEF Inside, Straight, ChrUuid, Subscribes
  <2>5. FindEnd \in From(t, cl, "chr", "end")
    BY <1>9, FindEnds DEF Deep
  <2>6. disc_all_desc \in From(t, cl, "end", "dsc_in")
    BY <1>9, DiscAllDesc DEF Deep
  <2>7. Find("dsc", "DSC_READ_WRITE") \in From(t, cl, "dsc_in", "dsc")
    BY <1>9, FindDsc DEF Deep, DscUuid, Subscribes
  <2>8. read("dsc") \in From(t, cl, "dsc", "done")
    BY <1>9, Access_read DEF AccessArg
  <2>9. disconnection_procedure \in From(t, cl, "done", "over")
    BY <1>9, Disconnected DEF LastPhase
  <2>10. Descriptor("DSC_READ_WRITE") \in From(t, cl, "start", "dsc")
    BY <2>1, <2>2, <2>3, <2>4, <2>5, <2>6, <2>7, FromJoined DEF Descriptor
  <2>11. QED
    BY <1>9, <2>10, <2>8, <2>9, FromJoined DEF Program, test_btp_GATT_CL_GAR_3
<1>10. CASE t = "GAR_4"
  <2>1. disc_prim_uuid("SVC") \in From(t, cl, "start", "svc_in")
    BY <1>10, DiscPrimUuid DEF Inside
  <2>2. Find("svc", "SVC") \in From(t, cl, "svc_in", "svc")
    BY <1>10, FindSvc DEF Inside
  <2>3. disc_all_chrc \in From(t, cl, "svc", "chr_in")
    BY <1>10, DiscAllChrc DEF Inside
  <2>4. Find("chr", "CHR_READ_WRITE") \in From(t, cl, "chr_in", "chr")
    BY <1>10, FindChr DEF Inside, Straight, ChrUuid, Subscribes
  <2>5. FindEnd \in From(t, cl, "chr", "end")
    BY <1>10, FindEnds DEF Deep
  <2>6. disc_all_desc \in From(t, cl, "end", "dsc_in")
    BY <1>10, DiscAllDesc DEF Deep
  <2>7. Find("dsc", "LONG_DSC_READ_WRITE") \in From(t, cl, "dsc_in", "dsc")
    BY <1>10, FindDsc DEF Deep, DscUuid, Subscribes
  <2>8. read_long("dsc") \in From(t, cl, "dsc", "done")
    BY <1>10, Access_read_long DEF AccessArg
  <2>9. disconnection_procedure \in From(t, cl, "done", "over")
    BY <1>10, Disconnected DEF LastPhase
  <2>10. Descriptor("LONG_DSC_READ_WRITE") \in From(t, cl, "start", "dsc")
    BY <2>1, <2>2, <2>3, <2>4, <2>5, <2>6, <2>7, FromJoined DEF Descriptor
  <2>11. QED
    BY <1>10, <2>10, <2>8, <2>9, FromJoined DEF Program, test_btp_GATT_CL_GAR_4
<1>11. CASE t = "GAW_1"
  <2>1. disc_chrc_uuid("CHR_READ_WRITE") \in From(t, cl, "start", "chr_in")
    BY <1>11, DiscChrcUuid DEF Straight, ChrUuid, Subscribes
  <2>2. Find("chr", "CHR_READ_WRITE") \in From(t, cl, "chr_in", "chr")
    BY <1>11, FindChr DEF Inside, Straight, ChrUuid, Subscribes
  <2>3. write("value") \in From(t, cl, "chr", "write_got")
    BY <1>11, Access_write DEF AccessArg
  <2>4. AssertNoError \in From(t, cl, "write_got", "write_sure")
    BY <1>11, WriteSure DEF Writes
  <2>5. WaitFutures \in From(t, cl, "write_sure", "done")
    BY <1>11, WriteHeard DEF Writes
  <2>6. disconnection_procedure \in From(t, cl, "done", "over")
    BY <1>11, Disconnected DEF LastPhase
  <2>8. QED
    BY <1>11, <2>1, <2>2, <2>3, <2>4, <2>5, <2>6, FromJoined DEF Program, test_btp_GATT_CL_GAW_1
<1>12. CASE t = "GAW_2"
  <2>1. disc_chrc_uuid("LONG_CHR_READ_WRITE") \in From(t, cl, "start", "chr_in")
    BY <1>12, DiscChrcUuid DEF Straight, ChrUuid, Subscribes
  <2>2. Find("chr", "LONG_CHR_READ_WRITE") \in From(t, cl, "chr_in", "chr")
    BY <1>12, FindChr DEF Inside, Straight, ChrUuid, Subscribes
  <2>3. write_long("value") \in From(t, cl, "chr", "write_got")
    BY <1>12, Access_write_long DEF AccessArg
  <2>4. AssertNoError \in From(t, cl, "write_got", "write_sure")
    BY <1>12, WriteSure DEF Writes
  <2>5. WaitFutures \in From(t, cl, "write_sure", "done")
    BY <1>12, WriteHeard DEF Writes
  <2>6. disconnection_procedure \in From(t, cl, "done", "over")
    BY <1>12, Disconnected DEF LastPhase
  <2>8. QED
    BY <1>12, <2>1, <2>2, <2>3, <2>4, <2>5, <2>6, FromJoined DEF Program, test_btp_GATT_CL_GAW_2
<1>13. CASE t = "GAW_3"
  <2>1. disc_prim_uuid("SVC") \in From(t, cl, "start", "svc_in")
    BY <1>13, DiscPrimUuid DEF Inside
  <2>2. Find("svc", "SVC") \in From(t, cl, "svc_in", "svc")
    BY <1>13, FindSvc DEF Inside
  <2>3. disc_all_chrc \in From(t, cl, "svc", "chr_in")
    BY <1>13, DiscAllChrc DEF Inside
  <2>4. Find("chr", "CHR_READ_WRITE") \in From(t, cl, "chr_in", "chr")
    BY <1>13, FindChr DEF Inside, Straight, ChrUuid, Subscribes
  <2>5. FindEnd \in From(t, cl, "chr", "end")
    BY <1>13, FindEnds DEF Deep
  <2>6. disc_all_desc \in From(t, cl, "end", "dsc_in")
    BY <1>13, DiscAllDesc DEF Deep
  <2>7. Find("dsc", "DSC_READ_WRITE") \in From(t, cl, "dsc_in", "dsc")
    BY <1>13, FindDsc DEF Deep, DscUuid, Subscribes
  <2>8. write("dsc") \in From(t, cl, "dsc", "write_got")
    BY <1>13, Access_write DEF AccessArg
  <2>9. WaitFutures \in From(t, cl, "write_got", "done")
    BY <1>13, WriteHeardOnly
  <2>10. disconnection_procedure \in From(t, cl, "done", "over")
    BY <1>13, Disconnected DEF LastPhase
  <2>11. Descriptor("DSC_READ_WRITE") \in From(t, cl, "start", "dsc")
    BY <2>1, <2>2, <2>3, <2>4, <2>5, <2>6, <2>7, FromJoined DEF Descriptor
  <2>12. QED
    BY <1>13, <2>11, <2>8, <2>9, <2>10, FromJoined DEF Program, test_btp_GATT_CL_GAW_3
<1>14. CASE t = "GAW_4"
  <2>1. disc_prim_uuid("SVC") \in From(t, cl, "start", "svc_in")
    BY <1>14, DiscPrimUuid DEF Inside
  <2>2. Find("svc", "SVC") \in From(t, cl, "svc_in", "svc")
    BY <1>14, FindSvc DEF Inside
  <2>3. disc_all_chrc \in From(t, cl, "svc", "chr_in")
    BY <1>14, DiscAllChrc DEF Inside
  <2>4. Find("chr", "CHR_READ_WRITE") \in From(t, cl, "chr_in", "chr")
    BY <1>14, FindChr DEF Inside, Straight, ChrUuid, Subscribes
  <2>5. FindEnd \in From(t, cl, "chr", "end")
    BY <1>14, FindEnds DEF Deep
  <2>6. disc_all_desc \in From(t, cl, "end", "dsc_in")
    BY <1>14, DiscAllDesc DEF Deep
  <2>7. Find("dsc", "LONG_DSC_READ_WRITE") \in From(t, cl, "dsc_in", "dsc")
    BY <1>14, FindDsc DEF Deep, DscUuid, Subscribes
  <2>8. write_long("dsc") \in From(t, cl, "dsc", "write_got")
    BY <1>14, Access_write_long DEF AccessArg
  <2>9. AssertNoError \in From(t, cl, "write_got", "write_sure")
    BY <1>14, WriteSure DEF Writes
  <2>10. WaitFutures \in From(t, cl, "write_sure", "done")
    BY <1>14, WriteHeard DEF Writes
  <2>11. disconnection_procedure \in From(t, cl, "done", "over")
    BY <1>14, Disconnected DEF LastPhase
  <2>12. Descriptor("LONG_DSC_READ_WRITE") \in From(t, cl, "start", "dsc")
    BY <2>1, <2>2, <2>3, <2>4, <2>5, <2>6, <2>7, FromJoined DEF Descriptor
  <2>13. QED
    BY <1>14, <2>12, <2>8, <2>9, <2>10, <2>11, FromJoined DEF Program, test_btp_GATT_CL_GAW_4
<1>15. CASE t = "GAN_1"
  <2>1. disc_chrc_uuid("CHR_NOTIFY") \in From(t, cl, "start", "chr_in")
    BY <1>15, DiscChrcUuid DEF Straight, ChrUuid, Subscribes
  <2>2. Find("chr", "CHR_NOTIFY") \in From(t, cl, "chr_in", "chr")
    BY <1>15, FindChr DEF Inside, Straight, ChrUuid, Subscribes
  <2>3. FindEnd \in From(t, cl, "chr", "end")
    BY <1>15, FindEnds DEF Deep
  <2>4. disc_all_desc \in From(t, cl, "end", "dsc_in")
    BY <1>15, DiscAllDesc DEF Deep
  <2>5. Find("dsc", "CCC") \in From(t, cl, "dsc_in", "dsc")
    BY <1>15, FindDsc DEF Deep, DscUuid, Subscribes
  <2>6. cfg_notify \in From(t, cl, "dsc", "cfg_verify")
    BY <1>15, Access_cfg_notify
  <2>7. verify_notification_ev \in From(t, cl, "cfg_verify", "done")
    BY <1>15, NotificationVerified DEF Subscribes
  <2>8. disconnection_procedure \in From(t, cl, "done", "over")
    BY <1>15, Disconnected DEF LastPhase
  <2>9. Subscription \in From(t, cl, "start", "dsc")
    BY <2>1, <2>2, <2>3, <2>4, <2>5, FromJoined DEF Subscription
  <2>10. QED
    BY <1>15, <2>9, <2>6, <2>7, <2>8, FromJoined DEF Program, test_btp_GATT_CL_GAN_1
<1>16. CASE t = "GAI_1"
  <2>1. disc_chrc_uuid("CHR_NOTIFY") \in From(t, cl, "start", "chr_in")
    BY <1>16, DiscChrcUuid DEF Straight, ChrUuid, Subscribes
  <2>2. Find("chr", "CHR_NOTIFY") \in From(t, cl, "chr_in", "chr")
    BY <1>16, FindChr DEF Inside, Straight, ChrUuid, Subscribes
  <2>3. FindEnd \in From(t, cl, "chr", "end")
    BY <1>16, FindEnds DEF Deep
  <2>4. disc_all_desc \in From(t, cl, "end", "dsc_in")
    BY <1>16, DiscAllDesc DEF Deep
  <2>5. Find("dsc", "CCC") \in From(t, cl, "dsc_in", "dsc")
    BY <1>16, FindDsc DEF Deep, DscUuid, Subscribes
  <2>6. cfg_indicate \in From(t, cl, "dsc", "cfg_verify")
    BY <1>16, Access_cfg_indicate
  <2>7. verify_notification_ev \in From(t, cl, "cfg_verify", "done")
    BY <1>16, NotificationVerified DEF Subscribes
  <2>8. disconnection_procedure \in From(t, cl, "done", "over")
    BY <1>16, Disconnected DEF LastPhase
  <2>9. Subscription \in From(t, cl, "start", "dsc")
    BY <2>1, <2>2, <2>3, <2>4, <2>5, FromJoined DEF Subscription
  <2>10. QED
    BY <1>16, <2>9, <2>6, <2>7, <2>8, FromJoined DEF Program, test_btp_GATT_CL_GAI_1
<1>17. QED
  BY <1>1, <1>2, <1>3, <1>4, <1>5, <1>6, <1>7, <1>8, <1>9, <1>10, <1>11, <1>12, <1>13, <1>14, <1>15, <1>16 DEF Tests

LEMMA ProgramSame ==
    ASSUME cl' = cl, test' = test
    PROVE  Program(test)' = Program(test)
BY DEF Step, Send, ReadRsp, Wait, gattc_disc_prim_svcs, gattc_disc_prim_uuid,
       gattc_find_included, gattc_disc_all_chrc, gattc_disc_chrc_uuid, gattc_disc_all_desc,
       gattc_read, gattc_read_long, gattc_write, gattc_write_long, gattc_cfg_notify,
       gattc_cfg_indicate, gattc_disc_prim_svcs_rsp, gattc_disc_prim_uuid_rsp,
       gattc_find_included_rsp, gattc_disc_all_chrc_rsp, gattc_disc_chrc_uuid_rsp,
       gattc_disc_all_desc_rsp, gattc_read_rsp, gattc_read_long_rsp, gattc_write_rsp,
       gattc_write_long_rsp, gatt_cl_command_rsp_succ, gatt_cl_disc_prim_svcs,
       gatt_cl_disc_prim_uuid, gatt_cl_find_included, gatt_cl_disc_all_chrc,
       gatt_cl_disc_chrc_uuid, gatt_cl_disc_all_desc, gatt_cl_read, gatt_cl_read_long,
       gatt_cl_write, gatt_cl_write_long, gatt_cl_cfg_notify, gatt_cl_cfg_indicate,
       disc_prim_svcs, disc_prim_uuid, find_included_svcs, disc_all_chrc, disc_chrc_uuid,
       disc_all_desc, FirstValue, AssertNoError, read, read_long,
       gatts_attr_value_changed_ev, WaitFutures, write, write_long, gattc_notification_ev,
       cfg_notify, cfg_indicate, Find, FindEnd, test_btp_GATT_CL_GAD_1,
       test_btp_GATT_CL_GAD_2, test_btp_GATT_CL_GAD_3, test_btp_GATT_CL_GAD_4,
       test_btp_GATT_CL_GAD_5, Descriptor, test_btp_GATT_CL_GAD_6, test_btp_GATT_CL_GAR_1,
       test_btp_GATT_CL_GAR_2, test_btp_GATT_CL_GAR_3, test_btp_GATT_CL_GAR_4,
       test_btp_GATT_CL_GAW_1, test_btp_GATT_CL_GAW_2, test_btp_GATT_CL_GAW_3,
       test_btp_GATT_CL_GAW_4, Subscription, verify_notification_ev, test_btp_GATT_CL_GAN_1,
       test_btp_GATT_CL_GAI_1, disconnection_procedure, Program

\* Where a test is when it stays where it is.
LEMMA PhaseSame ==
    ASSUME cl' = cl, test' = test, pc' = pc
    PROVE  phase' = phase /\ step' = step
BY ProgramSame DEF phase, step

LEMMA RouteIs ==
    ASSUME NEW t, NEW c, NEW p \in From(t, c, "start", "over"), NEW r, r = Route(p, t, c)
    PROVE  /\ p \in Seq(AllStep) /\ Len(p) \in Nat
           /\ \A k \in 1 .. Len(p) : p[k] \in AllStep
           /\ r \in [0 .. Len(p) -> PhasesOf(t, c)] /\ r[0] = "start" /\ r[Len(p)] = "over"
           /\ \A k \in 1 .. Len(p) : Moves(t, c, r[k - 1], p[k], r[k])
<1>1. p \in Seq(AllStep) /\ Passage(t, c, p, "start", "over")
  BY DEF From
<1>2. \E f \in [0 .. Len(p) -> PhasesOf(t, c)] :
         /\ f[0] = "start" /\ f[Len(p)] = "over"
         /\ \A k \in 1 .. Len(p) : Moves(t, c, f[k - 1], p[k], f[k])
  BY <1>1 DEF Passage
<1>3. /\ r \in [0 .. Len(p) -> PhasesOf(t, c)] /\ r[0] = "start" /\ r[Len(p)] = "over"
      /\ \A k \in 1 .. Len(p) : Moves(t, c, r[k - 1], p[k], r[k])
  BY <1>2 DEF Route
<1>4. Len(p) \in Nat /\ \A k \in 1 .. Len(p) : p[k] \in AllStep
  BY <1>1, LenProperties, ElementOfSeq
<1>5. QED
  BY <1>1, <1>3, <1>4

\* No step begins in the last phase, and only loops come back to an earlier one.
LEMMA MovesFrom ==
    ASSUME NEW t, NEW c, NEW s, NEW from, NEW to, Moves(t, c, from, s, to)
    PROVE  /\ from # "over" /\ to # "start"
           /\ to = "inc_sent" /\ ~c => from = "inc_next"
           /\ from = "inc_next" => to = "inc_sent"
           /\ from = "inc_sent" /\ ~c => to = "inc_in"
           /\ s.do = "services" => ~c /\ t = "GAD_3" /\ from = "svc_in" /\ to = "inc_next"
BY DEF Moves, SendMoves, RspMoves, WaitMoves, FindMoves, ResetMoves, AssertMoves, LastPhase

\* Where a test is, and where its step takes it.
LEMMA PhaseMoves ==
    ASSUME test \in Tests, cl \in BOOLEAN, pc \in 1 .. Len(Program(test)) + 1
    PROVE  /\ phase \in PhasesOf(test, cl)
           /\ pc = 1 => phase = "start"
           /\ pc = Len(Program(test)) + 1 <=> phase = "over"
           /\ phase # "over" =>
                 /\ step \in AllStep
                 /\ \E next \in PhasesOf(test, cl) :
                       /\ Moves(test, cl, phase, step, next)
                       /\ cl' = cl /\ test' = test /\ pc' = pc + 1 =>
                             phase' = next /\ pc' \in 1 .. Len(Program(test))' + 1
           /\ phase = "inc_sent" /\ ~cl /\ cl' = cl /\ test' = test /\ pc' = pc - 1 =>
                 phase' = "inc_next" /\ pc' \in 1 .. Len(Program(test))' + 1
           /\ phase # "over" /\ step.do = "services" /\ cl' = cl /\ test' = test /\ pc' = pc + 3 =>
                 phase' = "inc_in" /\ pc' \in 1 .. Len(Program(test))' + 1
<1>1. PICK p, r, n : p = Program(test) /\ r = Route(p, test, cl) /\ n = Len(p)
  OBVIOUS
<1>2. /\ n \in Nat /\ \A k \in 1 .. n : p[k] \in AllStep
      /\ r \in [0 .. n -> PhasesOf(test, cl)] /\ r[0] = "start" /\ r[n] = "over"
      /\ \A k \in 1 .. n : Moves(test, cl, r[k - 1], p[k], r[k])
  <2>1. p \in From(test, cl, "start", "over")
    BY <1>1, ProgramPassage
  <2>2. QED
    BY <1>1, <2>1, RouteIs
<1>3. /\ phase = r[pc - 1] /\ step = p[pc]
      /\ cl' = cl /\ test' = test => phase' = r[pc' - 1] /\ Len(Program(test))' = n
  BY <1>1, ProgramSame DEF phase, step
<1>4. /\ pc \in 1 .. n + 1 /\ pc - 1 \in 0 .. n
      /\ pc # n + 1 => pc \in 1 .. n /\ pc \in 0 .. n /\ pc + 1 \in 1 .. n + 1 /\ (pc + 1) - 1 = pc
  BY <1>1, <1>2
<1>5. \A k \in 1 .. n :
         /\ Moves(test, cl, r[k - 1], p[k], r[k]) /\ r[k - 1] # "over" /\ r[k] # "start"
         /\ r[k] = "inc_sent" /\ ~cl => r[k - 1] = "inc_next"
         /\ r[k - 1] = "inc_next" => r[k] = "inc_sent"
         /\ r[k - 1] = "inc_sent" /\ ~cl => r[k] = "inc_in"
         /\ p[k].do = "services" => ~cl /\ r[k] = "inc_next"
  BY <1>2, MovesFrom
<1>6. phase \in PhasesOf(test, cl)
  BY <1>2, <1>3, <1>4
<1>7. pc = 1 => phase = "start"
  BY <1>2, <1>3
<1>8. pc = n + 1 <=> phase = "over"
  <2>1. CASE pc = n + 1
    BY <1>2, <1>3, <2>1
  <2>2. CASE pc # n + 1
    BY <1>3, <1>4, <1>5, <2>2
  <2>3. QED
    BY <2>1, <2>2
<1>9. ASSUME phase # "over"
      PROVE  /\ step \in AllStep /\ Moves(test, cl, phase, step, r[pc]) /\ r[pc] \in PhasesOf(test, cl)
             /\ cl' = cl /\ test' = test /\ pc' = pc + 1 =>
                   phase' = r[pc] /\ pc' \in 1 .. Len(Program(test))' + 1
  BY <1>2, <1>3, <1>4, <1>5, <1>8, <1>9
<1>10. ASSUME phase = "inc_sent", ~cl, cl' = cl, test' = test, pc' = pc - 1
       PROVE  phase' = "inc_next" /\ pc' \in 1 .. Len(Program(test))' + 1
  <2>1. pc - 1 \in 1 .. n /\ pc - 1 \in 1 .. n + 1
    BY <1>2, <1>4, <1>7, <1>10
  <2>2. r[pc - 1] = "inc_sent"
    BY <1>3, <1>10
  <2>3. r[(pc - 1) - 1] = "inc_next"
    BY <1>5, <1>10, <2>1, <2>2
  <2>4. QED
    BY <1>3, <1>10, <2>1, <2>3
<1>11. ASSUME phase # "over", step.do = "services", cl' = cl, test' = test, pc' = pc + 3
       PROVE  phase' = "inc_in" /\ pc' \in 1 .. Len(Program(test))' + 1
  <2>1. pc \in 1 .. n /\ r[pc] = "inc_next" /\ ~cl
    BY <1>3, <1>4, <1>5, <1>8, <1>11
  <2>2. pc # n
    BY <1>2, <2>1
  <2>3. pc + 1 \in 1 .. n /\ (pc + 1) - 1 = pc
    BY <1>2, <2>1, <2>2
  <2>4. r[pc + 1] = "inc_sent"
    BY <1>5, <2>1, <2>3
  <2>5. pc + 1 # n
    BY <1>2, <2>4
  <2>6. pc + 2 \in 1 .. n /\ (pc + 2) - 1 = pc + 1 /\ pc + 3 \in 1 .. n + 1 /\ (pc + 3) - 1 = pc + 2
    BY <1>2, <2>3, <2>5
  <2>7. r[pc + 2] = "inc_in"
    BY <1>5, <2>1, <2>4, <2>6
  <2>8. QED
    BY <1>3, <1>11, <2>6, <2>7
<1>12. QED
  BY <1>1, <1>6, <1>7, <1>8, <1>9, <1>10, <1>11

-----------------------------------------------------------------------------
\* The types: the initial state and every step.

LEMMA SeqWider ==
    ASSUME NEW S, NEW T, S \subseteq T, NEW s \in Seq(S)
    PROVE  s \in Seq(T)
<1>1. Len(s) \in Nat /\ s \in [1 .. Len(s) -> S]
  OBVIOUS
<1>2. s \in [1 .. Len(s) -> T]
  BY <1>1
<1>3. QED
  BY <1>1, <1>2

\* The attributes of a server.
LEMMA ServerIs ==
    ASSUME server \in Server
    PROVE  /\ DOMAIN server \subseteq Handle
           /\ \A h \in DOMAIN server :
                 /\ server[h].kind \in Kind /\ server[h].last \in 0 .. MaxHandle
                 /\ h \in Nat /\ 1 <= h /\ h <= MaxHandle /\ h \in 0 .. MaxHandle /\ h # None
           /\ Ordered(server)
<1>1. /\ DOMAIN server \subseteq 1 .. MaxHandle
      /\ \A h \in DOMAIN server : server[h] \in [kind : Kind, uuid : STRING, last : 0 .. MaxHandle]
      /\ Ordered(server)
  BY ServerAssumption
<1>2. \A h \in DOMAIN server : h \in Handle /\ server[h].kind \in Kind /\ server[h].last \in 0 .. MaxHandle
  BY <1>1 DEF Handle
<1>3. QED
  BY <1>1, <1>2, HandleIs

\* The handle of an attribute that is accessed.
LEMMA ValueHandle ==
    ASSUME server \in Server
    PROVE  /\ \A h \in OfKind(server, "chr") :
                 h \in DOMAIN server /\ h \in Handle /\ server[h].last \in Handle /\ h < server[h].last
           /\ \A h \in OfKind(server, "svc") : h \in DOMAIN server /\ h <= server[h].last
           /\ \A h \in OfKind(server, "dsc") : h \in DOMAIN server /\ h \in Handle
<1>1. \A h \in OfKind(server, "chr") : h \in DOMAIN server /\ h < server[h].last
  BY ServerIs DEF Ordered, OfKind
<1>2. \A h \in DOMAIN server : h \in Handle /\ h \in Nat /\ 1 <= h /\ server[h].last \in 0 .. MaxHandle
  BY ServerIs
<1>3. \A h \in OfKind(server, "chr") : server[h].last \in Handle
  BY <1>1, <1>2 DEF Handle
<1>4. \A h \in OfKind(server, "svc") : h \in DOMAIN server /\ h <= server[h].last
  BY ServerIs DEF Ordered, OfKind
<1>5. \A h \in OfKind(server, "dsc") : h \in DOMAIN server
  BY DEF OfKind
<1>6. QED
  BY <1>1, <1>2, <1>3, <1>4, <1>5

LEMMA FoundIs ==
    ASSUME server \in Server, NEW r
    PROVE  /\ Discovered(r) \in Seq(DOMAIN server) /\ Discovered(r) \in Seq(Handle)
           /\ Elements(Discovered(r)) = {h \in OfKind(server, KindOf(r.op)) :
                                           /\ r.lo <= h /\ h <= r.hi
                                           /\ r.uuid \in {"any", server[h].uuid}}
           /\ Discovered(r) # <<>> => Discovered(r)[1] = Lowest(Elements(Discovered(r)))
<1>1. PICK S : S = {h \in OfKind(server, KindOf(r.op)) :
                       r.lo <= h /\ h <= r.hi /\ r.uuid \in {"any", server[h].uuid}}
  OBVIOUS
<1>2. S \in SUBSET Handle /\ S \subseteq DOMAIN server
  BY <1>1, ServerIs DEF OfKind
<1>3. Discovered(r) = Sorted(S)
  BY <1>1 DEF Discovered
<1>4. /\ Sorted(S) \in Seq(S) /\ Elements(Sorted(S)) = S
      /\ Sorted(S) # <<>> => Sorted(S)[1] = Lowest(S)
  BY <1>2, SortedIs
<1>5. Sorted(S) \in Seq(DOMAIN server) /\ Sorted(S) \in Seq(Handle)
  BY <1>2, <1>4, SeqWider
<1>6. QED
  BY <1>1, <1>3, <1>4, <1>5

LEMMA AttStatusIs == AttStatus \in {"no_error", "refused", "unknown"}
BY DEF AttStatus

\* The frames that carry a result.
LEMMA OutcomeIs ==
    ASSUME server \in Server, NEW r \in Requests, NEW type \in {"rsp", "ev"}
    PROVE  /\ FrameOK(Outcome(type, r)) /\ Outcome(type, r) \in Frame
           /\ Outcome(type, r).type = type /\ Outcome(type, r).op = r.op
           /\ r.op \in Command /\ r.op # "notification"
<1>1. PICK f : f = Outcome(type, r)
  OBVIOUS
<1>2. r.op \in Command /\ r.op # "notification" /\ (r.op \in Access => r.lo \in Handle)
  BY DEF Requests, Command
<1>3. /\ f.type = type /\ f.op = r.op
      /\ f.status = IF KindOf(r.op) # "none" THEN "no_error" ELSE AttStatus
      /\ f.found = IF KindOf(r.op) # "none" THEN Discovered(r)
                   ELSE IF r.op \in {"read", "read_long"} /\ att = "ok" THEN <<r.lo>> ELSE <<>>
      /\ f = [type |-> f.type, op |-> f.op, status |-> f.status, found |-> f.found]
  BY <1>1 DEF Outcome
<1>4. f.status \in Statuses
  BY <1>3, AttStatusIs DEF Statuses
<1>5. f.found \in Seq(Handle)
  <2>1. CASE KindOf(r.op) # "none"
    BY <1>3, <2>1, FoundIs
  <2>2. CASE KindOf(r.op) = "none" /\ r.op \in {"read", "read_long"}
    <3>1. r.lo \in Handle
      BY <1>2, <2>2 DEF Access
    <3>2. <<r.lo>> \in Seq(Handle) /\ <<>> \in Seq(Handle)
      BY <3>1
    <3>3. QED
      BY <1>3, <2>2, <3>2
  <2>3. CASE KindOf(r.op) = "none" /\ r.op \notin {"read", "read_long"}
    BY <1>3, <2>3
  <2>4. QED
    BY <2>1, <2>2, <2>3
<1>6. f \in Frame
  BY <1>2, <1>3, <1>4, <1>5 DEF Frame, Handle
<1>7. r.op \in Discovery => KindOf(r.op) # "none"
  BY DEF Discovery, KindOf
<1>8. r.op \in Discovery => f.found \in Seq(DOMAIN server)
  BY <1>3, <1>7, FoundIs
<1>9. QED
  BY <1>1, <1>2, <1>3, <1>6, <1>8 DEF FrameOK

LEMMA StatusIs ==
    ASSUME request \in Requests, NEW s \in Statuses
    PROVE  /\ FrameOK(Status(s)) /\ Status(s) \in Frame
           /\ Status(s).type = "rsp" /\ Status(s).op = request.op /\ Status(s).status = s
           /\ request.op \in Command /\ request.op # "notification"
<1>1. request.op \in Command /\ request.op # "notification"
  BY DEF Requests, Command
<1>2. <<>> \in Seq(1 .. MaxHandle) /\ <<>> \in Seq(DOMAIN server)
  OBVIOUS
<1>3. Status(s) \in Frame
  BY <1>1, <1>2 DEF Status, Frame
<1>4. QED
  BY <1>1, <1>2, <1>3 DEF FrameOK, Status

\* What stays the same when the test stands still.
LEMMA StandStill ==
    ASSUME UNCHANGED <<fixed, testVars>>
    PROVE  /\ test' = test /\ cl' = cl /\ server' = server /\ att' = att
           /\ pc' = pc /\ outcome' = outcome /\ loc' = loc /\ todo' = todo /\ torn' = torn
           /\ phase' = phase /\ step' = step /\ wanted' = wanted
           /\ Program(test)' = Program(test)
           /\ Locals => Locals'
<1>1. /\ test' = test /\ cl' = cl /\ server' = server /\ att' = att
      /\ pc' = pc /\ outcome' = outcome /\ loc' = loc /\ todo' = todo /\ torn' = torn
  BY DEF fixed, testVars
<1>2. phase' = phase /\ step' = step /\ Program(test)' = Program(test)
  BY <1>1, PhaseSame, ProgramSame
<1>3. wanted' = wanted
  BY <1>1, <1>2 DEF wanted, CommandOf
<1>4. Locals => Locals'
  BY <1>1, <1>2 DEF Locals, HasSvc, HasChr, HasDsc
<1>5. QED
  BY <1>1, <1>2, <1>3, <1>4

LEMMA HighestOf ==
    ASSUME NEW S \in SUBSET Handle, S # {}
    PROVE  /\ (CHOOSE h \in S : \A g \in S : g <= h) \in S
           /\ \A g \in S : g <= (CHOOSE h \in S : \A f \in S : f <= h)
<1>1. \A h \in S : h \in Nat /\ h <= MaxHandle
  BY HandleIs
<1>2. PICK T : T = {n \in Nat : \E h \in S : n = MaxHandle - h}
  OBVIOUS
<1>3. \A h \in S : MaxHandle - h \in T
  BY <1>1, <1>2, MaxHandleNat
<1>4. PICK m \in T : \A n \in T : m <= n
  BY <1>2, <1>3, LeastNumber
<1>5. PICK h \in S : m = MaxHandle - h
  BY <1>2, <1>4
<1>6. ASSUME NEW g \in S
      PROVE  g <= h
  <2>1. MaxHandle - h <= MaxHandle - g
    BY <1>3, <1>4, <1>5
  <2>2. QED
    BY <1>1, <1>5, <2>1, MaxHandleNat
<1>7. QED
  BY <1>5, <1>6

\* The value a descriptor belongs to.
LEMMA ValueAboveIs ==
    ASSUME server \in Server, NEW d
    PROVE  /\ ValueAbove(d) \in 0 .. MaxHandle
           /\ ValueAbove(d) # None =>
                 \E c \in OfKind(server, "chr") :
                    /\ c < d /\ ValueAbove(d) = server[c].last
                    /\ \A g \in OfKind(server, "chr") : g < d => g <= c
           /\ (\E c \in OfKind(server, "chr") : c < d) => ValueAbove(d) # None
<1>1. PICK A : A = {h \in OfKind(server, "chr") : h < d}
  OBVIOUS
<1>2. A \in SUBSET Handle
  BY <1>1, ValueHandle
<1>3. CASE A = {}
  <2>1. ValueAbove(d) = None
    BY <1>1, <1>3 DEF ValueAbove
  <2>2. QED
    BY <1>1, <1>3, <2>1, MaxHandleNat DEF None
<1>4. CASE A # {}
  <2>1. PICK c : c = CHOOSE h \in A : \A g \in A : g <= h
    OBVIOUS
  <2>2. c \in A /\ \A g \in A : g <= c
    BY <1>2, <1>4, <2>1, HighestOf
  <2>3. ValueAbove(d) = server[c].last
    BY <1>1, <1>4, <2>1 DEF ValueAbove
  <2>4. c \in OfKind(server, "chr") /\ c < d /\ \A g \in OfKind(server, "chr") : g < d => g <= c
    BY <1>1, <2>2
  <2>5. server[c].last \in Handle
    BY <2>4, ValueHandle
  <2>6. QED
    BY <2>3, <2>4, <2>5, HandleIs
<1>5. QED
  BY <1>3, <1>4

LEMMA TInvInit == Init => TInv
<1> SUFFICES ASSUME Init PROVE TInv
  OBVIOUS
<1>1. /\ test \in Test /\ test \in Tests /\ cl \in BOOLEAN /\ server \in Server /\ pc = 1
      /\ stream = <<>> /\ rspq = <<>> /\ callback = <<>> /\ request = NoRequest /\ todo = <<>>
      /\ outcome = "running" /\ loc.dsc = None /\ db = EmptyDB
  BY TestAssumption DEF Init
<1>2. Len(Program(test)) \in Nat /\ pc \in 1 .. Len(Program(test)) + 1
  <2>1. Program(test) \in Seq(AllStep)
    BY <1>1, ProgramPassage DEF From
  <2>2. Len(Program(test)) \in Nat
    BY <2>1, LenProperties
  <2>3. QED
    BY <1>1, <2>2
<1>3. phase = "start"
  BY <1>1, <1>2, PhaseMoves
<1>4. Typed
  <2>1. loc \in LocRecord
    BY MaxHandleNat DEF Init, LocRecord, None
  <2>2. DOMAIN db = {} /\ db = [h \in DOMAIN db |-> server[h]]
    BY <1>1 DEF EmptyDB
  <2>3. lists \in [Lists -> Nat] /\ counts \in [Lists -> Nat \cup {NoCount}]
    BY DEF Init, NoCount
  <2>4. values \in Seq(Statuses) /\ notes \in Seq(Handle) /\ todo \in Seq(DOMAIN server)
    BY DEF Init
  <2>5. notified \in 0 .. MaxNotes /\ subscribed \in 0 .. MaxHandle
    BY MaxHandleNat, MaxNotesAssumption DEF Init, None
  <2>6. QED
    BY <1>1, <1>2, <2>1, <2>2, <2>3, <2>4, <2>5 DEF Typed, Init
<1>5. Channels
  BY <1>1, ElementsEmpty DEF Channels
<1>6. OneResponse
  BY <1>1, ElementsEmpty, OnceEmpty DEF OneResponse, Under
<1>7. Progress
  BY <1>1, <1>3 DEF Progress
<1>8. Locals
  BY <1>1, <1>3 DEF Locals, HasSvc, HasChr, HasDsc
<1>9. NoteBound
  <2>1. Len(notes) = 0 /\ notified = 0 /\ Elements(callback) = {} /\ CountIn(Notifications, stream) = 0
    BY <1>1, ElementsEmpty, CountEmpty DEF Init
  <2>2. QED
    BY <2>1 DEF NoteBound, Noted
<1>10. QED
  BY <1>4, <1>5, <1>6, <1>7, <1>8, <1>9 DEF TInv

\* A frame that carries no notification is sent.
LEMMA FrameSent ==
    ASSUME Channels, NEW f \in Frame, stream' = Append(stream, f)
    PROVE  /\ stream' \in Seq(Frame) /\ Elements(stream') = Elements(stream) \cup {f}
           /\ \A X : Under(X)' <=> (Under(X) \/ f \in X)
           /\ \A X : Once(X, stream) /\ (f \in X => ~Under(X)) => Once(X, stream')
           /\ CountIn(Notifications, stream) \in Nat
           /\ CountIn(Notifications, stream') =
                 CountIn(Notifications, stream) + IF f.op = "notification" THEN 1 ELSE 0
<1>1. stream \in Seq(Frame)
  BY DEF Channels
<1>2. stream' \in Seq(Frame) /\ Elements(stream') = Elements(stream) \cup {f}
  BY <1>1, ElementsAppend
<1>3. \A X : Under(X)' <=> (Under(X) \/ f \in X)
  BY <1>2 DEF Under
<1>4. \A X : Once(X, stream) /\ (f \in X => ~Under(X)) => Once(X, stream')
  <2>1. ASSUME NEW X, Once(X, stream), f \in X => ~Under(X)
        PROVE  Once(X, Append(stream, f))
    BY <1>1, <2>1, OnceGrows DEF Under
  <2>2. QED
    BY <2>1
<1>5. f \in Notifications <=> f.op = "notification"
  BY DEF Notifications
<1>6. QED
  BY <1>1, <1>2, <1>3, <1>4, <1>5, CountGrows

LEMMA NotedNat ==
    ASSUME Typed
    PROVE  Noted \in Nat /\ notified \in Nat
<1>1. Len(notes) \in Nat /\ notified \in Nat
  BY LenProperties, MaxNotesAssumption DEF Typed
<1>2. QED
  BY <1>1 DEF Noted

LEMMA EffectTyped ==
    ASSUME server \in Server, subscribed \in 0 .. MaxHandle, NEW r, Effect(r)
    PROVE  changed' \in BOOLEAN /\ subscribed' \in 0 .. MaxHandle
BY ValueAboveIs DEF Effect

LEMMA TAnswer ==
    ASSUME TInv, Answer
    PROVE  TInv'
<1>1. /\ UNCHANGED <<fixed, testVars>> /\ db' = db /\ rspq' = rspq /\ future' = future
      /\ lists' = lists /\ counts' = counts /\ values' = values /\ written' = written /\ notes' = notes
      /\ callback' = callback /\ dead' = dead /\ air' = air /\ notified' = notified /\ missed' = missed
      /\ request' = NoRequest /\ request # NoRequest
  BY DEF Answer, iutsKeep, clVars, rxVars
<1>2. /\ test' = test /\ cl' = cl /\ server' = server /\ att' = att
      /\ pc' = pc /\ outcome' = outcome /\ loc' = loc /\ todo' = todo /\ torn' = torn
      /\ phase' = phase /\ wanted' = wanted /\ Program(test)' = Program(test) /\ (Locals => Locals')
  BY <1>1, StandStill
<1>3. request \in Requests /\ server \in Server /\ subscribed \in 0 .. MaxHandle /\ busy \in Requests \cup {NoRequest}
      /\ changed \in BOOLEAN
  BY <1>1 DEF TInv, Typed
<1>4. PICK f : /\ stream' = Append(stream, f) /\ FrameOK(f) /\ f \in Frame /\ f.type = "rsp"
               /\ f.op = request.op /\ f.op # "notification"
  <2>1. "error" \in Statuses /\ "success" \in Statuses
    BY DEF Statuses
  <2>2. CASE stream' = Append(stream, Status("error"))
    BY <1>3, <2>1, <2>2, StatusIs
  <2>3. CASE stream' = Append(stream, Status("success"))
    BY <1>3, <2>1, <2>3, StatusIs
  <2>4. CASE stream' = Append(stream, Outcome("rsp", request))
    BY <1>3, <2>4, OutcomeIs
  <2>5. QED
    BY <2>2, <2>3, <2>4 DEF Answer
<1>5. /\ stream' \in Seq(Frame) /\ Elements(stream') = Elements(stream) \cup {f}
      /\ \A X : Under(X)' <=> (Under(X) \/ f \in X)
      /\ \A X : Once(X, stream) /\ (f \in X => ~Under(X)) => Once(X, stream')
      /\ CountIn(Notifications, stream') = CountIn(Notifications, stream)
  <2>1. CountIn(Notifications, stream) \in Nat
        /\ CountIn(Notifications, stream') = CountIn(Notifications, stream) + 0
    BY <1>4, FrameSent DEF TInv
  <2>2. QED
    BY <1>4, <2>1, FrameSent DEF TInv
<1>6. Typed'
  <2>1. busy' \in Requests \cup {NoRequest} /\ changed' \in BOOLEAN /\ subscribed' \in 0 .. MaxHandle
    BY <1>3, EffectTyped DEF Answer
  <2>2. QED
    BY <1>1, <1>2, <2>1 DEF TInv, Typed
<1>7. Channels'
  BY <1>1, <1>2, <1>4, <1>5 DEF TInv, Channels, FrameOK, StatementOK
<1>8. OneResponse'
  <2>1. phase \in Sent /\ request = wanted /\ rspq = <<>> /\ ~Under(Responses)
    BY <1>1 DEF TInv, OneResponse
  <2>2. Responses' = Responses
    BY DEF Responses
  <2>3. Once(Responses, stream')
    BY <1>5, <2>1 DEF TInv, OneResponse
  <2>4. \A g \in Elements(stream') : g \in Responses => g.op = wanted.op
    BY <1>4, <1>5, <2>1 DEF Under
  <2>5. QED
    BY <1>1, <1>2, <2>1, <2>3, <2>4 DEF OneResponse
<1>9. Progress'
  BY <1>1, <1>2 DEF TInv, Progress
<1>10. NoteBound'
  BY <1>1, <1>5 DEF TInv, NoteBound, Noted
<1>11. QED
  BY <1>2, <1>6, <1>7, <1>8, <1>9, <1>10 DEF TInv

\* What the peers leave to the test and to the receive thread.
LEMMA IutsKeep ==
    ASSUME UNCHANGED iutsKeep
    PROVE  /\ test' = test /\ cl' = cl /\ server' = server /\ att' = att
           /\ pc' = pc /\ outcome' = outcome /\ loc' = loc /\ todo' = todo /\ torn' = torn
           /\ phase' = phase /\ step' = step /\ wanted' = wanted /\ Program(test)' = Program(test)
           /\ Locals => Locals'
           /\ db' = db /\ rspq' = rspq /\ future' = future
           /\ lists' = lists /\ counts' = counts /\ values' = values /\ written' = written
           /\ notes' = notes /\ callback' = callback /\ dead' = dead
           /\ Noted' = Noted
<1>1. /\ UNCHANGED <<fixed, testVars>>
      /\ db' = db /\ rspq' = rspq /\ future' = future
      /\ lists' = lists /\ counts' = counts /\ values' = values /\ written' = written
      /\ notes' = notes /\ callback' = callback /\ dead' = dead
  BY DEF iutsKeep, clVars, rxVars
<1>2. Noted' = Noted
  BY <1>1 DEF Noted
<1>3. QED
  BY <1>1, <1>2, StandStill

\* An event of the central.
LEMMA EventSent ==
    ASSUME TInv, UNCHANGED iutsKeep, NEW f \in Frame, FrameOK(f), f.type = "ev",
           stream' = Append(stream, f), request' = request
    PROVE  Channels' /\ OneResponse' /\ Elements(stream') = Elements(stream) \cup {f}
<1>1. /\ stream' \in Seq(Frame) /\ Elements(stream') = Elements(stream) \cup {f}
      /\ \A X : Under(X)' <=> (Under(X) \/ f \in X)
      /\ \A X : Once(X, stream) /\ (f \in X => ~Under(X)) => Once(X, stream')
  BY FrameSent DEF TInv
<1>2. f \notin Responses
  BY DEF Responses
<1>3. Under(Responses)' <=> Under(Responses)
  BY <1>1, <1>2 DEF Responses
<1>4. Once(Responses, stream')
  BY <1>1, <1>2 DEF TInv, OneResponse
<1>5. \A g \in Elements(stream') : g \in Responses => g \in Elements(stream)
  BY <1>1, <1>2
<1>6. OneResponse'
  BY <1>3, <1>4, <1>5, IutsKeep DEF TInv, OneResponse
<1>7. Channels'
  BY <1>1, IutsKeep DEF TInv, Channels, FrameOK, StatementOK
<1>8. QED
  BY <1>1, <1>6, <1>7

LEMMA TReport ==
    ASSUME TInv, Report
    PROVE  TInv'
<1>1. /\ UNCHANGED iutsKeep /\ air' = air /\ request' = request /\ notified' = notified
      /\ missed' = missed /\ busy' = NoRequest /\ busy # NoRequest
      /\ stream' = Append(stream, Outcome("ev", busy)) /\ Effect(busy)
  BY DEF Report
<1>2. busy \in Requests /\ server \in Server /\ subscribed \in 0 .. MaxHandle
  BY <1>1 DEF TInv, Typed
<1>3. PICK f : f = Outcome("ev", busy)
  OBVIOUS
<1>4. f \in Frame /\ FrameOK(f) /\ f.type = "ev" /\ f.op # "notification"
  BY <1>2, <1>3, OutcomeIs
<1>5. Channels' /\ OneResponse'
  BY <1>1, <1>3, <1>4, EventSent
<1>6. CountIn(Notifications, stream') = CountIn(Notifications, stream)
  <2>1. CountIn(Notifications, stream) \in Nat
        /\ CountIn(Notifications, stream') = CountIn(Notifications, stream) + 0
    BY <1>1, <1>3, <1>4, FrameSent DEF TInv
  <2>2. QED
    BY <2>1
<1>7. Typed'
  <2>1. changed' \in BOOLEAN /\ subscribed' \in 0 .. MaxHandle
    BY <1>1, <1>2, EffectTyped
  <2>2. QED
    BY <1>1, <2>1, IutsKeep DEF TInv, Typed
<1>8. Progress' /\ Locals' /\ NoteBound'
  BY <1>1, <1>6, IutsKeep DEF TInv, Progress, NoteBound, Notifications
<1>9. QED
  BY <1>5, <1>7, <1>8 DEF TInv

\* The frame of a notification.
NotificationIs(f) ==
    /\ f \in Frame /\ f.type = "ev" /\ f.op = "notification" /\ stream' = Append(stream, f)
    /\ f.found = <<subscribed>> \/ (f.found = <<>> /\ att = "empty")

LEMMA NotifyIs ==
    ASSUME TInv, Notify
    PROVE  \E f : NotificationIs(f)
<1>1. PICK found \in {<<subscribed>>} \cup (IF att = "empty" THEN {<<>>} ELSE {}) :
          stream' = Append(stream, [type |-> "ev", op |-> "notification",
                                    status |-> "no_error", found |-> found])
  BY DEF Notify
<1>2. PICK f : f = [type |-> "ev", op |-> "notification", status |-> "no_error", found |-> found]
  OBVIOUS
<1>3. subscribed \in 1 .. MaxHandle
  BY MaxHandleNat DEF Notify, CanNotify, TInv, Typed, None
<1>4. <<subscribed>> \in Seq(1 .. MaxHandle) /\ <<>> \in Seq(1 .. MaxHandle)
  BY <1>3
<1>5. f \in Frame
  BY <1>1, <1>2, <1>4 DEF Frame, Statuses
<1>6. QED
  BY <1>1, <1>2, <1>5 DEF NotificationIs

LEMMA TNotify ==
    ASSUME TInv, Notify
    PROVE  TInv'
<1>1. PICK f : NotificationIs(f)
  BY NotifyIs
<1>2. /\ UNCHANGED iutsKeep /\ air' = air /\ request' = request /\ notified' = notified + 1
      /\ missed' = missed /\ busy' = busy /\ changed' = changed /\ subscribed' = subscribed
      /\ stream' = Append(stream, f) /\ subscribed # None /\ notified < MaxNotes
  BY <1>1 DEF Notify, CanNotify, NotificationIs
<1>3. f \in Frame /\ FrameOK(f) /\ f.type = "ev" /\ f.op = "notification"
  BY <1>1 DEF NotificationIs, FrameOK, Discovery
<1>4. Channels' /\ OneResponse'
  BY <1>2, <1>3, EventSent
<1>5. CountIn(Notifications, stream) \in Nat
      /\ CountIn(Notifications, stream') = CountIn(Notifications, stream) + 1
  BY <1>2, <1>3, FrameSent DEF TInv
<1>6. Noted \in Nat /\ notified \in Nat /\ MaxNotes \in Nat
  BY NotedNat, MaxNotesAssumption DEF TInv
<1>7. Typed'
  <2>1. notified' \in 0 .. MaxNotes
    BY <1>2, <1>6
  <2>2. QED
    BY <1>2, <2>1, IutsKeep DEF TInv, Typed
<1>8. Progress' /\ Locals'
  BY <1>2, IutsKeep DEF TInv, Progress
<1>9. NoteBound'
  BY <1>2, <1>5, <1>6, IutsKeep DEF TInv, NoteBound, Notifications
<1>10. QED
  BY <1>4, <1>7, <1>8, <1>9 DEF TInv

\* The link and the report of a write are nothing to the frames.
LEMMA TAside ==
    ASSUME TInv, UNCHANGED iutsKeep \/ UNCHANGED <<fixed, testVars, db, clVars, rspq, rxVars>>,
           stream' = stream, request' = request, notified' = notified, subscribed' = subscribed,
           air' \in {"linked", "lost", "crashed"}, air' = air \/ outcome = "running",
           busy' \in {busy, NoRequest}, changed' \in BOOLEAN, missed' \in BOOLEAN,
           future' \in {future, "done"}
    PROVE  TInv'
<1>1. UNCHANGED <<fixed, testVars>> /\ UNCHANGED <<db, clVars, rspq, rxVars>>
  BY DEF iutsKeep
<1>2. /\ test' = test /\ cl' = cl /\ server' = server /\ att' = att
      /\ pc' = pc /\ outcome' = outcome /\ loc' = loc /\ todo' = todo /\ torn' = torn
      /\ phase' = phase /\ wanted' = wanted /\ Program(test)' = Program(test) /\ (Locals => Locals')
  BY <1>1, StandStill
<1>3. /\ db' = db /\ rspq' = rspq
      /\ lists' = lists /\ counts' = counts /\ values' = values /\ written' = written
      /\ notes' = notes /\ callback' = callback /\ dead' = dead
  BY <1>1 DEF clVars, rxVars
<1>4. Typed'
  BY <1>2, <1>3 DEF TInv, Typed
<1>5. Channels'
  BY <1>2, <1>3 DEF TInv, Channels, FrameOK, StatementOK
<1>6. OneResponse'
  BY <1>2, <1>3 DEF TInv, OneResponse, Under, Responses
<1>7. Progress'
  BY <1>2 DEF TInv, Progress
<1>8. NoteBound'
  BY <1>3 DEF TInv, NoteBound, Noted, Notifications
<1>9. QED
  BY <1>2, <1>4, <1>5, <1>6, <1>7, <1>8 DEF TInv

LEMMA TLoseLink ==
    ASSUME TInv, NEW how \in {"lost", "crashed"}, LoseLink(how)
    PROVE  TInv'
<1>1. changed \in BOOLEAN /\ missed \in BOOLEAN
  BY DEF TInv, Typed
<1>2. future' = future
  BY IutsKeep DEF LoseLink
<1>3. QED
  BY <1>1, <1>2, TAside DEF LoseLink

LEMMA TPeripheralRx ==
    ASSUME TInv, PeripheralRx
    PROVE  TInv'
<1>1. changed \in BOOLEAN /\ missed \in BOOLEAN /\ air \in {"linked", "lost", "crashed"}
  BY DEF TInv, Typed
<1>2. missed' \in BOOLEAN /\ future' \in {future, "done"} /\ changed' \in BOOLEAN
  BY <1>1 DEF PeripheralRx
<1>3. QED
  BY <1>1, <1>2, TAside DEF PeripheralRx

LEMMA CallbackOK ==
    ASSUME server \in Server, NEW f, FrameOK(f)
    PROVE  /\ Callback(f) \in Seq(AnyStatement)
           /\ \A s \in Elements(Callback(f)) :
                 StatementOK(s) /\ (s.do = "notification" <=> f.op = "notification")
           /\ f.op = "notification" => Callback(f) = <<>> \/ Len(Callback(f)) = 1
<1>1. f \in Frame /\ f.op \in Discovery \cup Access \cup {"notification"} /\ f.status \in Statuses
  BY DEF FrameOK, Frame, Command, Discovery, Access
<1>2. CASE f.op \in Discovery
  <2>1. PICK list : list = ListFor(f.op)
    OBVIOUS
  <2>2. /\ list \in Lists /\ Callback(f) \in Seq(AnyStatement)
        /\ Elements(Callback(f)) \subseteq ListStatements(list, f.found)
    BY <1>1, <1>2, <2>1, CallbackDelivers DEF Delivers, Part
  <2>3. \A h \in Elements(f.found) : h \in DOMAIN server
    BY <1>2, ElementsTyped DEF FrameOK
  <2>4. \A s \in ListStatements(list, f.found) :
            /\ s.do \in {"list", "append", "count", "add"} /\ s.of = list
            /\ s.do = "add" => s.n \in DOMAIN server
    BY <2>3 DEF ListStatements, Statement
  <2>5. \A s \in ListStatements(list, f.found) : StatementOK(s) /\ s.do # "notification"
    BY <2>2, <2>4 DEF StatementOK
  <2>6. f.op # "notification"
    BY <1>2 DEF Discovery
  <2>7. QED
    BY <2>2, <2>5, <2>6
<1>3. CASE f.op \in Access
  <2>1. /\ Callback(f) \in Seq(AnyStatement)
        /\ Elements(Callback(f)) \subseteq
              {Statement("write_status", "", 0), clear_verify_values, add_to_verify_values(f.status)}
    BY <1>1, <1>3, CallbackAccess
  <2>2. \A s \in Elements(Callback(f)) :
            /\ s.do \in {"write_status", "clear", "value"}
            /\ s.do = "value" => s.of \in Statuses
    <3>1. PICK w, c, v : /\ w = Statement("write_status", "", 0) /\ c = clear_verify_values
                         /\ v = add_to_verify_values(f.status)
      OBVIOUS
    <3>2. w.do = "write_status" /\ c.do = "clear" /\ v.do = "value" /\ v.of = f.status
      BY <3>1 DEF Statement, clear_verify_values, add_to_verify_values
    <3>3. QED
      BY <1>1, <2>1, <3>1, <3>2
  <2>3. \A s \in Elements(Callback(f)) : StatementOK(s) /\ s.do # "notification"
    BY <2>2 DEF StatementOK
  <2>4. f.op # "notification"
    BY <1>3 DEF Access
  <2>5. QED
    BY <2>1, <2>3, <2>4
<1>4. CASE f.op = "notification"
  <2> SUFFICES ASSUME f.found # <<>>
               PROVE  /\ Callback(f) \in Seq(AnyStatement) /\ Len(Callback(f)) = 1
                      /\ \A s \in Elements(Callback(f)) : StatementOK(s) /\ s.do = "notification"
    <3>1. <<>> \in Seq(AnyStatement)
      OBVIOUS
    <3>2. f.found = <<>> => Callback(f) = <<>>
      BY <1>1, <1>4, CallbackNotification
    <3>3. QED
      BY <1>4, <3>1, <3>2, ElementsEmpty
  <2>1. f.found \in Seq(Handle) /\ f.found # <<>>
    BY <1>1, <1>4 DEF FrameOK, Frame, Handle
  <2>2. PICK n : n = f.found[1]
    OBVIOUS
  <2>3. n \in Handle /\ n \in Nat
    BY <2>1, <2>2, ElementsTail, HandleIs
  <2>4. PICK s : s = Statement("notification", "", n)
    OBVIOUS
  <2>5. s \in AnyStatement /\ s.do = "notification" /\ s.n = n
    BY <2>3, <2>4 DEF Statement, AnyStatement
  <2>6. Callback(f) = <<s>>
    BY <1>1, <1>4, <2>1, <2>2, <2>4, CallbackNotification
  <2>7. StatementOK(s)
    BY <2>3, <2>5 DEF StatementOK
  <2>8. Elements(Callback(f)) = {s} /\ Len(Callback(f)) = 1
    BY <2>6, ElementsOne
  <2>9. Callback(f) \in Seq(AnyStatement)
    BY <2>5, <2>6
  <2>10. QED
    BY <1>4, <2>5, <2>7, <2>8, <2>9
<1>5. QED
  BY <1>1, <1>2, <1>3, <1>4

\* The frame in front of the receive thread, and those that stay behind it.
LEMMA FrameTaken ==
    ASSUME Channels, stream # <<>>, stream' = Tail(stream)
    PROVE  /\ Head(stream) \in Elements(stream) /\ Head(stream) \in Frame /\ FrameOK(Head(stream))
           /\ Elements(stream) = Elements(stream') \cup {Head(stream)}
           /\ stream' \in Seq(Frame)
           /\ \A X : Under(X) <=> (Under(X)' \/ Head(stream) \in X)
           /\ \A X : Once(X, stream) => Once(X, stream') /\ (Head(stream) \in X => ~Under(X)')
           /\ CountIn(Notifications, stream) \in Nat /\ CountIn(Notifications, stream') \in Nat
           /\ CountIn(Notifications, stream) =
                 CountIn(Notifications, stream') + IF Head(stream).op = "notification" THEN 1 ELSE 0
<1>1. stream \in Seq(Frame) /\ \A f \in Elements(stream) : FrameOK(f)
  BY DEF Channels
<1>2. PICK f : f = Head(stream)
  OBVIOUS
<1>3. f \in Frame /\ stream' \in Seq(Frame) /\ Elements(stream) = Elements(stream') \cup {f}
  BY <1>1, <1>2, ElementsTail
<1>4. \A X : Under(X) <=> (Under(X)' \/ f \in X)
  BY <1>3 DEF Under
<1>5. \A X : Once(X, stream) => Once(X, stream') /\ (f \in X => ~Under(X)')
  <2>1. ASSUME NEW X, Once(X, stream)
        PROVE  Once(X, Tail(stream)) /\ (f \in X => \A g \in Elements(Tail(stream)) : g \notin X)
    BY <1>1, <1>2, <2>1, OnceShrinks
  <2>2. QED
    BY <2>1 DEF Under
<1>6. f \in Notifications <=> f.op = "notification"
  BY <1>3 DEF Notifications
<1>7. QED
  BY <1>1, <1>2, <1>3, <1>4, <1>5, <1>6, CountShrinks

\* What the receive thread leaves to the test and the peers.
LEMMA RxKeeps ==
    ASSUME UNCHANGED rxKeeps
    PROVE  /\ test' = test /\ cl' = cl /\ server' = server /\ att' = att
           /\ pc' = pc /\ outcome' = outcome /\ loc' = loc /\ todo' = todo /\ torn' = torn
           /\ phase' = phase /\ step' = step /\ wanted' = wanted /\ Program(test)' = Program(test)
           /\ Locals => Locals'
           /\ air' = air /\ request' = request /\ busy' = busy /\ subscribed' = subscribed
           /\ notified' = notified /\ changed' = changed /\ missed' = missed
<1>1. /\ UNCHANGED <<fixed, testVars>>
      /\ air' = air /\ request' = request /\ busy' = busy /\ subscribed' = subscribed
      /\ notified' = notified /\ changed' = changed /\ missed' = missed
  BY DEF rxKeeps, airVars
<1>2. QED
  BY <1>1, StandStill

LEMMA TRxFrame ==
    ASSUME TInv, RxFrame
    PROVE  TInv'
<1>1. PICK f : f = Head(stream)
  OBVIOUS
<1>2. /\ callback = <<>> /\ stream # <<>> /\ stream' = Tail(stream) /\ UNCHANGED rxKeeps
      /\ db' = db /\ dead' = dead
      /\ lists' = lists /\ counts' = counts /\ values' = values /\ written' = written /\ notes' = notes
      /\ \/ f.type = "rsp" /\ rspq' = Append(rspq, f) /\ future' = future /\ callback' = callback
         \/ f.type = "ev" /\ callback' = Callback(f) /\ rspq' = rspq /\ future' = future
         \/ f.type = "ev" /\ future' \in {future, "done"} /\ rspq' = rspq /\ callback' = callback
  BY <1>1 DEF RxFrame, clVars
<1>3. /\ f \in Elements(stream) /\ f \in Frame /\ FrameOK(f) /\ stream' \in Seq(Frame)
      /\ Elements(stream) = Elements(stream') \cup {f}
      /\ \A X : Under(X) <=> (Under(X)' \/ f \in X)
      /\ \A X : Once(X, stream) => Once(X, stream') /\ (f \in X => ~Under(X)')
      /\ CountIn(Notifications, stream) \in Nat /\ CountIn(Notifications, stream') \in Nat
      /\ CountIn(Notifications, stream) =
            CountIn(Notifications, stream') + IF f.op = "notification" THEN 1 ELSE 0
  BY <1>1, <1>2, FrameTaken DEF TInv
<1>4. server \in Server /\ Once(Responses, stream) /\ rspq \in Seq(Frame)
  BY DEF TInv, Typed, Channels, OneResponse
<1>5. Typed'
  BY <1>2, RxKeeps DEF TInv, Typed
<1>6. f \in Responses => rspq = <<>> /\ phase \in Sent /\ request = NoRequest /\ f.op = wanted.op
                         /\ ~Under(Responses)'
  BY <1>3, <1>4 DEF TInv, OneResponse, Under
<1>7. f.type = "rsp" <=> f \in Responses
  BY <1>3 DEF Responses
<1>8. f.type = "rsp" => rspq' = <<f>>
  <2>1. Append(<<>>, f) = <<f>>
    OBVIOUS
  <2>2. QED
    BY <1>2, <1>6, <1>7, <2>1
<1>9. Channels'
  <2>1. /\ rspq' \in Seq(Frame) /\ Len(rspq') <= 1 /\ \A g \in Elements(rspq') : FrameOK(g)
    <3>1. CASE f.type = "rsp"
      <4>1. <<f>> \in Seq(Frame) /\ Len(<<f>>) = 1 /\ Elements(<<f>>) = {f}
        BY <1>3, ElementsOne
      <4>2. QED
        BY <1>3, <1>8, <3>1, <4>1, 1 <= 1
    <3>2. CASE f.type # "rsp"
      BY <1>2, <3>2 DEF TInv, Channels
    <3>3. QED
      BY <3>1, <3>2
  <2>2. /\ callback' \in Seq(AnyStatement)
        /\ \A s \in Elements(callback') :
              StatementOK(s) /\ (s.do = "notification" => Len(callback') = 1)
    <3>1. CASE callback' = Callback(f)
      BY <1>3, <1>4, <3>1, CallbackOK, ElementsEmpty
    <3>2. CASE callback' = callback
      BY <3>2 DEF TInv, Channels
    <3>3. QED
      BY <1>2, <3>1, <3>2
  <2>3. \A g \in Elements(stream') : FrameOK(g)
    BY <1>3 DEF TInv, Channels
  <2>4. QED
    BY <1>2, <1>3, <2>1, <2>2, <2>3, RxKeeps DEF Channels, FrameOK, StatementOK
<1>10. OneResponse'
  <2>1. CASE f.type = "rsp"
    <3>1. rspq' # <<>> /\ Head(rspq') = f
      BY <1>8, <2>1
    <3>2. /\ f \in Responses /\ phase \in Sent /\ request = NoRequest /\ f.op = wanted.op
          /\ ~Under(Responses)' /\ Once(Responses, stream')
      BY <1>3, <1>4, <1>6, <1>7, <2>1
    <3>3. QED
      BY <1>2, <3>1, <3>2, RxKeeps DEF OneResponse, Responses
  <2>2. CASE f.type # "rsp"
    <3>1. rspq' = rspq /\ f \notin Responses
      BY <1>2, <1>7, <2>2
    <3>2. Under(Responses)' <=> Under(Responses)
      BY <1>3, <3>1 DEF Responses
    <3>3. Once(Responses, stream') /\ Elements(stream') \subseteq Elements(stream)
      BY <1>3, <1>4
    <3>4. QED
      BY <1>2, <3>1, <3>2, <3>3, RxKeeps DEF TInv, OneResponse, Responses
  <2>3. QED
    BY <2>1, <2>2
<1>11. Progress' /\ Locals'
  BY <1>2, RxKeeps DEF TInv, Progress
<1>12. NoteBound'
  <2>1. Len(notes) \in Nat /\ notified \in Nat
    BY LenProperties, MaxNotesAssumption DEF TInv, Typed
  <2>2. Noted = Len(notes)
    BY <1>2, <2>1, ElementsEmpty DEF Noted
  <2>3. CASE callback' = Callback(f) /\ f.op = "notification"
    <3>1. Noted' <= Len(notes) + 1 /\ Noted' \in Nat
      BY <1>2, <2>1 DEF Noted
    <3>2. CountIn(Notifications, stream) = CountIn(Notifications, stream') + 1
      BY <1>3, <2>3
    <3>3. QED
      BY <1>2, <1>3, <2>1, <2>2, <3>1, <3>2, RxKeeps DEF TInv, NoteBound, Notifications
  <2>4. CASE callback' = callback \/ (callback' = Callback(f) /\ f.op # "notification")
    <3>1. \A s \in Elements(callback') : s.do # "notification"
      BY <1>2, <1>3, <1>4, <2>4, CallbackOK, ElementsEmpty
    <3>2. Noted' = Len(notes)
      BY <1>2, <2>1, <3>1 DEF Noted
    <3>3. CountIn(Notifications, stream') <= CountIn(Notifications, stream)
      BY <1>3
    <3>4. QED
      BY <1>2, <1>3, <2>1, <2>2, <3>2, <3>3, RxKeeps DEF TInv, NoteBound, Notifications
  <2>5. QED
    BY <1>2, <2>3, <2>4
<1>13. QED
  BY <1>5, <1>9, <1>10, <1>11, <1>12 DEF TInv

LEMMA TRxStatement ==
    ASSUME TInv, RxStatement
    PROVE  TInv'
<1>1. PICK s : s = Head(callback)
  OBVIOUS
<1>2. /\ callback # <<>> /\ callback' = Tail(callback) /\ UNCHANGED rxKeeps
      /\ rspq' = rspq /\ future' = future /\ stream' = stream
      /\ lists' = CASE s.do = "list" -> [lists EXCEPT ![s.of] = 0]
                    [] s.do = "append" -> [lists EXCEPT ![s.of] = @ + 1]
                    [] OTHER -> lists
      /\ counts' = IF s.do = "count" THEN [counts EXCEPT ![s.of] = s.n] ELSE counts
      /\ db' = IF s.do = "add" THEN attr_add(db, s.n, gatt_cl_dec_disc_rsp(s.n)) ELSE db
      /\ values' = CASE s.do = "clear" -> <<>>
                     [] s.do = "value" /\ s.of # "unknown" -> Append(values, s.of)
                     [] OTHER -> values
      /\ written' = (written \/ s.do = "write_status")
      /\ notes' = IF s.do = "notification" THEN Append(notes, s.n) ELSE notes
      /\ dead' = (s.do = "value" /\ s.of = "unknown")
  BY <1>1 DEF RxStatement
<1>3. callback \in Seq(AnyStatement)
  BY DEF TInv, Channels
<1>4. /\ s \in AnyStatement /\ callback' \in Seq(AnyStatement) /\ Len(callback') = Len(callback) - 1
      /\ Elements(callback) = Elements(callback') \cup {s}
  BY <1>1, <1>2, <1>3, ElementsTail
<1>5. StatementOK(s) /\ (s.do = "notification" => Len(callback) = 1) /\ s.n \in Nat
  BY <1>4 DEF TInv, Channels, AnyStatement
<1>6. Typed'
  <2>1. lists \in [Lists -> Nat] /\ counts \in [Lists -> Nat \cup {NoCount}]
    BY DEF TInv, Typed
  <2>2. lists' \in [Lists -> Nat]
    <3>1. CASE s.do = "list"
      BY <1>2, <2>1, <3>1
    <3>2. CASE s.do = "append"
      <4>1. s.of \in Lists /\ lists[s.of] + 1 \in Nat
        BY <1>5, <2>1, <3>2 DEF StatementOK
      <4>2. QED
        BY <1>2, <2>1, <3>2, <4>1
    <3>3. CASE s.do \notin {"list", "append"}
      BY <1>2, <2>1, <3>3
    <3>4. QED
      BY <3>1, <3>2, <3>3
  <2>3. counts' \in [Lists -> Nat \cup {NoCount}]
    BY <1>2, <1>5, <2>1
  <2>4. DOMAIN db' \subseteq DOMAIN server /\ db' = [h \in DOMAIN db' |-> server[h]]
    <3>1. DOMAIN db \subseteq DOMAIN server /\ db = [h \in DOMAIN db |-> server[h]]
      BY DEF TInv, Typed
    <3>2. CASE s.do = "add"
      <4>1. s.n \in DOMAIN server
        BY <1>5, <3>2 DEF StatementOK
      <4>2. db' = [h \in DOMAIN db \cup {s.n} |-> IF h = s.n THEN server[s.n] ELSE db[h]]
        BY <1>2, <3>2 DEF attr_add, gatt_cl_dec_disc_rsp
      <4>3. \A h \in DOMAIN db : db[h] = server[h]
        BY <3>1
      <4>4. db' = [h \in DOMAIN db \cup {s.n} |-> server[h]]
        BY <4>2, <4>3
      <4>5. QED
        BY <3>1, <4>1, <4>4
    <3>3. CASE s.do # "add"
      BY <1>2, <3>1, <3>3
    <3>4. QED
      BY <3>2, <3>3
  <2>5. values' \in Seq(Statuses)
    <3>1. values \in Seq(Statuses)
      BY DEF TInv, Typed
    <3>2. CASE s.do = "value" /\ s.of # "unknown"
      <4>1. Append(values, s.of) \in Seq(Statuses)
        BY <1>5, <3>1, <3>2, AppendProperties DEF StatementOK
      <4>2. QED
        BY <1>2, <3>2, <4>1
    <3>3. CASE ~(s.do = "value" /\ s.of # "unknown")
      BY <1>2, <3>1, <3>3
    <3>4. QED
      BY <3>2, <3>3
  <2>6. notes' \in Seq(Handle)
    <3>1. notes \in Seq(Handle)
      BY DEF TInv, Typed
    <3>2. s.do = "notification" => Append(notes, s.n) \in Seq(Handle)
      BY <1>5, <3>1, AppendProperties DEF StatementOK
    <3>3. QED
      BY <1>2, <3>1, <3>2
  <2>7. written' \in BOOLEAN /\ dead' \in BOOLEAN
    BY <1>2 DEF TInv, Typed
  <2>8. server' = server
    BY <1>2, RxKeeps
  <2>9. DOMAIN db' \subseteq DOMAIN server' /\ db' = [h \in DOMAIN db' |-> server'[h]]
    BY <2>4, <2>8
  <2>10. QED
    BY <1>2, <2>2, <2>3, <2>5, <2>6, <2>7, <2>9, RxKeeps DEF TInv, Typed
<1>7. Channels'
  <2>1. \A r \in Elements(callback') : r.do # "notification"
    <3>1. ASSUME NEW r \in Elements(callback'), r.do = "notification"
          PROVE  FALSE
      <4>1. Len(callback) = 1
        BY <1>4, <3>1 DEF TInv, Channels
      <4>2. Len(callback') = 0
        BY <1>4, <4>1
      <4>3. QED
        BY <1>4, <3>1, <4>2, ElementsTyped
    <3>2. QED
      BY <3>1
  <2>2. QED
    BY <1>2, <1>4, <2>1, RxKeeps DEF TInv, Channels, FrameOK, StatementOK
<1>8. OneResponse'
  BY <1>2, RxKeeps DEF TInv, OneResponse, Under, Responses
<1>9. Progress' /\ Locals'
  BY <1>2, RxKeeps DEF TInv, Progress
<1>10. NoteBound'
  <2>1. notes \in Seq(Handle) /\ Len(notes) \in Nat /\ callback' \in Seq(AnyStatement)
    BY <1>4, LenProperties DEF TInv, Typed
  <2>2. CASE s.do = "notification"
    <3>1. Len(callback') = 0 /\ Elements(callback') = {}
      <4>1. Len(callback') = 0
        BY <1>4, <1>5, <2>2
      <4>2. QED
        BY <2>1, <4>1, ElementsTyped
    <3>2. Len(notes') = Len(notes) + 1
      BY <1>2, <1>5, <2>1, <2>2, AppendProperties DEF StatementOK
    <3>3. Noted' = Len(notes) + 1 /\ Noted = Len(notes) + 1
      BY <1>4, <2>1, <2>2, <3>1, <3>2 DEF Noted
    <3>4. QED
      BY <1>2, <3>3, RxKeeps DEF TInv, NoteBound, Notifications
  <2>3. CASE s.do # "notification"
    <3>1. Noted' = Noted
      BY <1>2, <1>4, <2>3 DEF Noted
    <3>2. QED
      BY <1>2, <3>1, RxKeeps DEF TInv, NoteBound, Notifications
  <2>4. QED
    BY <2>2, <2>3
<1>11. QED
  BY <1>6, <1>7, <1>8, <1>9, <1>10 DEF TInv

\* What a test leaves to the receive threads and the peers.
LEMMA MainKeeps ==
    ASSUME UNCHANGED mainKeeps
    PROVE  /\ test' = test /\ cl' = cl /\ server' = server /\ att' = att
           /\ callback' = callback /\ dead' = dead /\ stream' = stream
           /\ air' = air /\ busy' = busy /\ subscribed' = subscribed
           /\ notified' = notified /\ changed' = changed /\ missed' = missed
           /\ Program(test)' = Program(test)
           /\ \A X : Under(X)' <=> Under(X)
<1>1. /\ test' = test /\ cl' = cl /\ server' = server /\ att' = att
      /\ callback' = callback /\ dead' = dead /\ stream' = stream
      /\ air' = air /\ busy' = busy /\ subscribed' = subscribed
      /\ notified' = notified /\ changed' = changed /\ missed' = missed
  BY DEF mainKeeps, fixed, rxVars
<1>2. \A X : Under(X)' <=> Under(X)
  BY <1>1 DEF Under
<1>3. QED
  BY <1>1, <1>2, ProgramSame

\* The phases a step leads between.
LEMMA MovesOn ==
    ASSUME NEW t, NEW c, NEW s, NEW from, NEW to, Moves(t, c, from, s, to)
    PROVE  /\ s.do \notin {"rsp", "listen"} => from \notin Sent
           /\ to = "over" <=> s.do = "disconnect"
BY DEF Moves, SendMoves, RspMoves, WaitMoves, FindMoves, ResetMoves, AssertMoves, LastPhase, Sent

LEMMA MovesTodo ==
    ASSUME NEW t, NEW c, NEW s, NEW from, NEW to, Moves(t, c, from, s, to),
           s.do \notin {"rsp", "services"}, ~c
    PROVE  to \in {"inc_next", "inc_sent"} <=> from \in {"inc_next", "inc_sent"}
BY DEF Moves, SendMoves, RspMoves, WaitMoves, FindMoves, ResetMoves, AssertMoves, LastPhase

LEMMA MovesLocals ==
    ASSUME NEW s, NEW from, NEW to, Moves(test, cl, from, s, to)
    PROVE  /\ HasSvc(to) => HasSvc(from) \/ (s.do = "find" /\ s.op = "svc")
           /\ HasChr(to) => HasChr(from) \/ (s.do = "find" /\ s.op = "chr")
           /\ HasDsc(to) => HasDsc(from) \/ (s.do = "find" /\ s.op = "dsc")
           /\ HasDsc(from) => HasDsc(to)
<1> USE DEF Moves, SendMoves, RspMoves, WaitMoves, FindMoves, ResetMoves, AssertMoves, LastPhase,
            SvcPhase, ChrPhase, Whole, Inside, Straight, Deep, Reads, Writes, Subscribes
<1>1. HasSvc(to) => HasSvc(from) \/ (s.do = "find" /\ s.op = "svc")
  BY DEF HasSvc
<1>2. HasChr(to) => HasChr(from) \/ (s.do = "find" /\ s.op = "chr")
  BY DEF HasChr
<1>3. HasDsc(to) => HasDsc(from) \/ (s.do = "find" /\ s.op = "dsc")
  BY DEF HasDsc, AccessArg
<1>4. HasDsc(from) => HasDsc(to)
  BY DEF HasDsc
<1>5. QED
  BY <1>1, <1>2, <1>3, <1>4

\* Where the step of a running test takes it.
LEMMA StepTakes ==
    ASSUME TInv, outcome = "running"
    PROVE  /\ phase # "over" /\ step \in AllStep /\ test \in Tests /\ cl \in BOOLEAN
           /\ phase \in PhasesOf(test, cl)
           /\ \E next \in PhasesOf(test, cl) :
                 /\ Moves(test, cl, phase, step, next)
                 /\ cl' = cl /\ test' = test /\ pc' = pc + 1 =>
                       phase' = next /\ pc' \in 1 .. Len(Program(test))' + 1
<1>1. phase # "over" /\ test \in Tests /\ cl \in BOOLEAN /\ pc \in 1 .. Len(Program(test)) + 1
  BY TestAssumption DEF TInv, Progress, Typed
<1>2. QED
  BY <1>1, PhaseMoves

\* The test goes on to its next step.
LEMMA TMoved ==
    ASSUME TInv, outcome = "running", step.do \notin {"rsp", "listen", "services", "send"},
           pc' = pc + 1, UNCHANGED mainKeeps, todo' = todo, notes' = notes,
           request' = request, rspq' = rspq,
           outcome' \in {"running", "passed"},
           outcome' = "passed" <=> step.do = "disconnect", outcome' = "passed" => air = "linked"
    PROVE  /\ Channels' /\ OneResponse' /\ Progress' /\ NoteBound'
           /\ Moves(test, cl, phase, step, phase') /\ pc' \in 1 .. Len(Program(test))' + 1
<1>1. Moves(test, cl, phase, step, phase') /\ pc' \in 1 .. Len(Program(test))' + 1
  BY StepTakes, MainKeeps
<1>2. /\ phase \notin Sent /\ (phase' = "over" <=> step.do = "disconnect")
      /\ ~cl => (phase' \in {"inc_next", "inc_sent"} <=> phase \in {"inc_next", "inc_sent"})
  BY <1>1, MovesOn, MovesTodo
<1>3. Channels'
  BY MainKeeps DEF TInv, Channels, FrameOK, StatementOK
<1>4. request = NoRequest /\ ~Under(Responses) /\ rspq = <<>>
  BY <1>2 DEF TInv, OneResponse
<1>5. OneResponse'
  BY <1>4, MainKeeps DEF TInv, OneResponse, Responses
<1>6. Progress'
  <2>1. todo' # <<>> <=> ~cl' /\ phase' \in {"inc_next", "inc_sent"}
    BY <1>2, MainKeeps DEF TInv, Progress
  <2>2. outcome' = "running" => phase' # "over"
    BY <1>2
  <2>3. outcome' = "passed" => phase' = "over" /\ air' = "linked"
    BY <1>2, MainKeeps
  <2>4. QED
    BY <2>1, <2>2, <2>3 DEF Progress
<1>7. NoteBound'
  BY MainKeeps DEF TInv, NoteBound, Noted, Notifications
<1>8. QED
  BY <1>1, <1>3, <1>5, <1>6, <1>7

\* The test fails where it is.
LEMMA TFailed ==
    ASSUME TInv, outcome' \in {"assertion", "raised"}, pc' = pc, UNCHANGED mainKeeps,
           loc' = loc, todo' = todo, db' = db, UNCHANGED clVars, torn' \in BOOLEAN,
           request' = request, rspq' = rspq, future' = future
    PROVE  TInv'
<1>1. phase' = phase /\ wanted' = wanted
  BY MainKeeps, PhaseSame DEF wanted, CommandOf
<1>2. lists' = lists /\ counts' = counts /\ values' = values /\ written' = written /\ notes' = notes
  BY DEF clVars
<1>3. Typed'
  BY <1>1, <1>2, MainKeeps DEF TInv, Typed
<1>4. Channels'
  BY MainKeeps DEF TInv, Channels, FrameOK, StatementOK
<1>5. OneResponse'
  BY <1>1, MainKeeps DEF TInv, OneResponse, Responses
<1>6. Progress'
  BY <1>1, MainKeeps DEF TInv, Progress
<1>7. Locals'
  BY <1>1, MainKeeps DEF TInv, Locals, HasSvc, HasChr, HasDsc
<1>8. NoteBound'
  BY <1>2, MainKeeps DEF TInv, NoteBound, Noted, Notifications
<1>9. QED
  BY <1>3, <1>4, <1>5, <1>6, <1>7, <1>8 DEF TInv

\* What the test has found stays found.
LEMMA LocalsKept ==
    ASSUME Locals, UNCHANGED mainKeeps, Moves(test, cl, phase, step, phase'), step.do # "find",
           loc'.start = loc.start, loc'.stop = loc.stop, loc'.chr = loc.chr,
           loc'.value = loc.value, loc'.dsc = loc.dsc
    PROVE  Locals'
<1>1. /\ HasSvc(phase') => HasSvc(phase)
      /\ HasChr(phase') => HasChr(phase)
      /\ HasDsc(phase') <=> HasDsc(phase)
  BY MovesLocals
<1>2. /\ HasSvc(phase)' <=> HasSvc(phase')
      /\ HasChr(phase)' <=> HasChr(phase')
      /\ HasDsc(phase)' <=> HasDsc(phase')
  BY MainKeeps DEF HasSvc, HasChr, HasDsc
<1>3. server' = server /\ test' = test
  BY MainKeeps
<1>4. QED
  BY <1>1, <1>2, <1>3 DEF Locals

LEMMA TResetList ==
    ASSUME TInv, ResetList
    PROVE  TInv'
<1>1. /\ outcome = "running" /\ step.do = "reset" /\ pc' = pc + 1 /\ outcome' = outcome
      /\ lists' = [lists EXCEPT ![step.op] = 0] /\ counts' = [counts EXCEPT ![step.op] = NoCount]
      /\ UNCHANGED mainKeeps /\ loc' = loc /\ todo' = todo /\ torn' = torn /\ db' = db
      /\ values' = values /\ written' = written /\ notes' = notes /\ rspq' = rspq
      /\ future' = future /\ request' = request
  BY DEF ResetList, At, GoOn
<1>2. /\ Channels' /\ OneResponse' /\ Progress' /\ NoteBound'
      /\ Moves(test, cl, phase, step, phase') /\ pc' \in 1 .. Len(Program(test))' + 1
  BY <1>1, TMoved
<1>3. Locals'
  BY <1>1, <1>2, LocalsKept DEF TInv
<1>4. Typed'
  <2>1. lists' \in [Lists -> Nat] /\ counts' \in [Lists -> Nat \cup {NoCount}]
    BY <1>1 DEF TInv, Typed
  <2>2. QED
    BY <1>1, <1>2, <2>1, MainKeeps DEF TInv, Typed
<1>5. QED
  BY <1>2, <1>3, <1>4 DEF TInv

LEMMA TWaitEnds ==
    ASSUME TInv, WaitEnds
    PROVE  TInv'
<1>1. /\ outcome = "running" /\ step.do = "wait" /\ pc' = pc + 1 /\ outcome' = outcome
      /\ UNCHANGED mainKeeps /\ loc' = loc /\ todo' = todo /\ torn' = torn /\ db' = db
      /\ UNCHANGED clVars /\ rspq' = rspq /\ future' = future /\ request' = request
  BY DEF WaitEnds, At, GoOn
<1>2. lists' = lists /\ counts' = counts /\ values' = values /\ written' = written /\ notes' = notes
  BY <1>1 DEF clVars
<1>3. /\ Channels' /\ OneResponse' /\ Progress' /\ NoteBound'
      /\ Moves(test, cl, phase, step, phase') /\ pc' \in 1 .. Len(Program(test))' + 1
  BY <1>1, <1>2, TMoved
<1>4. Locals'
  BY <1>1, <1>3, LocalsKept DEF TInv
<1>5. Typed'
  BY <1>1, <1>2, <1>3, MainKeeps DEF TInv, Typed
<1>6. QED
  BY <1>3, <1>4, <1>5 DEF TInv

LEMMA TReadTimeout ==
    ASSUME TInv, ReadTimeout
    PROVE  TInv'
<1>1. torn \in BOOLEAN
  BY DEF TInv, Typed
<1>2. QED
  BY <1>1, TFailed DEF ReadTimeout, Fail

LEMMA TWaitFuture ==
    ASSUME TInv, WaitFuture
    PROVE  TInv'
<1>1. /\ outcome = "running" /\ step.do = "future"
      /\ UNCHANGED mainKeeps /\ loc' = loc /\ todo' = todo /\ torn' = torn /\ db' = db
      /\ UNCHANGED clVars /\ rspq' = rspq /\ future' = future /\ request' = request
      /\ \/ pc' = pc + 1 /\ outcome' = outcome
         \/ pc' = pc /\ outcome' = "raised"
  BY DEF WaitFuture, At, GoOn, Fail
<1>2. lists' = lists /\ counts' = counts /\ values' = values /\ written' = written /\ notes' = notes
  BY <1>1 DEF clVars
<1>3. CASE pc' = pc + 1 /\ outcome' = outcome
  <2>1. /\ Channels' /\ OneResponse' /\ Progress' /\ NoteBound'
        /\ Moves(test, cl, phase, step, phase') /\ pc' \in 1 .. Len(Program(test))' + 1
    BY <1>1, <1>2, <1>3, TMoved
  <2>2. Locals'
    BY <1>1, <2>1, LocalsKept DEF TInv
  <2>3. Typed'
    BY <1>1, <1>2, <1>3, <2>1, MainKeeps DEF TInv, Typed
  <2>4. QED
    BY <2>1, <2>2, <2>3 DEF TInv
<1>4. CASE pc' = pc /\ outcome' = "raised"
  <2>1. torn' \in BOOLEAN
    BY <1>1 DEF TInv, Typed
  <2>2. QED
    BY <1>1, <1>4, <2>1, TFailed
<1>5. QED
  BY <1>1, <1>3, <1>4

LEMMA TCheckEqual ==
    ASSUME TInv, CheckEqual
    PROVE  TInv'
<1>1. /\ outcome = "running" /\ step.do = "assert"
      /\ UNCHANGED mainKeeps /\ loc' = loc /\ todo' = todo /\ torn' = torn /\ db' = db
      /\ UNCHANGED clVars /\ rspq' = rspq /\ future' = future /\ request' = request
      /\ \/ pc' = pc + 1 /\ outcome' = outcome
         \/ pc' = pc /\ outcome' = "assertion"
  BY DEF CheckEqual, At, GoOn, Fail
<1>2. lists' = lists /\ counts' = counts /\ values' = values /\ written' = written /\ notes' = notes
  BY <1>1 DEF clVars
<1>3. CASE pc' = pc + 1 /\ outcome' = outcome
  <2>1. /\ Channels' /\ OneResponse' /\ Progress' /\ NoteBound'
        /\ Moves(test, cl, phase, step, phase') /\ pc' \in 1 .. Len(Program(test))' + 1
    BY <1>1, <1>2, <1>3, TMoved
  <2>2. Locals'
    BY <1>1, <2>1, LocalsKept DEF TInv
  <2>3. Typed'
    BY <1>1, <1>2, <1>3, <2>1, MainKeeps DEF TInv, Typed
  <2>4. QED
    BY <2>1, <2>2, <2>3 DEF TInv
<1>4. CASE pc' = pc /\ outcome' = "assertion"
  <2>1. torn' \in BOOLEAN
    BY <1>1 DEF TInv, Typed
  <2>2. QED
    BY <1>1, <1>4, <2>1, TFailed
<1>5. QED
  BY <1>1, <1>3, <1>4

LEMMA TDisconnect ==
    ASSUME TInv, Disconnect
    PROVE  TInv'
<1>1. /\ outcome = "running" /\ step.do = "disconnect"
      /\ UNCHANGED mainKeeps /\ loc' = loc /\ todo' = todo /\ torn' = torn /\ db' = db
      /\ UNCHANGED clVars /\ rspq' = rspq /\ future' = future /\ request' = request
      /\ \/ pc' = pc + 1 /\ outcome' = "passed" /\ air = "linked"
         \/ pc' = pc /\ outcome' = "raised"
  BY DEF Disconnect, At, Fail
<1>2. lists' = lists /\ counts' = counts /\ values' = values /\ written' = written /\ notes' = notes
  BY <1>1 DEF clVars
<1>3. CASE pc' = pc + 1 /\ outcome' = "passed" /\ air = "linked"
  <2>1. /\ Channels' /\ OneResponse' /\ Progress' /\ NoteBound'
        /\ Moves(test, cl, phase, step, phase') /\ pc' \in 1 .. Len(Program(test))' + 1
    BY <1>1, <1>2, <1>3, TMoved
  <2>2. Locals'
    BY <1>1, <2>1, LocalsKept DEF TInv
  <2>3. Typed'
    BY <1>1, <1>2, <1>3, <2>1, MainKeeps DEF TInv, Typed
  <2>4. QED
    BY <2>1, <2>2, <2>3 DEF TInv
<1>4. CASE pc' = pc /\ outcome' = "raised"
  <2>1. torn' \in BOOLEAN
    BY <1>1 DEF TInv, Typed
  <2>2. QED
    BY <1>1, <1>4, <2>1, TFailed
<1>5. QED
  BY <1>1, <1>3, <1>4

\* Where a listener is put up.
LEMMA MovesListen ==
    ASSUME NEW t, NEW c, NEW s, NEW from, NEW to, Moves(t, c, from, s, to), s.do = "listen"
    PROVE  /\ from \in Sent => from = "write_sent" /\ to = "write_late"
           /\ to # "over" /\ from \notin {"inc_next", "inc_sent"} /\ to \notin {"inc_next", "inc_sent"}
BY DEF Moves, Sent

LEMMA TListen ==
    ASSUME TInv, Listen
    PROVE  TInv'
<1>1. /\ outcome = "running" /\ step.do = "listen" /\ pc' = pc + 1 /\ outcome' = outcome
      /\ UNCHANGED mainKeeps /\ loc' = loc /\ todo' = todo /\ torn' = torn /\ db' = db
      /\ UNCHANGED clVars /\ rspq' = rspq /\ future' = "waiting" /\ request' = request
  BY DEF Listen, At, GoOn
<1>2. lists' = lists /\ counts' = counts /\ values' = values /\ written' = written /\ notes' = notes
  BY <1>1 DEF clVars
<1>3. Moves(test, cl, phase, step, phase') /\ pc' \in 1 .. Len(Program(test))' + 1
  BY <1>1, StepTakes, MainKeeps
<1>4. /\ phase \in Sent => phase = "write_sent" /\ phase' = "write_late"
      /\ phase' # "over" /\ phase \notin {"inc_next", "inc_sent"} /\ phase' \notin {"inc_next", "inc_sent"}
  BY <1>1, <1>3, MovesListen
<1>5. Typed'
  BY <1>1, <1>2, <1>3, MainKeeps DEF TInv, Typed
<1>6. Channels'
  BY <1>1, MainKeeps DEF TInv, Channels, FrameOK, StatementOK
<1>7. OneResponse'
  <2>1. CASE phase \in Sent
    <3>1. phase' \in Sent
      BY <1>4, <2>1 DEF Sent
    <3>2. wanted' = wanted
      BY <1>1, <1>4, <2>1, MainKeeps
         DEF wanted, CommandOf, SvcPhase, IncPhase, ChrPhase, DscPhase
    <3>3. QED
      BY <1>1, <2>1, <3>1, <3>2, MainKeeps DEF TInv, OneResponse, Responses
  <2>2. CASE phase \notin Sent
    BY <1>1, <2>2, MainKeeps DEF TInv, OneResponse, Responses
  <2>3. QED
    BY <2>1, <2>2
<1>8. Progress'
  BY <1>1, <1>4, MainKeeps DEF TInv, Progress
<1>9. Locals'
  BY <1>1, <1>3, LocalsKept DEF TInv
<1>10. NoteBound'
  BY <1>1, <1>2, MainKeeps DEF TInv, NoteBound, Noted, Notifications
<1>11. QED
  BY <1>5, <1>6, <1>7, <1>8, <1>9, <1>10 DEF TInv

LEMMA TTakeFirst ==
    ASSUME TInv, TakeFirst
    PROVE  TInv'
<1>1. /\ outcome = "running" /\ step.do \in {"value", "notification"}
      /\ UNCHANGED mainKeeps /\ todo' = todo /\ db' = db
      /\ torn' = (torn \/ callback # <<>>)
      /\ UNCHANGED clVars /\ rspq' = rspq /\ future' = future /\ request' = request
      /\ \/ pc' = pc + 1 /\ outcome' = outcome /\ values # <<>> /\ loc' = [loc EXCEPT !.rsp = Head(values)]
         \/ pc' = pc + 1 /\ outcome' = outcome /\ notes # <<>> /\ loc' = [loc EXCEPT !.handle = Head(notes)]
         \/ pc' = pc /\ outcome' = "raised" /\ loc' = loc
  BY DEF TakeFirst, At, GoOn, Fail, Look
<1>2. lists' = lists /\ counts' = counts /\ values' = values /\ written' = written /\ notes' = notes
  BY <1>1 DEF clVars
<1>3. torn' \in BOOLEAN
  BY <1>1
<1>4. CASE pc' = pc + 1 /\ outcome' = outcome
  <2>1. /\ Channels' /\ OneResponse' /\ Progress' /\ NoteBound'
        /\ Moves(test, cl, phase, step, phase') /\ pc' \in 1 .. Len(Program(test))' + 1
    BY <1>1, <1>2, <1>4, TMoved
  <2>2. /\ loc' \in LocRecord
        /\ loc'.start = loc.start /\ loc'.stop = loc.stop /\ loc'.chr = loc.chr
        /\ loc'.value = loc.value /\ loc'.dsc = loc.dsc
    <3>1. loc \in LocRecord /\ values \in Seq(Statuses) /\ notes \in Seq(Handle)
      BY DEF TInv, Typed
    <3>2. CASE values # <<>> /\ loc' = [loc EXCEPT !.rsp = Head(values)]
      <4>1. Head(values) \in Statuses
        BY <3>1, <3>2, HeadTailProperties
      <4>2. QED
        BY <3>1, <3>2, <4>1 DEF LocRecord
    <3>3. CASE notes # <<>> /\ loc' = [loc EXCEPT !.handle = Head(notes)]
      <4>1. Head(notes) \in 0 .. MaxHandle
        BY <3>1, <3>3, HeadTailProperties, HandleIs
      <4>2. QED
        BY <3>1, <3>3, <4>1 DEF LocRecord
    <3>4. QED
      BY <1>1, <3>1, <3>2, <3>3
  <2>3. Locals'
    BY <1>1, <2>1, <2>2, LocalsKept DEF TInv
  <2>4. Typed'
    BY <1>1, <1>2, <1>3, <1>4, <2>1, <2>2, MainKeeps DEF TInv, Typed
  <2>5. QED
    BY <2>1, <2>3, <2>4 DEF TInv
<1>5. CASE pc' = pc /\ outcome' = "raised" /\ loc' = loc
  BY <1>1, <1>3, <1>5, TFailed
<1>6. QED
  BY <1>1, <1>4, <1>5

\* What a look-up in the database finds.
LEMMA FoundInDb ==
    ASSUME Typed, NEW kind, NEW uuid, NEW h, h = find_by_uuid(db, kind, uuid)
    PROVE  /\ h \in 0 .. MaxHandle
           /\ h # None =>
                 /\ h \in DOMAIN db /\ h \in OfKind(server, kind) /\ server[h].uuid = uuid
                 /\ db[h] = server[h] /\ h \in Handle /\ server[h].last \in 0 .. MaxHandle
                 /\ \A g \in DOMAIN db : server[g].kind = kind /\ server[g].uuid = uuid => h <= g
           /\ h = None => ~ \E g \in DOMAIN db : server[g].kind = kind /\ server[g].uuid = uuid
<1>1. PICK S : S = {g \in OfKind(db, kind) : db[g].uuid = uuid}
  OBVIOUS
<1>2. /\ server \in Server /\ DOMAIN db \subseteq DOMAIN server
      /\ \A g \in DOMAIN db : db[g] = server[g]
  BY DEF Typed
<1>3. /\ S = {g \in DOMAIN db : server[g].kind = kind /\ server[g].uuid = uuid}
      /\ h = Lowest(S)
  BY <1>1, <1>2 DEF OfKind, find_by_uuid
<1>4. S \in SUBSET Handle
  BY <1>2, <1>3, ServerIs
<1>5. /\ h \in 0 .. MaxHandle /\ (h # None => h \in S /\ \A g \in S : h <= g)
      /\ (h = None => S = {})
  BY <1>3, <1>4, LowestOf
<1>6. \A g \in S : server[g].last \in 0 .. MaxHandle /\ g \in OfKind(server, kind)
  BY <1>2, <1>3, ServerIs DEF OfKind
<1>7. QED
  BY <1>2, <1>3, <1>4, <1>5, <1>6

LEMMA MovesFind ==
    ASSUME NEW t, NEW c, NEW s, NEW from, NEW to, Moves(t, c, from, s, to), s.do = "find"
    PROVE  FindMoves(t, s.op, s.arg, from, to)
BY DEF Moves

LEMMA TFindAttribute ==
    ASSUME TInv, FindAttribute
    PROVE  TInv'
<1>1. PICK h : h = FindByUuid
  OBVIOUS
<1>2. /\ outcome = "running" /\ step.do = "find"
      /\ UNCHANGED mainKeeps /\ todo' = todo /\ db' = db
      /\ torn' = (torn \/ callback # <<>>)
      /\ UNCHANGED clVars /\ rspq' = rspq /\ future' = future /\ request' = request
      /\ \/ h = None /\ pc' = pc /\ outcome' = "assertion" /\ loc' = loc
         \/ /\ h # None /\ pc' = pc + 1 /\ outcome' = outcome
            /\ loc' = CASE step.op = "svc" -> [loc EXCEPT !.start = h, !.stop = db[h].last]
                        [] step.op = "chr" -> [loc EXCEPT !.chr = h, !.value = db[h].last]
                        [] step.op = "dsc" -> [loc EXCEPT !.dsc = h]
                        [] OTHER -> loc
  BY <1>1 DEF FindAttribute, At, GoOn, Fail, Look
<1>3. lists' = lists /\ counts' = counts /\ values' = values /\ written' = written /\ notes' = notes
  BY <1>2 DEF clVars
<1>4. torn' \in BOOLEAN
  BY <1>2
<1>5. CASE h = None /\ pc' = pc /\ outcome' = "assertion" /\ loc' = loc
  BY <1>2, <1>4, <1>5, TFailed
<1>6. CASE h # None /\ pc' = pc + 1 /\ outcome' = outcome
  <2>1. /\ Channels' /\ OneResponse' /\ Progress' /\ NoteBound'
        /\ Moves(test, cl, phase, step, phase') /\ pc' \in 1 .. Len(Program(test))' + 1
    BY <1>2, <1>3, <1>6, TMoved
  <2>2. FindMoves(test, step.op, step.arg, phase, phase')
    BY <1>2, <2>1, MovesFind
  <2>3. h = find_by_uuid(db, step.op, step.arg)
    BY <1>1, <2>2 DEF FindMoves, FindByUuid, find_svc_by_uuid, find_inc_svc_by_uuid, find_chr_by_uuid,
                      find_dsc_by_uuid
  <2>4. /\ h \in 0 .. MaxHandle /\ h \in OfKind(server, step.op) /\ server[h].uuid = step.arg
        /\ db[h] = server[h] /\ server[h].last \in 0 .. MaxHandle
    BY <1>6, <2>3, FoundInDb DEF TInv
  <2>5. loc \in LocRecord /\ Locals
    BY DEF TInv, Typed
  <2>6. loc' \in LocRecord
    <3>1. /\ [loc EXCEPT !.start = h, !.stop = db[h].last] \in LocRecord
          /\ [loc EXCEPT !.chr = h, !.value = db[h].last] \in LocRecord
          /\ [loc EXCEPT !.dsc = h] \in LocRecord
      BY <2>4, <2>5 DEF LocRecord
    <3>2. QED
      BY <1>2, <1>6, <2>5, <3>1
  <2>7. server' = server /\ test' = test
    BY <1>2, MainKeeps
  <2>8. /\ HasSvc(phase') => HasSvc(phase) \/ step.op = "svc"
        /\ HasChr(phase') => HasChr(phase) \/ step.op = "chr"
        /\ HasDsc(phase') <=> HasDsc(phase) \/ step.op = "dsc"
    <3>1. step.op = "dsc" => HasDsc(phase')
      BY <2>2 DEF FindMoves, HasDsc, SvcPhase, ChrPhase
    <3>2. QED
      BY <2>1, <3>1, MovesLocals
  <2>9. /\ HasSvc(phase)' <=> HasSvc(phase')
        /\ HasChr(phase)' <=> HasChr(phase')
        /\ HasDsc(phase)' <=> HasDsc(phase')
    BY <2>7 DEF HasSvc, HasChr, HasDsc
  <2>10. Locals'
    <3>1. CASE step.op = "svc"
      <4>1. /\ loc'.start = h /\ loc'.stop = server[h].last /\ loc'.chr = loc.chr
            /\ loc'.value = loc.value /\ loc'.dsc = loc.dsc /\ step.arg = "SVC"
        BY <1>2, <1>6, <2>2, <2>4, <2>5, <3>1 DEF LocRecord, FindMoves
      <4>2. QED
        BY <2>4, <2>5, <2>7, <2>8, <2>9, <3>1, <4>1 DEF Locals
    <3>2. CASE step.op = "chr"
      <4>1. /\ loc'.chr = h /\ loc'.value = server[h].last /\ loc'.start = loc.start
            /\ loc'.stop = loc.stop /\ loc'.dsc = loc.dsc /\ step.arg = ChrUuid(test)
        BY <1>2, <1>6, <2>2, <2>4, <2>5, <3>2 DEF LocRecord, FindMoves
      <4>2. QED
        BY <2>4, <2>5, <2>7, <2>8, <2>9, <3>2, <4>1 DEF Locals, ChrUuid
    <3>3. CASE step.op = "dsc"
      <4>1. /\ loc'.dsc = h /\ loc'.start = loc.start /\ loc'.stop = loc.stop
            /\ loc'.chr = loc.chr /\ loc'.value = loc.value /\ step.arg = DscUuid(test)
        BY <1>2, <1>6, <2>2, <2>4, <2>5, <3>3 DEF LocRecord, FindMoves
      <4>2. QED
        BY <2>4, <2>5, <2>7, <2>8, <2>9, <3>3, <4>1 DEF Locals, ChrUuid, DscUuid
    <3>4. CASE step.op = "inc"
      <4>1. loc' = loc
        BY <1>2, <1>6, <3>4
      <4>2. QED
        BY <2>5, <2>7, <2>8, <2>9, <3>4, <4>1 DEF Locals, ChrUuid, DscUuid
    <3>5. QED
      BY <2>2, <3>1, <3>2, <3>3, <3>4 DEF FindMoves
  <2>11. Typed'
    BY <1>2, <1>3, <1>4, <1>6, <2>1, <2>6, MainKeeps DEF TInv, Typed
  <2>12. QED
    BY <2>1, <2>10, <2>11 DEF TInv
<1>7. QED
  BY <1>2, <1>5, <1>6

\* Where the look for the end of a characteristic stops.
LEMMA EndIs ==
    ASSUME Typed, NEW c \in Nat, NEW e, e = find_characteristic_end(db, c)
    PROVE  /\ e \in 0 .. MaxHandle
           /\ e # None /\ e # MaxHandle =>
                 /\ e + 1 \in DOMAIN db /\ c < e + 1 /\ e + 1 # c + 2
                 /\ \A g \in Stops(db, c) : e < g
           /\ e # None => (\A g \in Stops(db, c) : e < g) \/ (e = MaxHandle /\ Stops(db, c) = {})
           /\ e = None => c + 2 \in Stops(db, c) \/ 1 \in Stops(db, c)
<1>1. PICK S, l : S = Stops(db, c) /\ l = Lowest(S)
  OBVIOUS
<1>2. DOMAIN db \subseteq Handle
  BY ServerIs DEF Typed
<1>3. S \in SUBSET Handle /\ \A g \in S : g \in DOMAIN db /\ c < g
  BY <1>1, <1>2 DEF Stops
<1>4. /\ l = None => S = {}
      /\ S = {} => l = None
      /\ S # {} => l \in S /\ \A g \in S : l <= g
  BY <1>1, <1>3, LowestOf
<1>5. e = IF l = None THEN MaxHandle ELSE IF l = c + 2 THEN None ELSE l - 1
  BY <1>1 DEF find_characteristic_end
<1>6. CASE l = None
  <2>1. MaxHandle # None /\ MaxHandle \in 0 .. MaxHandle
    BY DEF MaxHandle, None
  <2>2. e = MaxHandle /\ S = {}
    BY <1>4, <1>5, <1>6
  <2>3. QED
    BY <1>1, <2>1, <2>2
<1>7. CASE l # None /\ l = c + 2
  BY <1>1, <1>4, <1>5, <1>7, MaxHandleNat DEF None
<1>8. CASE l # None /\ l # c + 2
  <2>1. l \in S /\ l \in Nat /\ 1 <= l /\ l <= MaxHandle /\ e = l - 1 /\ \A g \in S : l <= g
    BY <1>3, <1>4, <1>5, <1>8, HandleIs
  <2>2. \A g \in S : g \in Nat /\ e < g
    BY <1>3, <2>1, HandleIs
  <2>3. e \in 0 .. MaxHandle /\ e + 1 = l
    BY <2>1, MaxHandleNat
  <2>4. e = None => 1 \in S
    BY <2>1, <2>3 DEF None
  <2>5. QED
    BY <1>1, <1>3, <1>8, <2>1, <2>2, <2>3, <2>4
<1>9. QED
  BY <1>6, <1>7, <1>8

LEMMA TFindCharacteristicEnd ==
    ASSUME TInv, FindCharacteristicEnd
    PROVE  TInv'
<1>1. PICK e : e = find_characteristic_end(db, loc.chr)
  OBVIOUS
<1>2. /\ outcome = "running" /\ step.do = "end"
      /\ UNCHANGED mainKeeps /\ todo' = todo /\ db' = db
      /\ torn' = (torn \/ callback # <<>>)
      /\ UNCHANGED clVars /\ rspq' = rspq /\ future' = future /\ request' = request
      /\ \/ pc' = pc /\ outcome' = "assertion" /\ loc' = loc
         \/ pc' = pc + 1 /\ outcome' = outcome /\ loc' = [loc EXCEPT !.end = e]
  BY <1>1 DEF FindCharacteristicEnd, At, GoOn, Fail, Look
<1>3. lists' = lists /\ counts' = counts /\ values' = values /\ written' = written /\ notes' = notes
  BY <1>2 DEF clVars
<1>4. torn' \in BOOLEAN
  BY <1>2
<1>5. CASE pc' = pc /\ outcome' = "assertion" /\ loc' = loc
  BY <1>2, <1>4, <1>5, TFailed
<1>6. CASE pc' = pc + 1 /\ outcome' = outcome /\ loc' = [loc EXCEPT !.end = e]
  <2>1. /\ Channels' /\ OneResponse' /\ Progress' /\ NoteBound'
        /\ Moves(test, cl, phase, step, phase') /\ pc' \in 1 .. Len(Program(test))' + 1
    BY <1>2, <1>3, <1>6, TMoved
  <2>2. loc \in LocRecord /\ loc.chr \in Nat
    BY MaxHandleNat DEF TInv, Typed, LocRecord
  <2>3. e \in 0 .. MaxHandle
    BY <1>1, <2>2, EndIs DEF TInv
  <2>4. /\ loc' \in LocRecord
        /\ loc'.start = loc.start /\ loc'.stop = loc.stop /\ loc'.chr = loc.chr
        /\ loc'.value = loc.value /\ loc'.dsc = loc.dsc
    BY <1>6, <2>2, <2>3 DEF LocRecord
  <2>5. Locals'
    BY <1>2, <2>1, <2>4, LocalsKept DEF TInv
  <2>6. Typed'
    BY <1>2, <1>3, <1>4, <1>6, <2>1, <2>4, MainKeeps DEF TInv, Typed
  <2>7. QED
    BY <2>1, <2>5, <2>6 DEF TInv
<1>7. QED
  BY <1>2, <1>5, <1>6

LEMMA MovesSend ==
    ASSUME NEW t, NEW c, NEW s, NEW from, NEW to, Moves(t, c, from, s, to), s.do = "send"
    PROVE  /\ SendMoves(t, c, s.op, s.arg, from, to)
           /\ from \notin Sent /\ to \in Sent /\ to # "over"
           /\ ~c => (to \in {"inc_next", "inc_sent"} <=> from \in {"inc_next", "inc_sent"})
BY DEF Moves, SendMoves, Sent

\* The handle of an access.
LEMMA AccessHandle ==
    ASSUME TInv, NEW op, NEW to,
           SendMoves(test, cl, op, AccessArg(test), phase, to), to \in {"read_sent", "write_sent", "cfg_sent"}
    PROVE  loc[AccessArg(test)] \in Handle /\ AccessArg(test) \in {"value", "dsc"} /\ op = AccessOp(test)
<1>1. server \in Server
  BY DEF TInv, Typed
<1>2. AccessArg(test) \in {"value", "dsc"} /\ op = AccessOp(test)
  BY DEF SendMoves, AccessArg
<1>3. CASE AccessArg(test) = "value"
  <2>1. HasChr(phase)
    BY <1>3 DEF SendMoves, HasChr, AccessArg, Straight, SvcPhase
  <2>2. loc.value \in Handle
    BY <1>1, <2>1, ValueHandle DEF TInv, Locals
  <2>3. QED
    BY <1>2, <1>3, <2>2
<1>4. CASE AccessArg(test) = "dsc"
  <2>1. HasDsc(phase)
    BY <1>4 DEF SendMoves, HasDsc, AccessArg, Deep, SvcPhase, ChrPhase, Reads, Writes, Subscribes
  <2>2. loc.dsc \in Handle
    BY <1>1, <2>1, ValueHandle DEF TInv, Locals
  <2>3. QED
    BY <1>2, <1>4, <2>2
<1>5. QED
  BY <1>2, <1>3, <1>4

LEMMA RequestIs ==
    ASSUME TInv, NEW to, SendMoves(test, cl, step.op, step.arg, phase, to)
    PROVE  Request = CommandOf(to, loc, todo) /\ Request \in Requests
<1>1. /\ loc \in LocRecord /\ server \in Server
      /\ loc.start \in Nat /\ loc.stop \in Nat /\ loc.value \in Nat /\ loc.end \in Nat /\ 1 \in Nat
      /\ MaxHandle \in Nat /\ loc.value + 1 \in Nat
  BY MaxHandleNat DEF TInv, Typed, LocRecord
<1> DEFINE Req(op, lo, hi, uuid) == [op |-> op, lo |-> lo, hi |-> hi, uuid |-> uuid]
<1>2. \A op \in Command, lo, hi \in Nat, uuid \in Uuid :
          op \notin Access \/ lo \in Handle => Req(op, lo, hi, uuid) \in Requests
  BY DEF Requests
<1>3. "any" \in Uuid /\ "SVC" \in Uuid /\ ChrUuid(test) \in Uuid
  BY DEF Uuid, ChrUuid
<1>4. CASE to = "svc_sent" /\ step.op = "disc_prim_svcs" /\ step.arg = "any" /\ test \in Whole
  <2>1. Request = Req("disc_prim_svcs", 1, MaxHandle, "any")
    BY <1>4 DEF Request
  <2>2. CommandOf(to, loc, todo) = Req("disc_prim_svcs", 1, MaxHandle, "any")
    BY <1>4 DEF CommandOf, SvcPhase
  <2>3. QED
    BY <1>1, <1>2, <1>3, <2>1, <2>2 DEF Command, Access
<1>5. CASE to = "svc_sent" /\ step.op = "disc_prim_uuid" /\ step.arg = "SVC" /\ test \in Inside \cup {"GAD_2"}
  <2>1. Request = Req("disc_prim_uuid", 1, MaxHandle, "SVC")
    BY <1>5 DEF Request
  <2>2. CommandOf(to, loc, todo) = Req("disc_prim_uuid", 1, MaxHandle, "SVC")
    BY <1>5 DEF CommandOf, SvcPhase, Whole, Inside
  <2>3. QED
    BY <1>1, <1>2, <1>3, <2>1, <2>2 DEF Command, Access
<1>6. CASE to = "inc_sent" /\ step.op = "find_included" /\ step.arg = "any" /\ cl
  <2>1. Request = Req("find_included", 1, MaxHandle, "any")
    BY <1>6 DEF Request
  <2>2. CommandOf(to, loc, todo) = Req("find_included", 1, MaxHandle, "any")
    BY <1>6 DEF CommandOf, SvcPhase, IncPhase
  <2>3. QED
    BY <1>1, <1>2, <1>3, <2>1, <2>2 DEF Command, Access
<1>7. CASE to = "inc_sent" /\ step.op = "find_included" /\ step.arg = "service" /\ ~cl /\ phase = "inc_next"
  <2>1. Request = Req("find_included", Head(todo), server[Head(todo)].last, "any")
    BY <1>7 DEF Request
  <2>2. CommandOf(to, loc, todo) = Req("find_included", Head(todo), server[Head(todo)].last, "any")
    BY <1>7 DEF CommandOf, SvcPhase, IncPhase
  <2>3. todo # <<>> /\ todo \in Seq(DOMAIN server)
    BY <1>7 DEF TInv, Progress, Typed
  <2>4. Head(todo) \in DOMAIN server
    BY <2>3, ElementsTail
  <2>5. Head(todo) \in Nat /\ server[Head(todo)].last \in Nat
    BY <1>1, <2>4, ServerIs, MaxHandleNat
  <2>6. QED
    BY <1>2, <1>3, <2>1, <2>2, <2>5 DEF Command, Access
<1>8. CASE to = "chr_sent" /\ step.op = "disc_all_chrc" /\ step.arg = "any" /\ test \in Inside
  <2>1. Request = Req("disc_all_chrc", loc.start, loc.stop, "any")
    BY <1>8 DEF Request
  <2>2. CommandOf(to, loc, todo) = Req("disc_all_chrc", loc.start, loc.stop, "any")
    BY <1>8 DEF CommandOf, SvcPhase, IncPhase, ChrPhase
  <2>3. QED
    BY <1>1, <1>2, <1>3, <2>1, <2>2 DEF Command, Access
<1>9. CASE to = "chr_sent" /\ step.op = "disc_chrc_uuid" /\ step.arg = ChrUuid(test) /\ test \in Straight
  <2>1. Request = Req("disc_chrc_uuid", 1, MaxHandle, ChrUuid(test))
    BY <1>9 DEF Request, ChrUuid
  <2>2. CommandOf(to, loc, todo) = Req("disc_chrc_uuid", 1, MaxHandle, ChrUuid(test))
    BY <1>9 DEF CommandOf, SvcPhase, IncPhase, ChrPhase, Straight, Inside
  <2>3. QED
    BY <1>1, <1>2, <1>3, <2>1, <2>2 DEF Command, Access
<1>10. CASE to = "dsc_sent" /\ step.op = "disc_all_desc" /\ step.arg = "any"
  <2>1. Request = Req("disc_all_desc", loc.value + 1, loc.end, "any")
    BY <1>10 DEF Request
  <2>2. CommandOf(to, loc, todo) = Req("disc_all_desc", loc.value + 1, loc.end, "any")
    BY <1>10 DEF CommandOf, SvcPhase, IncPhase, ChrPhase, DscPhase
  <2>3. QED
    BY <1>1, <1>2, <1>3, <2>1, <2>2 DEF Command, Access
<1>11. CASE to \in {"read_sent", "write_sent", "cfg_sent"} /\ step.op = AccessOp(test) /\ step.arg = AccessArg(test)
  <2>1. loc[AccessArg(test)] \in Handle /\ AccessArg(test) \in {"value", "dsc"}
    BY <1>11, AccessHandle
  <2>2. AccessOp(test) \in Access /\ AccessOp(test) \in Command /\ AccessOp(test) \notin {"disc_all_chrc", "disc_all_desc"}
    BY DEF AccessOp, Access, Command
  <2>3. Request = Req(AccessOp(test), loc[AccessArg(test)], loc[AccessArg(test)], "any")
    BY <1>11, <2>1, <2>2 DEF Request
  <2>4. CommandOf(to, loc, todo) = Req(AccessOp(test), loc[AccessArg(test)], loc[AccessArg(test)], "any")
    BY <1>11 DEF CommandOf, SvcPhase, IncPhase, ChrPhase, DscPhase
  <2>5. loc[AccessArg(test)] \in Nat
    BY <2>1, HandleIs
  <2>6. QED
    BY <1>2, <1>3, <2>1, <2>2, <2>3, <2>4, <2>5
<1>12. QED
  BY <1>4, <1>5, <1>6, <1>7, <1>8, <1>9, <1>10, <1>11 DEF SendMoves

LEMMA TSendCommand ==
    ASSUME TInv, SendCommand
    PROVE  TInv' /\ request' = wanted' /\ request' \in Requests /\ phase' \in Sent
           /\ Moves(test, cl, phase, step, phase')
<1>1. /\ outcome = "running" /\ step.do = "send" /\ pc' = pc + 1 /\ outcome' = outcome
      /\ UNCHANGED mainKeeps /\ loc' = loc /\ todo' = todo /\ torn' = torn /\ db' = db
      /\ UNCHANGED clVars /\ rspq' = rspq /\ future' = future /\ request' = Request
  BY DEF SendCommand, At, GoOn
<1>2. lists' = lists /\ counts' = counts /\ values' = values /\ written' = written /\ notes' = notes
  BY <1>1 DEF clVars
<1>3. Moves(test, cl, phase, step, phase') /\ pc' \in 1 .. Len(Program(test))' + 1
  BY <1>1, StepTakes, MainKeeps
<1>4. /\ SendMoves(test, cl, step.op, step.arg, phase, phase')
      /\ phase \notin Sent /\ phase' \in Sent /\ phase' # "over"
      /\ ~cl => (phase' \in {"inc_next", "inc_sent"} <=> phase \in {"inc_next", "inc_sent"})
  BY <1>1, <1>3, MovesSend
<1>5. request' = CommandOf(phase', loc, todo) /\ request' \in Requests
  BY <1>1, <1>4, RequestIs
<1>6. request' = wanted'
  BY <1>1, <1>5, MainKeeps DEF wanted, CommandOf
<1>7. Typed'
  BY <1>1, <1>2, <1>3, <1>5, MainKeeps DEF TInv, Typed
<1>8. Channels'
  BY <1>1, MainKeeps DEF TInv, Channels, FrameOK, StatementOK
<1>9. OneResponse'
  <2>1. ~Under(Responses) /\ rspq = <<>> /\ Once(Responses, stream)
    BY <1>4 DEF TInv, OneResponse
  <2>2. QED
    BY <1>1, <1>4, <1>6, <2>1, MainKeeps DEF OneResponse, Responses
<1>10. Progress'
  BY <1>1, <1>4, MainKeeps DEF TInv, Progress
<1>11. Locals'
  BY <1>1, <1>3, LocalsKept DEF TInv
<1>12. NoteBound'
  BY <1>1, <1>2, MainKeeps DEF TInv, NoteBound, Noted, Notifications
<1>13. QED
  BY <1>3, <1>4, <1>5, <1>6, <1>7, <1>8, <1>9, <1>10, <1>11, <1>12 DEF TInv

LEMMA MovesServices ==
    ASSUME NEW t, NEW c, NEW s, NEW from, NEW to, Moves(t, c, from, s, to), s.do = "services"
    PROVE  ~c /\ t = "GAD_3" /\ from = "svc_in" /\ to = "inc_next"
BY DEF Moves

LEMMA TListServices ==
    ASSUME TInv, ListServices
    PROVE  TInv'
<1>1. /\ outcome = "running" /\ step.do = "services" /\ outcome' = outcome
      /\ UNCHANGED mainKeeps /\ loc' = loc /\ torn' = torn /\ db' = db
      /\ UNCHANGED clVars /\ rspq' = rspq /\ future' = future /\ request' = request
      /\ todo' = Sorted(get_services(db))
      /\ pc' = IF todo' = <<>> THEN pc + 3 ELSE pc + 1
  BY DEF ListServices, At
<1>2. lists' = lists /\ counts' = counts /\ values' = values /\ written' = written /\ notes' = notes
  BY <1>1 DEF clVars
<1>3. ~cl /\ test = "GAD_3" /\ phase = "svc_in" /\ test \in Tests /\ cl \in BOOLEAN
  BY <1>1, StepTakes, MovesServices
<1>4. /\ todo' # <<>> => phase' = "inc_next"
      /\ todo' = <<>> => phase' = "inc_in"
      /\ pc' \in 1 .. Len(Program(test))' + 1
  <2>1. cl' = cl /\ test' = test /\ pc \in 1 .. Len(Program(test)) + 1
    BY <1>1, MainKeeps DEF TInv, Typed
  <2>2. CASE todo' # <<>>
    <3>1. pc' = pc + 1
      BY <1>1, <2>2
    <3>2. PICK next \in PhasesOf(test, cl) :
             Moves(test, cl, phase, step, next) /\ phase' = next /\ pc' \in 1 .. Len(Program(test))' + 1
      BY <1>1, <2>1, <3>1, StepTakes
    <3>3. next = "inc_next"
      BY <1>1, <3>2, MovesServices
    <3>4. QED
      BY <2>2, <3>2, <3>3
  <2>3. CASE todo' = <<>>
    <3>1. pc' = pc + 3
      BY <1>1, <2>3
    <3>2. QED
      BY <1>1, <1>3, <2>1, <2>3, <3>1, PhaseMoves
  <2>4. QED
    BY <2>2, <2>3
<1>5. todo' \in Seq(DOMAIN server) /\ Elements(todo') = get_services(db)
  <2>1. get_services(db) \in SUBSET Handle /\ get_services(db) \subseteq DOMAIN server
    BY ServerIs DEF get_services, OfKind, TInv, Typed
  <2>2. Sorted(get_services(db)) \in Seq(get_services(db)) /\ Elements(todo') = get_services(db)
    BY <1>1, <2>1, SortedIs
  <2>3. QED
    BY <1>1, <2>1, <2>2, SeqWider
<1>6. Typed'
  BY <1>1, <1>2, <1>4, <1>5, MainKeeps DEF TInv, Typed
<1>7. Channels'
  BY <1>1, MainKeeps DEF TInv, Channels, FrameOK, StatementOK
<1>8. OneResponse'
  <2>1. phase \notin Sent
    BY <1>3 DEF Sent
  <2>2. QED
    BY <1>1, <2>1, MainKeeps DEF TInv, OneResponse, Responses
<1>9. Progress'
  BY <1>1, <1>3, <1>4, MainKeeps DEF TInv, Progress
<1>10. Locals'
  <2>1. loc.dsc = None
    BY <1>3 DEF TInv, Locals, HasDsc, Deep
  <2>2. QED
    BY <1>1, <1>3, <2>1, MainKeeps DEF Locals, HasSvc, HasChr, HasDsc, Inside, Straight, Deep
<1>11. NoteBound'
  BY <1>1, <1>2, MainKeeps DEF TInv, NoteBound, Noted, Notifications
<1>12. QED
  BY <1>6, <1>7, <1>8, <1>9, <1>10, <1>11 DEF TInv

LEMMA MovesRsp ==
    ASSUME NEW t, NEW c, NEW s, NEW from, NEW to, Moves(t, c, from, s, to), s.do = "rsp"
    PROVE  /\ RspMoves(t, c, s.op, from, to) /\ to # "over"
           /\ s.op = "add_to_db" => ~c /\ from = "inc_sent" /\ to = "inc_in"
           /\ s.op = "new_db" => ~c /\ from \in {"svc_sent", "chr_sent", "dsc_sent"}
           /\ s.op # "add_to_db" => c \/ (from \notin {"inc_next", "inc_sent"} /\ to \notin {"inc_next", "inc_sent"})
BY DEF Moves, RspMoves

\* The discoveries' phases.
LEMMA DiscoveryPhase ==
    ASSUME phase \in {"svc_sent", "inc_sent", "chr_sent", "dsc_sent", "svc_wait", "inc_wait", "chr_wait",
                      "dsc_wait"}
    PROVE  wanted.op \in Discovery
BY DEF wanted, CommandOf, Discovery, SvcPhase, IncPhase, ChrPhase, DscPhase

LEMMA TReadResponse ==
    ASSUME TInv, ReadResponse
    PROVE  TInv'
<1>1. PICK f : f = Head(rspq)
  OBVIOUS
<1>2. /\ outcome = "running" /\ step.do = "rsp" /\ rspq # <<>> /\ rspq' = Tail(rspq)
      /\ UNCHANGED mainKeeps /\ torn' = torn
      /\ UNCHANGED clVars /\ future' = future /\ request' = request
      /\ \/ outcome' = "raised" /\ pc' = pc /\ UNCHANGED <<db, loc, todo>>
         \/ StoreRsp(f) /\ pc' = (IF todo' # <<>> THEN pc - 1 ELSE pc + 1) /\ outcome' = outcome
  BY <1>1 DEF ReadResponse, At, Fail
<1>3. lists' = lists /\ counts' = counts /\ values' = values /\ written' = written /\ notes' = notes
  BY <1>2 DEF clVars
<1>4. /\ rspq \in Seq(Frame) /\ Len(rspq) <= 1 /\ \A g \in Elements(rspq) : FrameOK(g)
      /\ phase \in Sent /\ request = NoRequest /\ ~Under(Responses) /\ f.op = wanted.op
      /\ Once(Responses, stream)
  BY <1>1, <1>2 DEF TInv, Channels, OneResponse
<1>5. rspq' = <<>> /\ FrameOK(f) /\ f \in Frame
  <2>1. Len(Tail(rspq)) = 0 /\ Tail(rspq) \in Seq(Frame) /\ f \in Elements(rspq) /\ f \in Frame
    BY <1>1, <1>2, <1>4, ElementsTail
  <2>2. QED
    BY <1>2, <1>4, <2>1, ElementsTyped
<1>6. OneResponse'
  BY <1>2, <1>4, <1>5, MainKeeps DEF OneResponse, Responses
<1>7. Channels'
  <2>1. <<>> \in Seq(Frame) /\ Len(<<>>) <= 1 /\ Elements(<<>>) = {}
    BY ElementsEmpty
  <2>2. QED
    BY <1>2, <1>5, <2>1, MainKeeps DEF TInv, Channels, FrameOK, StatementOK
<1>8. NoteBound'
  BY <1>2, <1>3, MainKeeps DEF TInv, NoteBound, Noted, Notifications
<1>9. CASE outcome' = "raised" /\ pc' = pc /\ UNCHANGED <<db, loc, todo>>
  <2>1. phase' = phase
    BY <1>9, MainKeeps, <1>2, PhaseSame
  <2>2. Typed'
    BY <1>2, <1>3, <1>9, MainKeeps DEF TInv, Typed
  <2>3. Progress'
    BY <1>2, <1>9, <2>1, MainKeeps DEF TInv, Progress
  <2>4. Locals'
    BY <1>2, <1>9, <2>1, MainKeeps DEF TInv, Locals, HasSvc, HasChr, HasDsc
  <2>5. QED
    BY <1>6, <1>7, <1>8, <2>2, <2>3, <2>4 DEF TInv
<1>10. CASE StoreRsp(f) /\ pc' = (IF todo' # <<>> THEN pc - 1 ELSE pc + 1) /\ outcome' = outcome
  <2>1. /\ db' = IF step.op \in {"new_db", "add_to_db"}
                  THEN [h \in Elements(f.found) \cup (IF step.op = "new_db" THEN {} ELSE DOMAIN db)
                            |-> server[h]]
                  ELSE db
        /\ loc' = IF step.op = "value" /\ f.status # "unknown" THEN [loc EXCEPT !.rsp = f.status] ELSE loc
        /\ todo' = IF step.op = "add_to_db" THEN Tail(todo) ELSE todo
    BY <1>10 DEF StoreRsp, gatt_dec_disc_rsp
  <2>2. PICK next \in PhasesOf(test, cl) :
           /\ Moves(test, cl, phase, step, next)
           /\ pc' = pc + 1 => phase' = next /\ pc' \in 1 .. Len(Program(test))' + 1
    BY <1>2, StepTakes, MainKeeps
  <2>3. /\ RspMoves(test, cl, step.op, phase, next) /\ next # "over"
        /\ step.op = "add_to_db" => ~cl /\ phase = "inc_sent" /\ next = "inc_in"
        /\ step.op = "new_db" => ~cl /\ phase \in {"svc_sent", "chr_sent", "dsc_sent"}
        /\ step.op # "add_to_db" =>
              cl \/ (phase \notin {"inc_next", "inc_sent"} /\ next \notin {"inc_next", "inc_sent"})
    BY <1>2, <2>2, MovesRsp
  <2>4. /\ todo \in Seq(DOMAIN server) /\ todo' \in Seq(DOMAIN server)
        /\ step.op # "add_to_db" => todo' = <<>> /\ todo = <<>>
        /\ step.op = "add_to_db" => todo # <<>> /\ todo' = Tail(todo)
    <3>1. todo \in Seq(DOMAIN server) /\ (todo # <<>> <=> ~cl /\ phase \in {"inc_next", "inc_sent"})
      BY DEF TInv, Typed, Progress
    <3>2. step.op = "add_to_db" => todo # <<>>
      BY <2>3, <3>1
    <3>3. step.op = "add_to_db" => Tail(todo) \in Seq(DOMAIN server)
      BY <3>1, <3>2, ElementsTail
    <3>4. QED
      BY <2>1, <2>3, <3>1, <3>2, <3>3
  <2>5. /\ todo' # <<>> => phase' = "inc_next" /\ ~cl /\ step.op = "add_to_db"
        /\ todo' = <<>> => phase' = next
        /\ pc' \in 1 .. Len(Program(test))' + 1
    <3>1. CASE todo' # <<>>
      <4>1. step.op = "add_to_db" /\ phase = "inc_sent" /\ ~cl /\ pc' = pc - 1
        BY <1>10, <2>3, <2>4, <3>1
      <4>2. test \in Tests /\ cl \in BOOLEAN /\ pc \in 1 .. Len(Program(test)) + 1
        BY <1>2, StepTakes DEF TInv, Typed
      <4>3. phase' = "inc_next" /\ pc' \in 1 .. Len(Program(test))' + 1
        BY <1>2, <4>1, <4>2, MainKeeps, PhaseMoves
      <4>4. QED
        BY <3>1, <4>1, <4>3
    <3>2. CASE todo' = <<>>
      BY <1>10, <2>2, <3>2
    <3>3. QED
      BY <3>1, <3>2
  <2>6. /\ loc' \in LocRecord
        /\ loc'.start = loc.start /\ loc'.stop = loc.stop /\ loc'.chr = loc.chr
        /\ loc'.value = loc.value /\ loc'.dsc = loc.dsc
    <3>1. loc \in LocRecord /\ f.status \in Statuses
      BY <1>5 DEF TInv, Typed, Frame
    <3>2. QED
      BY <2>1, <3>1 DEF LocRecord
  <2>7. DOMAIN db' \subseteq DOMAIN server /\ db' = [h \in DOMAIN db' |-> server[h]]
    <3>1. DOMAIN db \subseteq DOMAIN server /\ db = [h \in DOMAIN db |-> server[h]]
      BY DEF TInv, Typed
    <3>2. CASE step.op \in {"new_db", "add_to_db"}
      <4>1. f.op \in Discovery
        BY <1>4, <2>3, <3>2, DiscoveryPhase
      <4>2. Elements(f.found) \subseteq DOMAIN server
        BY <1>5, <4>1, ElementsTyped DEF FrameOK
      <4>3. PICK D : D = Elements(f.found) \cup (IF step.op = "new_db" THEN {} ELSE DOMAIN db)
        OBVIOUS
      <4>4. D \subseteq DOMAIN server /\ db' = [h \in D |-> server[h]]
        BY <2>1, <3>1, <3>2, <4>2, <4>3
      <4>5. QED
        BY <4>4
    <3>3. CASE step.op \notin {"new_db", "add_to_db"}
      BY <2>1, <3>1, <3>3
    <3>4. QED
      BY <3>2, <3>3
  <2>8. Typed'
    <3>1. DOMAIN db' \subseteq DOMAIN server' /\ db' = [h \in DOMAIN db' |-> server'[h]]
      BY <1>2, <2>7, MainKeeps
    <3>2. todo' \in Seq(DOMAIN server')
      BY <1>2, <2>4, MainKeeps
    <3>3. QED
      BY <1>2, <1>3, <1>10, <2>5, <2>6, <3>1, <3>2, MainKeeps DEF TInv, Typed
  <2>9. Progress'
    <3>1. todo' # <<>> <=> ~cl /\ phase' \in {"inc_next", "inc_sent"}
      BY <2>3, <2>5
    <3>2. phase' # "over" /\ outcome' = "running"
      BY <1>2, <1>10, <2>3, <2>5
    <3>3. QED
      BY <1>2, <3>1, <3>2, MainKeeps DEF Progress
  <2>10. Locals'
    <3>1. CASE todo' = <<>>
      <4>1. Moves(test, cl, phase, step, phase') /\ step.do # "find"
        BY <1>2, <2>2, <2>5, <3>1
      <4>2. QED
        BY <1>2, <2>6, <4>1, LocalsKept DEF TInv
    <3>2. CASE todo' # <<>>
      <4>1. phase = "inc_sent" /\ phase' = "inc_next" /\ ~cl
        BY <2>3, <2>5, <3>2
      <4>2. test = "GAD_3"
        <5>1. phase \in PhasesOf(test, cl)
          BY <1>2, StepTakes
        <5>2. QED
          BY <4>1, <5>1 DEF PhasesOf
      <4>3. loc.dsc = None
        BY <4>2 DEF TInv, Locals, HasDsc, Deep
      <4>4. QED
        BY <1>2, <2>6, <4>2, <4>3, MainKeeps DEF Locals, HasSvc, HasChr, HasDsc, Inside, Straight, Deep
    <3>3. QED
      BY <3>1, <3>2
  <2>11. QED
    BY <1>6, <1>7, <1>8, <2>8, <2>9, <2>10 DEF TInv
<1>11. QED
  BY <1>2, <1>9, <1>10

LEMMA TStutter ==
    ASSUME TInv, UNCHANGED vars
    PROVE  TInv'
<1>1. /\ UNCHANGED <<fixed, testVars>>
      /\ db' = db /\ rspq' = rspq /\ future' = future /\ callback' = callback /\ dead' = dead
      /\ lists' = lists /\ counts' = counts /\ values' = values /\ written' = written /\ notes' = notes
      /\ stream' = stream /\ air' = air /\ request' = request /\ busy' = busy
      /\ subscribed' = subscribed /\ notified' = notified /\ changed' = changed /\ missed' = missed
  BY DEF vars, clVars, rxVars, airVars
<1>2. Typed' /\ Progress' /\ Locals'
  BY <1>1, StandStill DEF TInv, Typed, Progress
<1>3. Channels'
  BY <1>1, StandStill DEF TInv, Channels, FrameOK, StatementOK
<1>4. OneResponse'
  BY <1>1, StandStill DEF TInv, OneResponse, Under, Responses
<1>5. NoteBound'
  BY <1>1 DEF TInv, NoteBound, Noted, Notifications
<1>6. QED
  BY <1>2, <1>3, <1>4, <1>5 DEF TInv

LEMMA TInvNext == TInv /\ [Next]_vars => TInv'
<1> SUFFICES ASSUME TInv, [Next]_vars PROVE TInv'
  OBVIOUS
<1>1. CASE Answer
  BY <1>1, TAnswer
<1>2. CASE Report
  BY <1>2, TReport
<1>3. CASE Notify
  BY <1>3, TNotify
<1>4. CASE LoseLink("lost") \/ LoseLink("crashed")
  BY <1>4, TLoseLink
<1>5. CASE PeripheralRx
  BY <1>5, TPeripheralRx
<1>6. CASE RxFrame
  BY <1>6, TRxFrame
<1>7. CASE RxStatement
  BY <1>7, TRxStatement
<1>8. CASE RunTest
  BY <1>8, TResetList, TSendCommand, TReadResponse, TReadTimeout, TListServices, TWaitEnds,
     TFindAttribute, TFindCharacteristicEnd, TListen, TWaitFuture, TTakeFirst, TCheckEqual,
     TDisconnect DEF RunTest
<1>9. CASE UNCHANGED vars
  BY <1>9, TStutter
<1>10. QED
  BY <1>1, <1>2, <1>3, <1>4, <1>5, <1>6, <1>7, <1>8, <1>9 DEF Next

LEMMA TInvCorrect == Spec => []TInv
BY TInvInit, TInvNext, PTL DEF Spec

LEMMA TInvTypes == TInv => TypeOK
<1> SUFFICES ASSUME TInv PROVE TypeOK
  OBVIOUS
<1>1. Typed /\ Channels /\ NoteBound
  BY DEF TInv
<1>2. /\ \A x \in {"start", "stop", "chr", "value", "dsc", "end", "handle"} : loc[x] \in 0 .. MaxHandle
      /\ loc.rsp \in Statuses \cup {"none"}
  BY <1>1 DEF Typed, LocRecord
<1>3. \A h \in DOMAIN db : h \in DOMAIN server /\ db[h] = server[h]
  BY <1>1 DEF Typed
<1>4. /\ DOMAIN lists = Lists /\ DOMAIN counts = Lists
      /\ \A l \in Lists : lists[l] \in Nat /\ counts[l] \in Nat \cup {NoCount}
  BY <1>1 DEF Typed
<1>5. notes \in Seq(1 .. MaxHandle) /\ Len(notes) <= MaxNotes
  <2>1. notes \in Seq(Handle) /\ Len(notes) \in Nat /\ MaxNotes \in Nat /\ notified \in 0 .. MaxNotes
    BY <1>1, LenProperties, MaxNotesAssumption DEF Typed
  <2>2. CountIn(Notifications, stream) \in Nat
    <3>1. "error" \in Statuses
      BY DEF Statuses
    <3>2. PICK f : f = [type |-> "ev", op |-> "read", status |-> "error", found |-> <<>>]
      OBVIOUS
    <3>3. f \in Frame
      BY <3>1, <3>2 DEF Frame, Command
    <3>4. QED
      BY <1>1, <3>3, CountGrows DEF Channels
  <2>3. Len(notes) <= Noted /\ Noted \in Nat
    BY <2>1 DEF Noted
  <2>4. Noted + CountIn(Notifications, stream) <= notified
    BY <1>1 DEF NoteBound
  <2>5. QED
    BY <2>1, <2>2, <2>3, <2>4 DEF Handle
<1>6. rspq \in Seq(Frame) /\ Len(rspq) <= 1 /\ stream \in Seq(Frame)
  BY <1>1 DEF Channels
<1>7. QED
  BY <1>1, <1>2, <1>3, <1>4, <1>5, <1>6 DEF Typed, TypeOK

\* In every reachable state of a test the variables have their types.
THEOREM TypeCorrect == Spec => []TypeOK
BY TInvCorrect, TInvTypes, PTL

-----------------------------------------------------------------------------
\* Results: the invariant FInv, and that every step keeps it.

\* The phases in which a command is under way.
InFlight == Sent \cup {"svc_wait", "inc_wait", "chr_wait", "dsc_wait", "read_wait",
                       "write_answered", "write_wait", "cfg_wait"}

Owed == request # NoRequest \/ busy # NoRequest \/ Under(Reports)

\* The result of a command comes once, and it is that of the command.
OneReport ==
    /\ busy # NoRequest =>
          /\ cl /\ busy = wanted /\ phase \in InFlight /\ request = NoRequest /\ ~Under(Reports)
          /\ air = "linked"
    /\ Under(Reports) => cl /\ phase \in InFlight /\ request = NoRequest
    /\ \A f \in Elements(stream) : f \in Reports => f = Outcome("ev", wanted)
    /\ Once(Reports, stream)

RspIs(f) ==
    \/ f.status = "error" /\ air # "linked"
    \/ f.status = "success" /\ cl
    \/ ~cl /\ f = Outcome("rsp", wanted)

Results ==
    /\ \A f \in Elements(stream) : f \in Responses => RspIs(f)
    /\ rspq # <<>> => RspIs(Head(rspq))

\* The phases before the result of a discovery can come.
Before(list) ==
    CASE list = "prim_svcs" -> {"start"}
      [] list = "incl_svcs" -> {"start", "svc_sent", "svc_wait", "svc_in", "inc_next"}
      [] list = "chrcs" -> {"start", "chr_reset"} \cup SvcPhase
      [] list = "dscs" -> {"start", "dsc_reset"} \cup SvcPhase \cup ChrPhase

Listing(list) ==
    CASE list = "prim_svcs" -> {"svc_sent", "svc_wait"}
      [] list = "incl_svcs" -> {"inc_sent", "inc_wait"}
      [] list = "chrcs" -> {"chr_sent", "chr_wait"}
      [] list = "dscs" -> {"dsc_sent", "dsc_wait"}

Accessing == ReadPhase \cup WritePhase \cup CfgPhase \cup {"done", "over"}

\* Nothing shows of a result that has not come.
Untouched ==
    /\ \A l \in Lists : phase \in Before(l) \/ (phase \in Listing(l) /\ Owed) =>
          /\ counts[l] = NoCount
          /\ \A s \in Elements(callback) : s.do = "count" => s.of # l
    /\ phase \notin Accessing \/ Owed =>
          /\ values = <<>> /\ ~written /\ ~dead
          /\ \A s \in Elements(callback) : s.do \notin {"clear", "value", "write_status"}
    /\ ~cl => callback = <<>> /\ notes = <<>> /\ \A l \in Lists : counts[l] = NoCount

\* Notifications come for the descriptor the test has written.
Subscribed ==
    /\ subscribed # None =>
          /\ phase \in CfgPhase \cup {"done", "over"} /\ test \in Subscribes
          /\ subscribed = ValueAbove(loc.dsc)
          /\ request = NoRequest /\ busy = NoRequest
    /\ \A f \in Elements(stream) : f \in Notifications =>
          /\ subscribed # None
          /\ IF f.found = <<>> THEN att = "empty" ELSE f.found[1] = subscribed
    /\ \A s \in Elements(callback) : s.do = "notification" =>
          subscribed # None /\ s.n = subscribed
    /\ \A n \in Elements(notes) : subscribed # None /\ n = subscribed

\* What the test has read and been notified of.
Taken ==
    /\ \A v \in Elements(values) : v = AttStatus
    /\ \A s \in Elements(callback) : s.do = "value" => s.of = AttStatus
    /\ phase \in {"read_got", "write_got", "cfg_got"} => loc.rsp = AttStatus
    /\ ~cl /\ test \in Subscribes =>
          phase \notin {"cfg_got", "cfg_future", "cfg_verify", "done", "over"}
    /\ test \in Subscribes /\ phase \in {"cfg_verify", "done", "over"} =>
          loc.handle = ValueAbove(loc.dsc)
    /\ test \in Subscribes /\ phase \in {"done", "over"} => loc.handle = loc.value

FInv == OneReport /\ Results /\ Untouched /\ Subscribed /\ Taken

\* What the server and the access decide does not change.
LEMMA FixedSame ==
    ASSUME test' = test, cl' = cl, server' = server, att' = att
    PROVE  /\ AttStatus' = AttStatus
           /\ \A d : ValueAbove(d)' = ValueAbove(d)
           /\ \A t, r : Outcome(t, r)' = Outcome(t, r)
BY DEF AttStatus, ValueAbove, Outcome, Discovered, OfKind

LEMMA FInvInit == Init => FInv
<1> SUFFICES ASSUME Init PROVE FInv
  OBVIOUS
<1>1. TInv
  BY TInvInit
<1>2. /\ stream = <<>> /\ rspq = <<>> /\ callback = <<>> /\ request = NoRequest /\ busy = NoRequest
      /\ subscribed = None /\ values = <<>> /\ notes = <<>> /\ ~written /\ ~dead
      /\ \A l \in Lists : counts[l] = NoCount
      /\ pc = 1
  BY DEF Init
<1>3. phase = "start"
  <2>1. test \in Tests /\ cl \in BOOLEAN /\ pc \in 1 .. Len(Program(test)) + 1
    BY <1>1, TestAssumption DEF TInv, Typed
  <2>2. QED
    BY <1>2, <2>1, PhaseMoves
<1>4. /\ Elements(stream) = {} /\ Elements(callback) = {} /\ Elements(values) = {} /\ Elements(notes) = {}
      /\ Once(Reports, stream)
  BY <1>2, ElementsEmpty, OnceEmpty
<1>5. OneReport /\ Results
  BY <1>2, <1>4 DEF OneReport, Results, Under
<1>6. Untouched /\ Subscribed
  BY <1>2, <1>4 DEF Untouched, Subscribed
<1>7. Taken
  BY <1>3, <1>4 DEF Taken
<1>8. QED
  BY <1>5, <1>6, <1>7 DEF FInv

\* The phases in which a command is under way.
LEMMA SentInFlight == Sent \subseteq InFlight
BY DEF InFlight

LEMMA NothingOwed ==
    ASSUME TInv, FInv, phase \notin InFlight
    PROVE  ~Owed
BY SentInFlight DEF TInv, OneResponse, FInv, OneReport, Owed

\* The command that is under way.
LEMMA FlightCommand ==
    ASSUME TInv, phase \in PhasesOf(test, cl), phase \in InFlight
    PROVE  /\ wanted.op \in Discovery \/ wanted.op \in Access
           /\ wanted.op \in Discovery => phase \notin Accessing /\ phase \notin Before(ListFor(wanted.op))
           /\ wanted.op \in Access => phase \in Accessing /\ KindOf(wanted.op) = "none"
           /\ wanted.op \in {"cfg_notify", "cfg_indicate"} <=> phase \in CfgPhase
           /\ phase \in CfgPhase => test \in Subscribes /\ wanted.lo = loc.dsc
<1>1. CASE phase \in SvcPhase
  BY <1>1 DEF wanted, CommandOf, Discovery, Access, Accessing, Before, ListFor, InFlight, Sent, SvcPhase, IncPhase,
     ChrPhase, DscPhase, ReadPhase, WritePhase, CfgPhase
<1>2. CASE phase \in IncPhase
  BY <1>2 DEF wanted, CommandOf, Discovery, Access, Accessing, Before, ListFor, InFlight, Sent, SvcPhase, IncPhase,
     ChrPhase, DscPhase, ReadPhase, WritePhase, CfgPhase
<1>3. CASE phase \in ChrPhase
  BY <1>3 DEF wanted, CommandOf, Discovery, Access, Accessing, Before, ListFor, InFlight, Sent, SvcPhase, IncPhase,
     ChrPhase, DscPhase, ReadPhase, WritePhase, CfgPhase
<1>4. CASE phase \in DscPhase
  BY <1>4 DEF wanted, CommandOf, Discovery, Access, Accessing, Before, ListFor, InFlight, Sent, SvcPhase, IncPhase,
     ChrPhase, DscPhase, ReadPhase, WritePhase, CfgPhase
<1>5. CASE phase \notin SvcPhase \cup IncPhase \cup ChrPhase \cup DscPhase
  <2>1. wanted.op = AccessOp(test) /\ wanted.lo = loc[AccessArg(test)]
    BY <1>5 DEF wanted, CommandOf
  <2>2. AccessOp(test) \in Access /\ AccessOp(test) \notin Discovery /\ KindOf(AccessOp(test)) = "none"
    BY DEF AccessOp, Access, Discovery, KindOf
  <2>3. phase \in ReadPhase \cup WritePhase \cup CfgPhase
    BY <1>5 DEF InFlight, Sent, SvcPhase, IncPhase, ChrPhase, DscPhase, ReadPhase, WritePhase, CfgPhase
  <2>4. /\ phase \in ReadPhase => test \in Reads
        /\ phase \in WritePhase => test \in Writes
        /\ phase \in CfgPhase => test \in Subscribes
    BY DEF PhasesOf, ReadPhase, WritePhase, CfgPhase
  <2>5. phase \in CfgPhase => phase \notin ReadPhase \cup WritePhase
    BY DEF ReadPhase, WritePhase, CfgPhase
  <2>6. AccessOp(test) \in {"cfg_notify", "cfg_indicate"} <=> phase \in CfgPhase
    BY <2>3, <2>4 DEF AccessOp, Reads, Writes, Subscribes
  <2>7. test \in Subscribes => AccessArg(test) = "dsc"
    BY DEF AccessArg, Subscribes
  <2>8. QED
    BY <2>1, <2>2, <2>3, <2>4, <2>6, <2>7 DEF Accessing
<1>6. QED
  BY <1>1, <1>2, <1>3, <1>4, <1>5

\* The phase of a test is one of its own.
LEMMA PhaseIs ==
    ASSUME TInv
    PROVE  phase \in PhasesOf(test, cl) /\ test \in Tests /\ cl \in BOOLEAN
<1>1. test \in Tests /\ cl \in BOOLEAN /\ pc \in 1 .. Len(Program(test)) + 1
  BY TestAssumption DEF TInv, Typed
<1>2. QED
  BY <1>1, PhaseMoves

\* What a write of the descriptor does: nobody was notified before.
LEMMA Subscribing ==
    ASSUME TInv, FInv, request # NoRequest \/ busy # NoRequest, phase \in InFlight, Effect(wanted)
    PROVE  /\ \A f \in Elements(stream) : f \notin Notifications
           /\ \A s \in Elements(callback) : s.do # "notification"
           /\ Elements(notes) = {}
           /\ subscribed' # None => phase \in CfgPhase /\ test \in Subscribes /\ subscribed' = ValueAbove(loc.dsc)
<1>1. phase \in PhasesOf(test, cl)
  BY PhaseIs
<1>2. subscribed = None
  BY DEF FInv, Subscribed
<1>3. /\ \A f \in Elements(stream) : f \notin Notifications
      /\ \A s \in Elements(callback) : s.do # "notification"
      /\ Elements(notes) = {}
  BY <1>2 DEF FInv, Subscribed
<1>4. subscribed' # None => wanted.op \in {"cfg_notify", "cfg_indicate"} /\ subscribed' = ValueAbove(wanted.lo)
  BY <1>2 DEF Effect
<1>5. QED
  BY <1>1, <1>3, <1>4, FlightCommand

LEMMA FAnswer ==
    ASSUME TInv, FInv, Answer
    PROVE  FInv'
<1>1. /\ UNCHANGED iutsKeep /\ air' = air /\ notified' = notified /\ missed' = missed
      /\ request' = NoRequest /\ request # NoRequest
  BY DEF Answer
<1>2. /\ phase \in Sent /\ phase \in InFlight /\ request = wanted /\ rspq = <<>> /\ ~Under(Responses)
      /\ busy = NoRequest /\ ~Under(Reports) /\ subscribed = None /\ Owed
      /\ request \in Requests /\ server \in Server
  BY <1>1, SentInFlight DEF TInv, Typed, OneResponse, FInv, OneReport, Subscribed, Owed
<1>3. AttStatus' = AttStatus /\ (\A d : ValueAbove(d)' = ValueAbove(d))
      /\ \A t, r : Outcome(t, r)' = Outcome(t, r)
  BY <1>1, IutsKeep, FixedSame
<1>4. PICK f : /\ stream' = Append(stream, f) /\ f \in Frame /\ f.type = "rsp" /\ f.op # "notification"
               /\ \/ f = Status("error") /\ air # "linked" /\ UNCHANGED <<busy, subscribed>>
                  \/ f = Status("success") /\ cl /\ air = "linked" /\ busy' = request /\ UNCHANGED subscribed
                  \/ f = Outcome("rsp", wanted) /\ ~cl /\ busy' = busy /\ Effect(wanted)
  <2>1. "error" \in Statuses /\ "success" \in Statuses
    BY DEF Statuses
  <2>2. CASE air = "lost" /\ stream' = Append(stream, Status("error")) /\ UNCHANGED <<busy, subscribed>>
    BY <1>2, <2>1, <2>2, StatusIs
  <2>3. CASE air = "linked" /\ cl /\ stream' = Append(stream, Status("success")) /\ busy' = request /\ UNCHANGED subscribed
    BY <1>2, <2>1, <2>3, StatusIs
  <2>4. CASE ~cl /\ stream' = Append(stream, Outcome("rsp", request)) /\ busy' = busy /\ Effect(request)
    BY <1>2, <2>4, OutcomeIs
  <2>5. QED
    BY <2>2, <2>3, <2>4 DEF Answer
<1>5. /\ Elements(stream') = Elements(stream) \cup {f}
      /\ \A X : Under(X)' <=> (Under(X) \/ f \in X)
      /\ \A X : Once(X, stream) /\ (f \in X => ~Under(X)) => Once(X, stream')
  BY <1>4, FrameSent DEF TInv
<1>6. f \notin Reports /\ f \notin Notifications /\ Reports' = Reports /\ Responses' = Responses
      /\ Notifications' = Notifications
  BY <1>4 DEF Reports, Notifications, Responses
<1>7. Under(Reports)' <=> Under(Reports)
  BY <1>5, <1>6
<1>8. OneReport'
  <2>1. busy' # NoRequest => cl /\ busy' = wanted /\ air = "linked"
    BY <1>2, <1>4
  <2>2. Once(Reports, stream')
    BY <1>5, <1>6 DEF FInv, OneReport
  <2>3. \A g \in Elements(stream') : g \in Reports => g = Outcome("ev", wanted)
    BY <1>5, <1>6 DEF FInv, OneReport
  <2>4. QED
    BY <1>1, <1>2, <1>3, <1>6, <1>7, <2>1, <2>2, <2>3, IutsKeep DEF OneReport
<1>9. Results'
  <2>1. RspIs(f)'
    <3>1. CASE f = Status("error") /\ air # "linked"
      <4>1. f.status = "error"
        BY <3>1 DEF Status
      <4>2. QED
        BY <1>1, <3>1, <4>1 DEF RspIs
    <3>2. CASE f = Status("success") /\ cl
      <4>1. f.status = "success"
        BY <3>2 DEF Status
      <4>2. QED
        BY <1>1, <3>2, <4>1, IutsKeep DEF RspIs
    <3>3. CASE f = Outcome("rsp", wanted) /\ ~cl
      BY <1>1, <1>3, <3>3, IutsKeep DEF RspIs
    <3>4. QED
      BY <1>4, <3>1, <3>2, <3>3
  <2>2. \A g \in Elements(stream') : g \in Responses => g = f
    BY <1>2, <1>5 DEF Under
  <2>3. QED
    BY <1>1, <1>2, <1>6, <2>1, <2>2, IutsKeep DEF Results
<1>10. Untouched'
  BY <1>1, <1>2, IutsKeep DEF FInv, Untouched
<1>11. Subscribed'
  <2>1. CASE subscribed' = subscribed
    <3>1. \A g \in Elements(stream') : g \in Notifications => g \in Elements(stream)
      BY <1>5, <1>6
    <3>2. QED
      BY <1>1, <1>2, <1>6, <2>1, <3>1, IutsKeep DEF FInv, Subscribed
  <2>2. CASE Effect(wanted) /\ busy' = busy
    <3>1. /\ \A g \in Elements(stream') : g \notin Notifications
          /\ \A s \in Elements(callback') : s.do # "notification"
          /\ Elements(notes') = {}
          /\ subscribed' # None => phase \in CfgPhase /\ test \in Subscribes /\ subscribed' = ValueAbove(loc.dsc)
      BY <1>1, <1>2, <1>5, <1>6, <2>2, Subscribing, IutsKeep
    <3>2. QED
      BY <1>1, <1>2, <1>3, <1>6, <2>2, <3>1, IutsKeep DEF Subscribed
  <2>3. QED
    BY <1>4, <2>1, <2>2
<1>12. Taken'
  BY <1>1, <1>3, IutsKeep DEF FInv, Taken
<1>13. QED
  BY <1>8, <1>9, <1>10, <1>11, <1>12 DEF FInv

LEMMA FReport ==
    ASSUME TInv, FInv, Report
    PROVE  FInv'
<1>1. /\ UNCHANGED iutsKeep /\ air' = air /\ request' = request /\ notified' = notified
      /\ missed' = missed /\ busy' = NoRequest /\ busy # NoRequest
      /\ stream' = Append(stream, Outcome("ev", busy)) /\ Effect(busy)
  BY DEF Report
<1>2. /\ cl /\ phase \in InFlight /\ busy = wanted /\ request = NoRequest /\ ~Under(Reports) /\ Owed
      /\ busy \in Requests /\ server \in Server
  BY <1>1 DEF TInv, Typed, FInv, OneReport, Owed
<1>3. AttStatus' = AttStatus /\ (\A d : ValueAbove(d)' = ValueAbove(d))
      /\ \A t, r : Outcome(t, r)' = Outcome(t, r)
  BY <1>1, IutsKeep, FixedSame
<1>4. PICK f : f = Outcome("ev", wanted)
  OBVIOUS
<1>5. f \in Frame /\ f.type = "ev" /\ f.op # "notification" /\ stream' = Append(stream, f)
  BY <1>1, <1>2, <1>4, OutcomeIs
<1>6. /\ Elements(stream') = Elements(stream) \cup {f}
      /\ \A X : Under(X)' <=> (Under(X) \/ f \in X)
      /\ \A X : Once(X, stream) /\ (f \in X => ~Under(X)) => Once(X, stream')
  BY <1>5, FrameSent DEF TInv
<1>7. f \notin Responses /\ f \notin Notifications /\ Reports' = Reports /\ Responses' = Responses
      /\ Notifications' = Notifications
  BY <1>5 DEF Reports, Notifications, Responses
<1>8. OneReport'
  <2>1. Once(Reports, stream')
    BY <1>2, <1>6 DEF FInv, OneReport
  <2>2. \A g \in Elements(stream') : g \in Reports => g = Outcome("ev", wanted)
    BY <1>4, <1>6 DEF FInv, OneReport
  <2>3. QED
    BY <1>1, <1>2, <1>3, <1>7, <2>1, <2>2, IutsKeep DEF OneReport
<1>9. Results'
  BY <1>1, <1>3, <1>6, <1>7, IutsKeep DEF FInv, Results, RspIs
<1>10. Untouched'
  BY <1>1, <1>2, IutsKeep DEF FInv, Untouched
<1>11. Subscribed'
  <2>1. /\ \A g \in Elements(stream') : g \notin Notifications
        /\ \A s \in Elements(callback') : s.do # "notification"
        /\ Elements(notes') = {}
        /\ subscribed' # None => phase \in CfgPhase /\ test \in Subscribes /\ subscribed' = ValueAbove(loc.dsc)
    BY <1>1, <1>2, <1>6, <1>7, Subscribing, IutsKeep
  <2>2. QED
    BY <1>1, <1>2, <1>3, <1>7, <2>1, IutsKeep DEF Subscribed
<1>12. Taken'
  BY <1>1, <1>3, IutsKeep DEF FInv, Taken
<1>13. QED
  BY <1>8, <1>9, <1>10, <1>11, <1>12 DEF FInv

LEMMA FNotify ==
    ASSUME TInv, FInv, Notify
    PROVE  FInv'
<1>1. PICK f : NotificationIs(f)
  BY NotifyIs
<1>2. /\ UNCHANGED iutsKeep /\ air' = air /\ request' = request
      /\ busy' = busy /\ subscribed' = subscribed /\ subscribed # None
      /\ stream' = Append(stream, f)
  BY <1>1 DEF Notify, CanNotify, NotificationIs
<1>3. f \in Frame
  BY <1>1 DEF NotificationIs
<1>4. AttStatus' = AttStatus /\ (\A d : ValueAbove(d)' = ValueAbove(d))
      /\ \A t, r : Outcome(t, r)' = Outcome(t, r)
  BY <1>2, IutsKeep, FixedSame
<1>5. /\ Elements(stream') = Elements(stream) \cup {f}
      /\ \A X : Under(X)' <=> (Under(X) \/ f \in X)
      /\ \A X : Once(X, stream) /\ (f \in X => ~Under(X)) => Once(X, stream')
  BY <1>2, <1>3, FrameSent DEF TInv
<1>6. f \notin Reports /\ f \notin Responses /\ Reports' = Reports /\ Responses' = Responses
      /\ Notifications' = Notifications
      /\ IF f.found = <<>> THEN att = "empty" ELSE f.found[1] = subscribed
  BY <1>1 DEF Reports, Notifications, Responses, NotificationIs
<1>7. Under(Reports)' <=> Under(Reports)
  BY <1>5, <1>6
<1>8. OneReport'
  <2>1. Once(Reports, stream')
    BY <1>5, <1>6 DEF FInv, OneReport
  <2>2. QED
    BY <1>2, <1>4, <1>5, <1>6, <1>7, <2>1, IutsKeep DEF FInv, OneReport
<1>9. Results'
  BY <1>2, <1>4, <1>5, <1>6, IutsKeep DEF FInv, Results, RspIs
<1>10. Untouched'
  BY <1>2, <1>7, IutsKeep DEF FInv, Untouched, Owed
<1>11. Subscribed'
  BY <1>2, <1>4, <1>5, <1>6, IutsKeep DEF FInv, Subscribed
<1>12. Taken'
  BY <1>2, <1>4, IutsKeep DEF FInv, Taken
<1>13. QED
  BY <1>8, <1>9, <1>10, <1>11, <1>12 DEF FInv

\* What only takes the link or the report of a write disturbs nothing.
LEMMA FAside ==
    ASSUME TInv, FInv, UNCHANGED <<fixed, testVars, db, clVars, rspq, rxVars>>,
           stream' = stream, request' = request, subscribed' = subscribed,
           busy' = NoRequest \/ (busy' = busy /\ air' = air),
           air' = air \/ air' # "linked"
    PROVE  FInv'
<1>1. /\ test' = test /\ cl' = cl /\ server' = server /\ att' = att
      /\ pc' = pc /\ outcome' = outcome /\ loc' = loc /\ todo' = todo /\ torn' = torn
      /\ phase' = phase /\ wanted' = wanted
  BY StandStill
<1>2. /\ db' = db /\ rspq' = rspq
      /\ lists' = lists /\ counts' = counts /\ values' = values /\ written' = written
      /\ notes' = notes /\ callback' = callback /\ dead' = dead
  BY DEF clVars, rxVars
<1>3. AttStatus' = AttStatus /\ (\A d : ValueAbove(d)' = ValueAbove(d))
      /\ \A t, r : Outcome(t, r)' = Outcome(t, r)
  BY <1>1, FixedSame
<1>4. Reports' = Reports /\ Responses' = Responses /\ Notifications' = Notifications
      /\ (\A X : Under(X)' <=> Under(X))
  BY DEF Reports, Notifications, Responses, Under
<1>5. OneReport'
  BY <1>1, <1>3, <1>4 DEF FInv, OneReport
<1>6. Results'
  BY <1>1, <1>2, <1>3, <1>4 DEF FInv, Results, RspIs
<1>7. Untouched'
  BY <1>1, <1>2, <1>4 DEF FInv, Untouched, Owed
<1>8. Subscribed'
  BY <1>1, <1>2, <1>3, <1>4 DEF FInv, Subscribed
<1>9. Taken'
  BY <1>1, <1>2, <1>3 DEF FInv, Taken
<1>10. QED
  BY <1>5, <1>6, <1>7, <1>8, <1>9 DEF FInv

LEMMA FLoseLink ==
    ASSUME TInv, FInv, NEW how \in {"lost", "crashed"}, LoseLink(how)
    PROVE  FInv'
BY FAside DEF LoseLink, iutsKeep

LEMMA FPeripheralRx ==
    ASSUME TInv, FInv, PeripheralRx
    PROVE  FInv'
BY FAside DEF PeripheralRx

LEMMA FStutter ==
    ASSUME TInv, FInv, UNCHANGED vars
    PROVE  FInv'
BY FAside DEF vars, airVars

LEMMA FRxFrame ==
    ASSUME TInv, FInv, RxFrame
    PROVE  FInv'
<1>1. PICK f : f = Head(stream)
  OBVIOUS
<1>2. /\ callback = <<>> /\ stream # <<>> /\ stream' = Tail(stream) /\ UNCHANGED rxKeeps
      /\ db' = db /\ dead' = dead
      /\ lists' = lists /\ counts' = counts /\ values' = values /\ written' = written /\ notes' = notes
      /\ \/ f.type = "rsp" /\ rspq' = Append(rspq, f) /\ callback' = callback
         \/ f.type = "ev" /\ cl /\ callback' = Callback(f) /\ rspq' = rspq
         \/ f.type = "ev" /\ ~cl /\ rspq' = rspq /\ callback' = callback
  BY <1>1 DEF RxFrame, clVars
<1>3. /\ f \in Elements(stream) /\ f \in Frame /\ FrameOK(f) /\ stream' \in Seq(Frame)
      /\ Elements(stream) = Elements(stream') \cup {f}
      /\ \A X : Under(X) <=> (Under(X)' \/ f \in X)
      /\ \A X : Once(X, stream) => Once(X, stream') /\ (f \in X => ~Under(X)')
  BY <1>1, <1>2, FrameTaken DEF TInv
<1>4. AttStatus' = AttStatus /\ (\A d : ValueAbove(d)' = ValueAbove(d))
      /\ \A t, r : Outcome(t, r)' = Outcome(t, r)
  BY <1>2, RxKeeps, FixedSame
<1>5. Reports' = Reports /\ Responses' = Responses /\ Notifications' = Notifications
  BY DEF Reports, Notifications, Responses
<1>6. /\ f.type = "rsp" <=> f \in Responses
      /\ f \in Reports \/ f \in Responses \/ f \in Notifications
      /\ f \in Notifications <=> f.op = "notification"
      /\ f \in Notifications => f \notin Responses /\ f \notin Reports
      /\ f \in Reports => f \notin Responses
  BY <1>3 DEF Reports, Notifications, Responses, Frame, FrameOK
<1>7. Owed' => Owed
  BY <1>2, <1>3, <1>5, RxKeeps DEF Owed
<1>8. OneReport'
  <2>1. Once(Reports, stream')
    BY <1>3 DEF FInv, OneReport
  <2>2. QED
    BY <1>2, <1>3, <1>4, <1>5, <2>1, RxKeeps DEF FInv, OneReport
<1>9. Results'
  <2>1. f.type = "rsp" => rspq' = <<f>> /\ RspIs(f)
    <3>1. f.type = "rsp" => rspq = <<>> /\ RspIs(f)
      BY <1>3, <1>6 DEF TInv, OneResponse, Under, FInv, Results
    <3>2. Append(<<>>, f) = <<f>>
      OBVIOUS
    <3>3. f.type = "rsp" => rspq' = Append(rspq, f)
      BY <1>2
    <3>4. QED
      BY <3>1, <3>2, <3>3
  <2>2. rspq' # <<>> => RspIs(Head(rspq'))
    <3>1. CASE f.type = "rsp"
      <4>1. Head(<<f>>) = f
        OBVIOUS
      <4>2. QED
        BY <2>1, <3>1, <4>1
    <3>2. CASE f.type # "rsp"
      BY <1>2, <3>2 DEF FInv, Results
    <3>3. QED
      BY <3>1, <3>2
  <2>3. \A g : RspIs(g)' <=> RspIs(g)
    BY <1>2, <1>4, RxKeeps DEF RspIs
  <2>4. \A g \in Elements(stream') : g \in Responses => RspIs(g)
    BY <1>3 DEF FInv, Results
  <2>5. QED
    BY <1>5, <2>2, <2>3, <2>4 DEF Results
<1>10. CASE callback' = callback
  <2>1. Untouched'
    BY <1>2, <1>7, <1>10, RxKeeps DEF FInv, Untouched
  <2>2. Subscribed'
    BY <1>2, <1>3, <1>4, <1>5, <1>10, RxKeeps DEF FInv, Subscribed
  <2>3. Taken'
    BY <1>2, <1>4, <1>10, RxKeeps DEF FInv, Taken
  <2>4. QED
    BY <1>8, <1>9, <2>1, <2>2, <2>3 DEF FInv
<1>11. CASE f \in Notifications /\ f.found # <<>> /\ cl /\ callback' = Callback(f)
  <2>1. PICK s : s = Statement("notification", "", f.found[1])
    OBVIOUS
  <2>2. s.do = "notification" /\ s.n = f.found[1]
    BY <2>1 DEF Statement
  <2>3. Elements(callback') = {s}
    BY <1>3, <1>6, <1>11, <2>1, CallbackNotification, ElementsOne
  <2>4. Untouched'
    BY <1>2, <1>7, <1>11, <2>2, <2>3, RxKeeps DEF FInv, Untouched
  <2>5. Subscribed'
    BY <1>2, <1>3, <1>4, <1>5, <1>11, <2>2, <2>3, RxKeeps DEF FInv, Subscribed
  <2>6. Taken'
    BY <1>2, <1>4, <2>2, <2>3, RxKeeps DEF FInv, Taken
  <2>7. QED
    BY <1>8, <1>9, <2>4, <2>5, <2>6 DEF FInv
<1>12. CASE f \in Reports /\ cl /\ callback' = Callback(f)
  <2>1. phase \in InFlight /\ f = Outcome("ev", wanted) /\ ~Owed'
    <3>1. Under(Reports)
      BY <1>3, <1>12 DEF Under
    <3>2. ~Under(Reports)'
      BY <1>3, <1>12 DEF FInv, OneReport
    <3>3. QED
      BY <1>2, <1>3, <1>5, <1>12, <3>1, <3>2, RxKeeps DEF FInv, OneReport, Owed
  <2>2. /\ f.op = wanted.op /\ phase \in PhasesOf(test, cl)
        /\ KindOf(wanted.op) = "none" => f.status = AttStatus
    BY <2>1, PhaseIs DEF Outcome
  <2>3. \A s \in Elements(callback') :
            /\ s.do # "notification"
            /\ s.do = "count" => phase \notin Before(s.of)
            /\ s.do \in {"clear", "value", "write_status"} => phase \in Accessing
            /\ s.do = "value" => s.of = AttStatus
    <3>1. CASE wanted.op \in Discovery
      <4>1. PICK list : list = ListFor(f.op)
        OBVIOUS
      <4>2. Elements(callback') \subseteq ListStatements(list, f.found)
        BY <1>3, <1>12, <2>2, <3>1, <4>1, CallbackDelivers DEF Delivers, Part
      <4>3. \A s \in ListStatements(list, f.found) : s.do \in {"list", "append", "count", "add"} /\ s.of = list
        BY DEF ListStatements, Statement
      <4>4. phase \notin Before(list)
        BY <2>1, <2>2, <3>1, <4>1, FlightCommand
      <4>5. QED
        BY <4>2, <4>3, <4>4
    <3>2. CASE wanted.op \in Access
      <4>1. PICK w, c, v : /\ w = Statement("write_status", "", 0) /\ c = clear_verify_values
                           /\ v = add_to_verify_values(f.status)
        OBVIOUS
      <4>2. w.do = "write_status" /\ c.do = "clear" /\ v.do = "value" /\ v.of = f.status
        BY <4>1 DEF Statement, clear_verify_values, add_to_verify_values
      <4>3. Elements(callback') \subseteq {w, c, v}
        BY <1>3, <1>12, <2>2, <3>2, <4>1, CallbackAccess
      <4>4. phase \in Accessing /\ f.status = AttStatus
        BY <2>1, <2>2, <3>2, FlightCommand
      <4>5. QED
        BY <4>2, <4>3, <4>4
    <3>3. QED
      BY <2>1, <2>2, <3>1, <3>2, FlightCommand
  <2>4. Untouched'
    BY <1>2, <1>12, <2>1, <2>3, RxKeeps DEF FInv, Untouched
  <2>5. Subscribed'
    BY <1>2, <1>3, <1>4, <1>5, <2>3, RxKeeps DEF FInv, Subscribed
  <2>6. Taken'
    BY <1>2, <1>4, <2>3, RxKeeps DEF FInv, Taken
  <2>7. QED
    BY <1>8, <1>9, <2>4, <2>5, <2>6 DEF FInv
<1>13. QED
  BY <1>2, <1>3, <1>6, <1>10, <1>11, <1>12, CallbackNotification

LEMMA FRxStatement ==
    ASSUME TInv, FInv, RxStatement
    PROVE  FInv'
<1>1. PICK s : s = Head(callback)
  OBVIOUS
<1>2. /\ callback # <<>> /\ callback' = Tail(callback) /\ UNCHANGED rxKeeps
      /\ rspq' = rspq /\ stream' = stream
      /\ counts' = IF s.do = "count" THEN [counts EXCEPT ![s.of] = s.n] ELSE counts
      /\ values' = CASE s.do = "clear" -> <<>>
                     [] s.do = "value" /\ s.of # "unknown" -> Append(values, s.of)
                     [] OTHER -> values
      /\ written' = (written \/ s.do = "write_status")
      /\ notes' = IF s.do = "notification" THEN Append(notes, s.n) ELSE notes
      /\ dead' = (s.do = "value" /\ s.of = "unknown")
  BY <1>1 DEF RxStatement
<1>3. callback \in Seq(AnyStatement) /\ cl
  BY <1>2 DEF TInv, Channels, FInv, Untouched
<1>4. Elements(callback) = Elements(callback') \cup {s} /\ StatementOK(s)
  BY <1>1, <1>2, <1>3, ElementsTail DEF TInv, Channels
<1>5. AttStatus' = AttStatus /\ (\A d : ValueAbove(d)' = ValueAbove(d))
      /\ \A t, r : Outcome(t, r)' = Outcome(t, r)
  BY <1>2, RxKeeps, FixedSame
<1>6. Reports' = Reports /\ Responses' = Responses /\ Notifications' = Notifications
      /\ (\A X : Under(X)' <=> Under(X)) /\ (Owed' <=> Owed)
  BY <1>2, RxKeeps DEF Reports, Notifications, Responses, Under, Owed
<1>7. OneReport'
  BY <1>2, <1>5, <1>6, RxKeeps DEF FInv, OneReport
<1>8. Results'
  BY <1>2, <1>5, <1>6, RxKeeps DEF FInv, Results, RspIs
<1>9. Untouched'
  <2>1. ASSUME NEW l \in Lists, phase \in Before(l) \/ (phase \in Listing(l) /\ Owed)
        PROVE  counts'[l] = NoCount /\ \A r \in Elements(callback') : r.do = "count" => r.of # l
    <3>1. counts[l] = NoCount /\ \A r \in Elements(callback) : r.do = "count" => r.of # l
      BY <2>1 DEF FInv, Untouched
    <3>2. counts \in [Lists -> Nat \cup {NoCount}]
      BY DEF TInv, Typed
    <3>3. QED
      BY <1>2, <1>4, <3>1, <3>2
  <2>2. ASSUME phase \notin Accessing \/ Owed
        PROVE  /\ values' = <<>> /\ ~written' /\ ~dead'
               /\ \A r \in Elements(callback') : r.do \notin {"clear", "value", "write_status"}
    <3>1. /\ values = <<>> /\ ~written
          /\ \A r \in Elements(callback) : r.do \notin {"clear", "value", "write_status"}
      BY <2>2 DEF FInv, Untouched
    <3>2. QED
      BY <1>2, <1>4, <3>1
  <2>3. QED
    BY <1>2, <1>3, <1>6, <2>1, <2>2, RxKeeps DEF Untouched
<1>10. Subscribed'
  <2>1. \A n \in Elements(notes') : n \in Elements(notes) \/ (s.do = "notification" /\ n = s.n)
    <3>1. notes \in Seq(Handle)
      BY DEF TInv, Typed
    <3>2. s.do = "notification" => Elements(notes') = Elements(notes) \cup {s.n}
      BY <1>2, <1>4, <3>1, ElementsAppend DEF StatementOK
    <3>3. QED
      BY <1>2, <3>2
  <2>2. QED
    BY <1>2, <1>4, <1>5, <1>6, <2>1, RxKeeps DEF FInv, Subscribed
<1>11. Taken'
  <2>1. \A v \in Elements(values') : v = AttStatus
    <3>1. values \in Seq(Statuses) /\ \A v \in Elements(values) : v = AttStatus
      BY DEF TInv, Typed, FInv, Taken
    <3>2. CASE s.do = "value" /\ s.of # "unknown"
      <4>1. s.of = AttStatus /\ s.of \in Statuses
        BY <1>4, <3>2 DEF FInv, Taken, StatementOK
      <4>2. Elements(Append(values, s.of)) = Elements(values) \cup {s.of}
        BY <3>1, <4>1, ElementsAppend
      <4>3. values' = Append(values, s.of)
        BY <1>2, <3>2
      <4>4. QED
        BY <3>1, <4>1, <4>2, <4>3
    <3>3. CASE s.do = "clear"
      BY <1>2, <3>3, ElementsEmpty
    <3>4. CASE s.do # "clear" /\ ~(s.do = "value" /\ s.of # "unknown")
      BY <1>2, <3>1, <3>4
    <3>5. QED
      BY <3>2, <3>3, <3>4
  <2>2. QED
    BY <1>2, <1>4, <1>5, <2>1, RxKeeps DEF FInv, Taken
<1>12. QED
  BY <1>7, <1>8, <1>9, <1>10, <1>11 DEF FInv

\* What a step of a test does to the phases.
LEMMA MovesFlight ==
    ASSUME NEW t, NEW c, NEW s, NEW from, NEW to, Moves(t, c, from, s, to), from \in InFlight
    PROVE  s.do \in {"rsp", "wait", "listen"}
<1> USE DEF InFlight, Sent
<1>1. CASE s.do = "send"
  BY <1>1 DEF Moves, SendMoves
<1>2. CASE s.do = "find"
  BY <1>2 DEF Moves, FindMoves
<1>3. CASE s.do = "reset"
  BY <1>3 DEF Moves, ResetMoves
<1>4. CASE s.do = "assert"
  BY <1>4 DEF Moves, AssertMoves
<1>5. CASE s.do = "disconnect"
  BY <1>5 DEF Moves, LastPhase
<1>6. QED
  BY <1>1, <1>2, <1>3, <1>4, <1>5 DEF Moves

LEMMA MovesOnward ==
    ASSUME NEW t, NEW c, NEW s, NEW from, NEW to, Moves(t, c, from, s, to)
    PROVE  /\ \A l \in Lists : to \in Before(l) => from \in Before(l)
           /\ to \notin Accessing => from \notin Accessing
           /\ from \in CfgPhase \cup {"done", "over"} => to \in CfgPhase \cup {"done", "over"}
           /\ from \in CfgPhase \cup {"done", "over"} => s.do \notin {"find", "send", "reset", "end"}
<1> USE DEF Moves, SendMoves, RspMoves, WaitMoves, FindMoves, ResetMoves, AssertMoves, LastPhase, SvcPhase, IncPhase,
            ChrPhase, DscPhase, ReadPhase, WritePhase, CfgPhase
<1>1. \A l \in Lists : to \in Before(l) => from \in Before(l)
  BY DEF Before, Lists
<1>2. to \notin Accessing => from \notin Accessing
  BY DEF Accessing
<1>3. from \in CfgPhase \cup {"done", "over"} => to \in CfgPhase \cup {"done", "over"}
  OBVIOUS
<1>4. from \in CfgPhase \cup {"done", "over"} => s.do \notin {"find", "send", "reset", "end"}
  OBVIOUS
<1>5. QED
  BY <1>1, <1>2, <1>3, <1>4

\* How a test gets to the phases in which it knows something.
LEMMA MovesKnow ==
    ASSUME NEW t, NEW c, NEW s, NEW from, NEW to, Moves(t, c, from, s, to)
    PROVE  /\ to \in {"read_got", "write_got", "cfg_got"} =>
                 IF c THEN s.do = "value" ELSE s.do = "rsp" /\ s.op = "value"
           /\ ~c /\ to \in {"cfg_future", "cfg_verify"} => from \in {"cfg_got", "cfg_future"}
           /\ ~c /\ to = "cfg_got" => from = "cfg_late"
           /\ to = "cfg_verify" => s.do = "notification" \/ ~c
           /\ to = "done" => from \in {"read_got", "write_sure", "write_got"} \/
                             (from = "cfg_verify" /\ s.do = "assert" /\ s.op = "handle")
           /\ to = "over" => from = LastPhase(t)
BY DEF Moves, SendMoves, RspMoves, WaitMoves, FindMoves, ResetMoves, AssertMoves, LastPhase

\* A step of the test that leads on while nothing is owed to it.
LEMMA FMoved ==
    ASSUME TInv, FInv, ~Owed, UNCHANGED mainKeeps, request' = request, rspq' = <<>>, ~Under(Responses),
           Moves(test, cl, phase, step, phase') \/ (~cl /\ phase \in {"svc_in", "inc_sent"} /\ phase' \in {"inc_next", "inc_in"}),
           counts' \in [Lists -> Nat \cup {NoCount}],
           \A l \in Lists : counts'[l] \in {counts[l], NoCount},
           values' = values, written' = written, notes' = notes,
           phase \in CfgPhase \cup {"done", "over"} => loc'.dsc = loc.dsc,
           phase' \in {"read_got", "write_got", "cfg_got"} => loc'.rsp = AttStatus,
           ~cl => phase' # "cfg_got",
           phase' = "cfg_verify" => loc'.handle = ValueAbove(loc.dsc),
           phase' = "done" /\ test \in Subscribes => loc'.handle = loc.handle /\ loc'.handle = loc'.value,
           phase' = "over" => loc' = loc
    PROVE  FInv'
<1>1. /\ test' = test /\ cl' = cl /\ server' = server /\ att' = att
      /\ callback' = callback /\ dead' = dead /\ stream' = stream
      /\ air' = air /\ busy' = busy /\ subscribed' = subscribed
      /\ \A X : Under(X)' <=> Under(X)
  BY MainKeeps
<1>2. AttStatus' = AttStatus /\ (\A d : ValueAbove(d)' = ValueAbove(d))
      /\ \A t, r : Outcome(t, r)' = Outcome(t, r)
  BY <1>1, FixedSame
<1>3. /\ Reports' = Reports /\ Responses' = Responses /\ Notifications' = Notifications
      /\ busy = NoRequest /\ request = NoRequest /\ ~Under(Reports) /\ ~Owed'
  BY <1>1 DEF Reports, Responses, Notifications, Owed
<1>4. CASE ~cl /\ phase \in {"svc_in", "inc_sent"} /\ phase' \in {"inc_next", "inc_in"}
  <2>1. phase \notin CfgPhase \cup {"done", "over"} /\ phase \notin Accessing
    BY <1>4 DEF CfgPhase, Accessing, ReadPhase, WritePhase
  <2>2. OneReport' /\ Results'
    BY <1>1, <1>3 DEF FInv, OneReport, Results, Under
  <2>3. Untouched'
    <3>1. callback = <<>> /\ notes = <<>> /\ \A l \in Lists : counts'[l] = NoCount
      BY <1>4 DEF FInv, Untouched
    <3>2. values = <<>> /\ ~written /\ ~dead
      BY <2>1 DEF FInv, Untouched
    <3>3. QED
      BY <1>1, <1>4, <3>1, <3>2, ElementsEmpty DEF Untouched
  <2>4. Subscribed'
    BY <1>1, <1>2, <1>3, <2>1 DEF FInv, Subscribed
  <2>5. Taken'
    BY <1>1, <1>2, <1>4 DEF FInv, Taken
  <2>6. QED
    BY <2>2, <2>3, <2>4, <2>5 DEF FInv
<1>5. CASE Moves(test, cl, phase, step, phase')
  <2>1. /\ \A l \in Lists : phase' \in Before(l) => phase \in Before(l)
        /\ phase' \notin Accessing => phase \notin Accessing
        /\ phase \in CfgPhase \cup {"done", "over"} => phase' \in CfgPhase \cup {"done", "over"}
    BY <1>5, MovesOnward
  <2>2. OneReport' /\ Results'
    BY <1>1, <1>3 DEF FInv, OneReport, Results, Under
  <2>3. Untouched'
    BY <1>1, <1>3, <2>1 DEF FInv, Untouched
  <2>4. Subscribed'
    BY <1>1, <1>2, <1>3, <2>1 DEF FInv, Subscribed
  <2>5. Taken'
    <3>1. phase \in PhasesOf(test, cl)
      BY PhaseIs
    <3>2. /\ ~cl /\ phase' \in {"cfg_future", "cfg_verify"} => phase \in {"cfg_got", "cfg_future"}
          /\ phase' = "done" => phase \in {"read_got", "write_sure", "write_got", "cfg_verify"}
          /\ phase' = "over" => phase = LastPhase(test)
      BY <1>5, MovesKnow
    <3>3. /\ test \in Subscribes /\ phase' = "done" => phase = "cfg_verify"
          /\ test \in Subscribes /\ phase' = "over" => phase = "done"
          /\ phase \in {"cfg_verify", "done"} => phase \in CfgPhase \cup {"done", "over"}
      BY <3>1, <3>2 DEF PhasesOf, Subscribes, Reads, Writes, LastPhase, CfgPhase
    <3>4. ~cl /\ test \in Subscribes => phase' \notin {"cfg_got", "cfg_future", "cfg_verify", "done", "over"}
      BY <3>2, <3>3 DEF FInv, Taken
    <3>5. test \in Subscribes /\ phase' \in {"cfg_verify", "done", "over"} => loc'.handle = ValueAbove(loc'.dsc)
      <4>1. CASE phase' = "cfg_verify"
        <5>1. phase \in CfgPhase
          <6>1. phase \in {"cfg_noted", "cfg_future"}
            BY <1>5, <4>1 DEF Moves, SendMoves, RspMoves, WaitMoves, FindMoves, ResetMoves, AssertMoves, LastPhase
          <6>2. QED
            BY <6>1 DEF CfgPhase
        <5>2. QED
          BY <4>1, <5>1
      <4>2. CASE test \in Subscribes /\ phase' = "done"
        BY <3>3, <4>2 DEF FInv, Taken
      <4>3. CASE test \in Subscribes /\ phase' = "over"
        BY <3>3, <4>3 DEF FInv, Taken
      <4>4. QED
        BY <4>1, <4>2, <4>3
    <3>6. test \in Subscribes /\ phase' \in {"done", "over"} => loc'.handle = loc'.value
      BY <3>3 DEF FInv, Taken
    <3>7. /\ \A v \in Elements(values') : v = AttStatus
          /\ \A s \in Elements(callback') : s.do = "value" => s.of = AttStatus
      BY <1>1 DEF FInv, Taken
    <3>8. QED
      BY <1>1, <1>2, <3>4, <3>5, <3>6, <3>7 DEF Taken
  <2>6. QED
    BY <2>2, <2>3, <2>4, <2>5 DEF FInv
<1>6. QED
  BY <1>4, <1>5

\* A test that fails where it is.
LEMMA FFailed ==
    ASSUME TInv, FInv, pc' = pc, UNCHANGED mainKeeps, UNCHANGED <<loc, todo, counts, values, written, notes>>,
           request' = request, rspq' = rspq \/ rspq' = <<>>
    PROVE  FInv'
<1>1. /\ test' = test /\ cl' = cl /\ server' = server /\ att' = att
      /\ callback' = callback /\ dead' = dead /\ stream' = stream
      /\ air' = air /\ busy' = busy /\ subscribed' = subscribed
      /\ \A X : Under(X)' <=> Under(X)
  BY MainKeeps
<1>2. AttStatus' = AttStatus /\ (\A d : ValueAbove(d)' = ValueAbove(d))
      /\ \A t, r : Outcome(t, r)' = Outcome(t, r)
  BY <1>1, FixedSame
<1>3. phase' = phase /\ wanted' = wanted
  BY <1>1, PhaseSame DEF wanted, CommandOf
<1>4. Reports' = Reports /\ Responses' = Responses /\ Notifications' = Notifications
  BY DEF Reports, Responses, Notifications
<1>5. OneReport'
  BY <1>1, <1>2, <1>3, <1>4 DEF FInv, OneReport
<1>6. Results'
  BY <1>1, <1>2, <1>3, <1>4 DEF FInv, Results, RspIs
<1>7. Untouched'
  BY <1>1, <1>3, <1>4 DEF FInv, Untouched, Owed
<1>8. Subscribed'
  BY <1>1, <1>2, <1>3, <1>4 DEF FInv, Subscribed
<1>9. Taken'
  BY <1>1, <1>2, <1>3 DEF FInv, Taken
<1>10. QED
  BY <1>5, <1>6, <1>7, <1>8, <1>9 DEF FInv

\* Where a step of the test leads, when it leads on.
LEMMA LeadsOn ==
    ASSUME TInv, outcome = "running", pc' = pc + 1, UNCHANGED mainKeeps
    PROVE  Moves(test, cl, phase, step, phase') /\ phase' \in PhasesOf(test, cl)
BY StepTakes, MainKeeps

\* What is not owed is not under way.
LEMMA Settled ==
    ASSUME TInv, FInv, outcome = "running", pc' = pc + 1, UNCHANGED mainKeeps,
           step.do \notin {"rsp", "wait", "listen"}, rspq' = rspq
    PROVE  ~Owed /\ ~Under(Responses) /\ rspq' = <<>> /\ phase \notin Sent
<1>1. Moves(test, cl, phase, step, phase')
  BY LeadsOn
<1>2. phase \notin InFlight
  BY <1>1, MovesFlight
<1>3. QED
  BY <1>2, NothingOwed, SentInFlight DEF TInv, OneResponse

LEMMA FResetList ==
    ASSUME TInv, FInv, ResetList
    PROVE  FInv'
<1>1. /\ outcome = "running" /\ step.do = "reset" /\ pc' = pc + 1
      /\ counts' = [counts EXCEPT ![step.op] = NoCount]
      /\ UNCHANGED mainKeeps /\ loc' = loc
      /\ values' = values /\ written' = written /\ notes' = notes /\ rspq' = rspq /\ request' = request
  BY DEF ResetList, At, GoOn
<1>2. ~Owed /\ ~Under(Responses) /\ rspq' = <<>> /\ phase \notin Sent
  BY <1>1, Settled
<1>3. Moves(test, cl, phase, step, phase')
  BY <1>1, LeadsOn
<1>4. phase' \in {"chr_reset", "dsc_reset"}
  BY <1>1, <1>3 DEF Moves, ResetMoves
<1>5. /\ counts' \in [Lists -> Nat \cup {NoCount}] /\ \A l \in Lists : counts'[l] \in {counts[l], NoCount}
  BY <1>1 DEF TInv, Typed
<1>6. QED
  BY <1>1, <1>2, <1>3, <1>4, <1>5, FMoved

\* The phases in which a command is sent.
LEMMA MovesSendFrom ==
    ASSUME NEW t, NEW c, NEW s, NEW from, NEW to, Moves(t, c, from, s, to), s.do = "send"
    PROVE  /\ c => \A l \in Lists : to \in Listing(l) => from \in Before(l)
           /\ from \notin Accessing /\ to \in Sent /\ from \notin Sent
           /\ from \notin CfgPhase \cup {"done", "over"}
<1> USE DEF Moves, SendMoves
<1>1. c => \A l \in Lists : to \in Listing(l) => from \in Before(l)
  BY DEF Listing, Before, Lists, SvcPhase, ChrPhase
<1>2. from \notin Accessing
  BY DEF Accessing, ReadPhase, WritePhase, CfgPhase
<1>3. to \in Sent /\ from \notin Sent
  BY DEF Sent
<1>4. from \notin CfgPhase \cup {"done", "over"}
  BY DEF CfgPhase
<1>5. QED
  BY <1>1, <1>2, <1>3, <1>4

LEMMA FSendCommand ==
    ASSUME TInv, FInv, SendCommand
    PROVE  FInv'
<1>1. /\ outcome = "running" /\ step.do = "send" /\ pc' = pc + 1
      /\ UNCHANGED mainKeeps /\ loc' = loc
      /\ counts' = counts /\ values' = values /\ written' = written /\ notes' = notes /\ rspq' = rspq
  BY DEF SendCommand, At, GoOn, clVars
<1>2. ~Owed /\ ~Under(Responses) /\ rspq' = <<>> /\ phase \notin Sent
  BY <1>1, Settled
<1>3. Moves(test, cl, phase, step, phase')
  BY <1>1, LeadsOn
<1>4. /\ cl => \A l \in Lists : phase' \in Listing(l) => phase \in Before(l)
      /\ phase \notin Accessing /\ phase' \in Sent /\ phase \notin CfgPhase \cup {"done", "over"}
      /\ \A l \in Lists : phase' \in Before(l) => phase \in Before(l)
  BY <1>1, <1>3, MovesSendFrom, MovesOnward
<1>5. /\ test' = test /\ cl' = cl /\ server' = server /\ att' = att
      /\ callback' = callback /\ dead' = dead /\ stream' = stream
      /\ air' = air /\ busy' = busy /\ subscribed' = subscribed
      /\ \A X : Under(X)' <=> Under(X)
  BY <1>1, MainKeeps
<1>6. AttStatus' = AttStatus /\ (\A d : ValueAbove(d)' = ValueAbove(d))
      /\ \A t, r : Outcome(t, r)' = Outcome(t, r)
  BY <1>5, FixedSame
<1>7. /\ Reports' = Reports /\ Responses' = Responses /\ Notifications' = Notifications
      /\ busy = NoRequest /\ request = NoRequest /\ ~Under(Reports)
  BY <1>2 DEF Reports, Responses, Notifications, Owed
<1>8. OneReport' /\ Results'
  BY <1>2, <1>5, <1>7 DEF FInv, OneReport, Results, Under
<1>9. Untouched'
  <2>1. values = <<>> /\ ~written /\ ~dead /\ \A s \in Elements(callback) : s.do \notin {"clear", "value", "write_status"}
    BY <1>4 DEF FInv, Untouched
  <2>2. ~cl => callback = <<>> /\ notes = <<>> /\ \A l \in Lists : counts[l] = NoCount
    BY DEF FInv, Untouched
  <2>3. ASSUME NEW l \in Lists, phase' \in Before(l) \/ phase' \in Listing(l)
        PROVE  counts[l] = NoCount /\ \A s \in Elements(callback) : s.do = "count" => s.of # l
    <3>1. CASE phase \in Before(l)
      BY <3>1 DEF FInv, Untouched
    <3>2. CASE ~cl
      BY <2>2, <3>2, ElementsEmpty
    <3>3. QED
      BY <1>4, <2>3, <3>1, <3>2
  <2>4. QED
    BY ONLY <1>1, <1>5, <2>1, <2>2, <2>3 DEF Untouched
<1>10. Subscribed'
  BY <1>1, <1>4, <1>5, <1>7 DEF FInv, Subscribed
<1>11. Taken'
  <2>1. phase' \notin {"read_got", "write_got", "cfg_got", "cfg_future", "cfg_verify", "done", "over"}
    BY <1>4 DEF Sent
  <2>2. QED
    BY <1>1, <1>5, <1>6, <2>1 DEF FInv, Taken
<1>12. QED
  BY <1>8, <1>9, <1>10, <1>11 DEF FInv

\* A wait is over when nothing is owed any more.
LEMMA WaitOver ==
    ASSUME TInv, FInv, WaitEnds
    PROVE  ~Owed /\ ~Under(Responses) /\ rspq' = <<>> /\ Moves(test, cl, phase, step, phase') /\ cl
           /\ WaitMoves(cl, step.op, phase, phase') /\ phase \notin Sent
<1>1. /\ outcome = "running" /\ step.do = "wait" /\ pc' = pc + 1 /\ UNCHANGED mainKeeps /\ rspq' = rspq
      /\ Complete(step.op) \/ Quiet
  BY DEF WaitEnds, At, GoOn
<1>2. Moves(test, cl, phase, step, phase')
  BY <1>1, LeadsOn
<1>3. WaitMoves(cl, step.op, phase, phase') /\ phase \notin Sent
  BY <1>1, <1>2 DEF Moves, WaitMoves, Sent
<1>4. ~Under(Responses) /\ rspq' = <<>> /\ request = NoRequest
  BY <1>1, <1>3 DEF TInv, OneResponse
<1>5. ASSUME Owed
      PROVE  FALSE
  <2>1. phase \in InFlight
    BY <1>5, NothingOwed
  <2>2. CASE Quiet
    <3>1. /\ \A l \in Lists : phase \in Listing(l) => counts[l] = NoCount
          /\ ~dead
      BY <1>5 DEF FInv, Untouched
    <3>2. stream = <<>> /\ busy = NoRequest
      BY <2>2, <3>1 DEF Quiet
    <3>3. QED
      BY <1>4, <1>5, <3>2, ElementsEmpty DEF Owed, Under
  <2>3. CASE Complete(step.op)
    <3>1. CASE step.op \in Lists
      <4>1. phase \in Listing(step.op)
        BY <1>3, <3>1 DEF WaitMoves, Lists, Listing
      <4>2. counts[step.op] = NoCount
        BY <1>5, <3>1, <4>1 DEF FInv, Untouched
      <4>3. is_procedure_done(step.op)
        <5> DEFINE what == step.op
        <5>1. Complete(what) /\ what \in Lists
          BY <2>3, <3>1
        <5>2. what # "read" /\ what # "write_rsp" /\ what # "notifications"
          BY <5>1 DEF Lists
        <5> HIDE DEF what
        <5>3. is_procedure_done(what)
          BY <5>1, <5>2 DEF Complete
        <5>4. QED
          BY <5>3 DEF what
      <4>4. QED
        BY <4>2, <4>3 DEF is_procedure_done
    <3>2. CASE step.op \in {"read", "write_rsp"}
      <4>1. values = <<>> /\ ~written
        BY <1>5 DEF FInv, Untouched
      <4>2. QED
        BY <2>3, <3>2, <4>1 DEF Complete, Lists
    <3>3. CASE step.op = "notifications"
      BY <1>3, <2>1, <3>3 DEF WaitMoves, InFlight, Sent
    <3>4. QED
      BY <1>3, <3>1, <3>2, <3>3 DEF WaitMoves, Lists
  <2>4. QED
    BY <1>1, <2>2, <2>3
<1>6. QED
  BY <1>2, <1>3, <1>4, <1>5 DEF WaitMoves

LEMMA FWaitEnds ==
    ASSUME TInv, FInv, WaitEnds
    PROVE  FInv'
<1>1. /\ UNCHANGED mainKeeps /\ loc' = loc
      /\ counts' = counts /\ values' = values /\ written' = written /\ notes' = notes
      /\ rspq' = rspq /\ request' = request
  BY DEF WaitEnds, clVars
<1>2. ~Owed /\ ~Under(Responses) /\ rspq' = <<>> /\ Moves(test, cl, phase, step, phase')
      /\ WaitMoves(cl, step.op, phase, phase')
  BY WaitOver
<1>3. phase' \notin {"read_got", "write_got", "cfg_got", "cfg_verify", "done", "over"}
  BY <1>2 DEF WaitMoves
<1>4. counts' \in [Lists -> Nat \cup {NoCount}]
  BY <1>1 DEF TInv, Typed
<1>5. QED
  BY <1>1, <1>2, <1>3, <1>4, FMoved

LEMMA FReadTimeout ==
    ASSUME TInv, FInv, ReadTimeout
    PROVE  FInv'
BY FFailed DEF ReadTimeout, Fail, clVars

LEMMA FFindAttribute ==
    ASSUME TInv, FInv, FindAttribute
    PROVE  FInv'
<1>1. /\ outcome = "running" /\ step.do = "find"
      /\ UNCHANGED mainKeeps /\ todo' = todo
      /\ counts' = counts /\ values' = values /\ written' = written /\ notes' = notes
      /\ rspq' = rspq /\ request' = request
      /\ \/ pc' = pc /\ loc' = loc
         \/ pc' = pc + 1
  BY DEF FindAttribute, At, GoOn, Fail, clVars
<1>2. CASE pc' = pc /\ loc' = loc
  BY <1>1, <1>2, FFailed
<1>3. CASE pc' = pc + 1
  <2>1. ~Owed /\ ~Under(Responses) /\ rspq' = <<>> /\ Moves(test, cl, phase, step, phase')
    BY <1>1, <1>3, Settled, LeadsOn
  <2>2. phase' \in {"svc", "inc", "chr", "dsc"} /\ phase \notin CfgPhase \cup {"done", "over"}
    BY <1>1, <2>1, MovesFind DEF FindMoves, CfgPhase
  <2>3. counts' \in [Lists -> Nat \cup {NoCount}]
    BY <1>1 DEF TInv, Typed
  <2>4. QED
    BY <1>1, <2>1, <2>2, <2>3, FMoved
<1>4. QED
  BY <1>1, <1>2, <1>3

LEMMA FFindCharacteristicEnd ==
    ASSUME TInv, FInv, FindCharacteristicEnd
    PROVE  FInv'
<1>1. /\ outcome = "running" /\ step.do = "end"
      /\ UNCHANGED mainKeeps /\ todo' = todo
      /\ counts' = counts /\ values' = values /\ written' = written /\ notes' = notes
      /\ rspq' = rspq /\ request' = request
      /\ \/ pc' = pc /\ loc' = loc
         \/ pc' = pc + 1
  BY DEF FindCharacteristicEnd, At, GoOn, Fail, clVars
<1>2. CASE pc' = pc /\ loc' = loc
  BY <1>1, <1>2, FFailed
<1>3. CASE pc' = pc + 1
  <2>1. ~Owed /\ ~Under(Responses) /\ rspq' = <<>> /\ Moves(test, cl, phase, step, phase')
    BY <1>1, <1>3, Settled, LeadsOn
  <2>2. phase' = "end" /\ phase = "chr"
    BY <1>1, <2>1 DEF Moves
  <2>3. phase \notin CfgPhase \cup {"done", "over"}
    BY <2>2 DEF CfgPhase
  <2>4. counts' \in [Lists -> Nat \cup {NoCount}]
    BY <1>1 DEF TInv, Typed
  <2>5. QED
    BY <1>1, <2>1, <2>2, <2>3, <2>4, FMoved
<1>4. QED
  BY <1>1, <1>2, <1>3

LEMMA FWaitFuture ==
    ASSUME TInv, FInv, WaitFuture
    PROVE  FInv'
<1>1. /\ outcome = "running" /\ step.do = "future"
      /\ UNCHANGED mainKeeps /\ loc' = loc /\ todo' = todo
      /\ counts' = counts /\ values' = values /\ written' = written /\ notes' = notes
      /\ rspq' = rspq /\ request' = request
      /\ pc' = pc \/ pc' = pc + 1
  BY DEF WaitFuture, At, GoOn, Fail, clVars
<1>2. CASE pc' = pc
  BY <1>1, <1>2, FFailed
<1>3. CASE pc' = pc + 1
  <2>1. ~Owed /\ ~Under(Responses) /\ rspq' = <<>> /\ Moves(test, cl, phase, step, phase')
    BY <1>1, <1>3, Settled, LeadsOn
  <2>2. phase \in PhasesOf(test, cl)
    BY PhaseIs
  <2>3. \/ phase \in {"write_sure", "write_got"} /\ phase' = "done"
        \/ ~cl /\ phase = "cfg_future" /\ phase' = "cfg_verify"
    BY <1>1, <2>1 DEF Moves
  <2>4. /\ phase \in {"write_sure", "write_got"} => test \notin Subscribes
        /\ phase = "cfg_future" => test \in Subscribes
    BY <2>2 DEF PhasesOf, Writes, Subscribes
  <2>5. ~(~cl /\ phase = "cfg_future")
    BY <2>4 DEF FInv, Taken
  <2>6. counts' \in [Lists -> Nat \cup {NoCount}]
    BY <1>1 DEF TInv, Typed
  <2>7. QED
    BY <1>1, <2>1, <2>3, <2>4, <2>5, <2>6, FMoved
<1>4. QED
  BY <1>1, <1>2, <1>3

LEMMA FTakeFirst ==
    ASSUME TInv, FInv, TakeFirst
    PROVE  FInv'
<1>1. /\ outcome = "running" /\ step.do \in {"value", "notification"}
      /\ UNCHANGED mainKeeps /\ todo' = todo
      /\ counts' = counts /\ values' = values /\ written' = written /\ notes' = notes
      /\ rspq' = rspq /\ request' = request
      /\ \/ pc' = pc + 1 /\ step.do = "value" /\ values # <<>> /\ loc' = [loc EXCEPT !.rsp = Head(values)]
         \/ pc' = pc + 1 /\ step.do = "notification" /\ notes # <<>> /\ loc' = [loc EXCEPT !.handle = Head(notes)]
         \/ pc' = pc /\ loc' = loc
  BY DEF TakeFirst, At, GoOn, Fail, clVars
<1>2. CASE pc' = pc /\ loc' = loc
  BY <1>1, <1>2, FFailed
<1>3. counts' \in [Lists -> Nat \cup {NoCount}] /\ loc \in LocRecord
  BY <1>1 DEF TInv, Typed
<1>4. CASE pc' = pc + 1 /\ step.do = "value" /\ values # <<>> /\ loc' = [loc EXCEPT !.rsp = Head(values)]
  <2>1. ~Owed /\ ~Under(Responses) /\ rspq' = <<>> /\ Moves(test, cl, phase, step, phase')
    BY <1>1, <1>4, Settled, LeadsOn
  <2>2. phase' \in {"read_got", "write_got", "cfg_got"} /\ cl
    BY <1>4, <2>1 DEF Moves
  <2>3. Head(values) = AttStatus
    <3>1. values \in Seq(Statuses)
      BY DEF TInv, Typed
    <3>2. Head(values) \in Elements(values)
      BY <1>4, <3>1, ElementsTail
    <3>3. QED
      BY <3>2 DEF FInv, Taken
  <2>4. loc'.rsp = AttStatus /\ loc'.dsc = loc.dsc
    BY <1>3, <1>4, <2>3 DEF LocRecord
  <2>5. QED
    BY <1>1, <1>3, <2>1, <2>2, <2>4, FMoved
<1>5. CASE pc' = pc + 1 /\ step.do = "notification" /\ notes # <<>> /\ loc' = [loc EXCEPT !.handle = Head(notes)]
  <2>1. ~Owed /\ ~Under(Responses) /\ rspq' = <<>> /\ Moves(test, cl, phase, step, phase')
    BY <1>1, <1>5, Settled, LeadsOn
  <2>2. phase' = "cfg_verify" /\ cl
    BY <1>5, <2>1 DEF Moves
  <2>3. Head(notes) = ValueAbove(loc.dsc)
    <3>1. notes \in Seq(Handle)
      BY DEF TInv, Typed
    <3>2. Head(notes) \in Elements(notes)
      BY <1>5, <3>1, ElementsTail
    <3>3. QED
      BY <3>2 DEF FInv, Subscribed
  <2>4. loc'.handle = ValueAbove(loc.dsc) /\ loc'.dsc = loc.dsc
    BY <1>3, <1>5, <2>3 DEF LocRecord
  <2>5. QED
    BY <1>1, <1>3, <2>1, <2>2, <2>4, FMoved
<1>6. QED
  BY <1>1, <1>2, <1>4, <1>5

LEMMA FCheckEqual ==
    ASSUME TInv, FInv, CheckEqual
    PROVE  FInv'
<1>1. /\ outcome = "running" /\ step.do = "assert"
      /\ UNCHANGED mainKeeps /\ loc' = loc /\ todo' = todo
      /\ counts' = counts /\ values' = values /\ written' = written /\ notes' = notes
      /\ rspq' = rspq /\ request' = request
      /\ \/ pc' = pc + 1 /\ (step.op # "rsp" => loc.handle = loc.value)
         \/ pc' = pc
  BY DEF CheckEqual, At, GoOn, Fail, clVars
<1>2. CASE pc' = pc
  BY <1>1, <1>2, FFailed
<1>3. CASE pc' = pc + 1 /\ (step.op # "rsp" => loc.handle = loc.value)
  <2>1. ~Owed /\ ~Under(Responses) /\ rspq' = <<>> /\ Moves(test, cl, phase, step, phase')
    BY <1>1, <1>3, Settled, LeadsOn
  <2>2. phase \in PhasesOf(test, cl)
    BY PhaseIs
  <2>3. /\ phase' \in {"done", "write_sure", "cfg_note", "cfg_future"}
        /\ phase' = "done" => phase = "read_got" \/ step.op # "rsp"
    BY <1>1, <2>1 DEF Moves, AssertMoves
  <2>4. phase = "read_got" => test \notin Subscribes
    BY <2>2 DEF PhasesOf, Reads, Subscribes
  <2>5. counts' \in [Lists -> Nat \cup {NoCount}]
    BY <1>1 DEF TInv, Typed
  <2>6. QED
    BY <1>1, <1>3, <2>1, <2>3, <2>4, <2>5, FMoved
<1>4. QED
  BY <1>1, <1>2, <1>3

LEMMA FDisconnect ==
    ASSUME TInv, FInv, Disconnect
    PROVE  FInv'
<1>1. /\ outcome = "running" /\ step.do = "disconnect"
      /\ UNCHANGED mainKeeps /\ loc' = loc /\ todo' = todo
      /\ counts' = counts /\ values' = values /\ written' = written /\ notes' = notes
      /\ rspq' = rspq /\ request' = request
      /\ pc' = pc + 1 \/ pc' = pc
  BY DEF Disconnect, At, Fail, clVars
<1>2. CASE pc' = pc
  BY <1>1, <1>2, FFailed
<1>3. CASE pc' = pc + 1
  <2>1. ~Owed /\ ~Under(Responses) /\ rspq' = <<>> /\ Moves(test, cl, phase, step, phase')
    BY <1>1, <1>3, Settled, LeadsOn
  <2>2. phase' = "over"
    BY <1>1, <2>1 DEF Moves
  <2>3. counts' \in [Lists -> Nat \cup {NoCount}]
    BY <1>1 DEF TInv, Typed
  <2>4. QED
    BY <1>1, <2>1, <2>2, <2>3, FMoved
<1>4. QED
  BY <1>1, <1>2, <1>3

\* A step of the test that leads on while the command is under way.
LEMMA FOnWay ==
    ASSUME TInv, FInv, UNCHANGED mainKeeps, UNCHANGED <<loc, todo, counts, values, written, notes>>,
           request' = request, rspq' = rspq \/ rspq' = <<>>,
           phase \in InFlight, phase' \in InFlight, wanted' = wanted,
           \A l \in Lists : /\ phase' \in Before(l) => phase \in Before(l)
                            /\ phase' \in Listing(l) => phase \in Listing(l),
           phase \in Accessing <=> phase' \in Accessing,
           phase \in CfgPhase => phase' \in CfgPhase
    PROVE  FInv'
<1>1. /\ test' = test /\ cl' = cl /\ server' = server /\ att' = att
      /\ callback' = callback /\ dead' = dead /\ stream' = stream
      /\ air' = air /\ busy' = busy /\ subscribed' = subscribed
      /\ \A X : Under(X)' <=> Under(X)
  BY MainKeeps
<1>2. AttStatus' = AttStatus /\ (\A d : ValueAbove(d)' = ValueAbove(d))
      /\ \A t, r : Outcome(t, r)' = Outcome(t, r)
  BY <1>1, FixedSame
<1>3. Reports' = Reports /\ Responses' = Responses /\ Notifications' = Notifications
  BY DEF Reports, Responses, Notifications
<1>4. /\ phase \notin {"done", "over"}
      /\ phase' \notin {"read_got", "write_got", "cfg_got", "cfg_future", "cfg_verify", "done", "over"}
  BY DEF InFlight, Sent
<1>5. OneReport'
  BY <1>1, <1>2, <1>3 DEF FInv, OneReport
<1>6. Results'
  BY <1>1, <1>2, <1>3 DEF FInv, Results, RspIs
<1>7. Untouched'
  BY <1>1, <1>3 DEF FInv, Untouched, Owed
<1>8. Subscribed'
  BY <1>1, <1>2, <1>3, <1>4 DEF FInv, Subscribed
<1>9. Taken'
  BY <1>1, <1>2, <1>4 DEF FInv, Taken
<1>10. QED
  BY <1>5, <1>6, <1>7, <1>8, <1>9 DEF FInv

\* Where a step leads that is taken while the command is under way.
LEMMA MovesFlying ==
    ASSUME NEW t, NEW c, NEW s, NEW from, NEW to, Moves(t, c, from, s, to),
           (s.do = "rsp" /\ c) \/ (s.do = "listen" /\ from # "dsc")
    PROVE  /\ from \in InFlight /\ to \in InFlight
           /\ \A l \in Lists : to \in Listing(l) => from \in Listing(l)
           /\ from \in Accessing <=> to \in Accessing
           /\ from \in SvcPhase <=> to \in SvcPhase
           /\ from \in IncPhase <=> to \in IncPhase
           /\ from \in ChrPhase <=> to \in ChrPhase
           /\ from \in DscPhase <=> to \in DscPhase
           /\ s.do = "rsp" => s.op = "status"
<1> USE DEF Moves, RspMoves, SvcPhase, IncPhase, ChrPhase, DscPhase
<1>1. from \in InFlight /\ to \in InFlight
  BY DEF InFlight, Sent
<1>2. \A l \in Lists : to \in Listing(l) => from \in Listing(l)
  BY DEF Listing, Lists
<1>3. from \in Accessing <=> to \in Accessing
  BY DEF Accessing, ReadPhase, WritePhase, CfgPhase
<1>4. /\ from \in SvcPhase <=> to \in SvcPhase
      /\ from \in IncPhase <=> to \in IncPhase
      /\ from \in ChrPhase <=> to \in ChrPhase
      /\ from \in DscPhase <=> to \in DscPhase
      /\ s.do = "rsp" => s.op = "status"
  OBVIOUS
<1>5. QED
  BY <1>1, <1>2, <1>3, <1>4

LEMMA FFlying ==
    ASSUME TInv, FInv, UNCHANGED mainKeeps, UNCHANGED <<loc, todo, counts, values, written, notes>>,
           request' = request, rspq' = rspq \/ rspq' = <<>>, Moves(test, cl, phase, step, phase'),
           (step.do = "rsp" /\ cl) \/ (step.do = "listen" /\ phase # "dsc")
    PROVE  FInv'
<1>1. /\ phase \in InFlight /\ phase' \in InFlight
      /\ \A l \in Lists : phase' \in Listing(l) => phase \in Listing(l)
      /\ phase \in Accessing <=> phase' \in Accessing
      /\ phase \in SvcPhase <=> phase' \in SvcPhase
      /\ phase \in IncPhase <=> phase' \in IncPhase
      /\ phase \in ChrPhase <=> phase' \in ChrPhase
      /\ phase \in DscPhase <=> phase' \in DscPhase
  BY MovesFlying
<1>2. test' = test /\ cl' = cl /\ server' = server
  BY MainKeeps
<1>3. wanted' = wanted
  BY <1>1, <1>2 DEF wanted, CommandOf
<1>4. phase' \notin {"done", "over"} /\ \A l \in Lists : phase' \in Before(l) => phase \in Before(l)
  BY <1>1, MovesOnward DEF InFlight, Sent
<1>5. phase \in CfgPhase => phase' \in CfgPhase
  BY <1>4, MovesOnward
<1>6. QED
  BY <1>1, <1>3, <1>4, <1>5, FOnWay

LEMMA FListen ==
    ASSUME TInv, FInv, Listen
    PROVE  FInv'
<1>1. /\ outcome = "running" /\ step.do = "listen" /\ pc' = pc + 1
      /\ UNCHANGED mainKeeps /\ loc' = loc /\ todo' = todo
      /\ counts' = counts /\ values' = values /\ written' = written /\ notes' = notes
      /\ rspq' = rspq /\ request' = request
  BY DEF Listen, At, GoOn, clVars
<1>2. Moves(test, cl, phase, step, phase')
  BY <1>1, LeadsOn
<1>3. CASE phase # "dsc"
  BY <1>1, <1>2, <1>3, FFlying
<1>4. CASE phase = "dsc"
  <2>1. phase' = "cfg_listen" /\ phase \notin InFlight /\ phase \notin CfgPhase \cup {"done", "over"} /\ phase \notin Sent
    BY <1>1, <1>2, <1>4 DEF Moves, InFlight, Sent, CfgPhase
  <2>2. ~Owed /\ ~Under(Responses) /\ rspq' = <<>>
    BY <1>1, <2>1, NothingOwed DEF TInv, OneResponse
  <2>3. counts' \in [Lists -> Nat \cup {NoCount}]
    BY <1>1 DEF TInv, Typed
  <2>4. QED
    BY <1>1, <1>2, <2>1, <2>2, <2>3, FMoved
<1>5. QED
  BY <1>3, <1>4

\* The test has read the response to its command.
LEMMA ResponseRead ==
    ASSUME TInv, ReadResponse
    PROVE  /\ outcome = "running" /\ step.do = "rsp" /\ rspq # <<>> /\ rspq' = <<>>
           /\ UNCHANGED mainKeeps /\ torn' = torn /\ future' = future /\ request' = request
           /\ lists' = lists /\ counts' = counts /\ values' = values /\ written' = written /\ notes' = notes
           /\ phase \in Sent /\ request = NoRequest /\ ~Under(Responses)
           /\ Head(rspq).op = wanted.op /\ FrameOK(Head(rspq))
           /\ \/ pc' = pc /\ outcome' = "raised" /\ UNCHANGED <<db, loc, todo>>
                 /\ (Head(rspq).status = "error" \/ (step.op = "value" /\ Head(rspq).status = "unknown"))
              \/ /\ outcome' = outcome /\ StoreRsp(Head(rspq)) /\ Head(rspq).status # "error"
                 /\ step.op = "value" => Head(rspq).status # "unknown"
                 /\ \/ /\ ~cl /\ phase = "inc_sent" /\ phase' = "inc_next" /\ step.op = "add_to_db"
                       /\ todo' # <<>>
                    \/ Moves(test, cl, phase, step, phase') /\ todo' = <<>>
<1>1. PICK f : f = Head(rspq)
  OBVIOUS
<1>2. /\ outcome = "running" /\ step.do = "rsp" /\ rspq # <<>> /\ rspq' = Tail(rspq)
      /\ UNCHANGED mainKeeps /\ torn' = torn
      /\ UNCHANGED clVars /\ future' = future /\ request' = request
      /\ \/ pc' = pc /\ outcome' = "raised" /\ UNCHANGED <<db, loc, todo>>
            /\ (f.status = "error" \/ (step.op = "value" /\ f.status = "unknown"))
         \/ /\ StoreRsp(f) /\ pc' = (IF todo' # <<>> THEN pc - 1 ELSE pc + 1) /\ outcome' = outcome
            /\ f.status # "error" /\ (step.op = "value" => f.status # "unknown")
  BY <1>1 DEF ReadResponse, At, Fail
<1>3. lists' = lists /\ counts' = counts /\ values' = values /\ written' = written /\ notes' = notes
  BY <1>2 DEF clVars
<1>4. /\ rspq \in Seq(Frame) /\ Len(rspq) <= 1 /\ \A g \in Elements(rspq) : FrameOK(g)
      /\ phase \in Sent /\ request = NoRequest /\ ~Under(Responses) /\ f.op = wanted.op
  BY <1>1, <1>2 DEF TInv, Channels, OneResponse
<1>5. rspq' = <<>> /\ FrameOK(f)
  <2>1. /\ Tail(rspq) \in Seq(Frame) /\ f \in Elements(rspq)
        /\ Len(rspq) \in Nat /\ Len(rspq) # 0 /\ Len(Tail(rspq)) = Len(rspq) - 1
    BY <1>1, <1>2, <1>4, ElementsTail
  <2>2. QED
    BY <1>2, <1>4, <2>1, ElementsTyped
<1>6. ASSUME StoreRsp(f), pc' = (IF todo' # <<>> THEN pc - 1 ELSE pc + 1)
      PROVE  \/ /\ ~cl /\ phase = "inc_sent" /\ phase' = "inc_next" /\ step.op = "add_to_db"
                /\ todo' # <<>>
             \/ Moves(test, cl, phase, step, phase') /\ todo' = <<>>
  <2>1. todo' = IF step.op = "add_to_db" THEN Tail(todo) ELSE todo
    BY <1>6 DEF StoreRsp
  <2>2. PICK next \in PhasesOf(test, cl) :
           /\ Moves(test, cl, phase, step, next)
           /\ pc' = pc + 1 => phase' = next /\ pc' \in 1 .. Len(Program(test))' + 1
    BY <1>2, StepTakes, MainKeeps
  <2>3. /\ step.op = "add_to_db" => ~cl /\ phase = "inc_sent"
        /\ step.op # "add_to_db" => cl \/ phase \notin {"inc_next", "inc_sent"}
    BY <1>2, <2>2, MovesRsp
  <2>4. todo # <<>> <=> ~cl /\ phase \in {"inc_next", "inc_sent"}
    BY DEF TInv, Progress
  <2>5. CASE todo' # <<>>
    <3>1. step.op = "add_to_db" /\ ~cl /\ phase = "inc_sent"
      BY <2>1, <2>3, <2>4, <2>5
    <3>2. pc' = pc - 1
      BY <1>6, <2>5
    <3>3. phase' = "inc_next"
      BY <1>2, <3>1, <3>2, PhaseMoves, PhaseIs, MainKeeps DEF TInv, Typed
    <3>4. QED
      BY <2>5, <3>1, <3>3
  <2>6. CASE todo' = <<>>
    BY <1>6, <2>2, <2>6
  <2>7. QED
    BY <2>5, <2>6
<1>7. QED
  BY <1>1, <1>2, <1>3, <1>4, <1>5, <1>6

LEMMA FReadResponse ==
    ASSUME TInv, FInv, ReadResponse
    PROVE  FInv'
<1>1. PICK f : f = Head(rspq)
  OBVIOUS
<1>2. /\ outcome = "running" /\ step.do = "rsp" /\ rspq # <<>> /\ rspq' = <<>>
      /\ UNCHANGED mainKeeps /\ request' = request
      /\ counts' = counts /\ values' = values /\ written' = written /\ notes' = notes
      /\ phase \in Sent /\ request = NoRequest /\ ~Under(Responses)
  BY ResponseRead
<1>3. \/ pc' = pc /\ UNCHANGED <<loc, todo>>
      \/ /\ StoreRsp(f) /\ f.status # "error" /\ (step.op = "value" => f.status # "unknown")
         /\ \/ /\ ~cl /\ phase = "inc_sent" /\ phase' = "inc_next" /\ step.op = "add_to_db"
            \/ Moves(test, cl, phase, step, phase')
  BY <1>1, ResponseRead
<1>4. CASE pc' = pc /\ UNCHANGED <<loc, todo>>
  BY <1>2, <1>4, FFailed
<1>5. /\ ~cl => ~Owed
      /\ counts' \in [Lists -> Nat \cup {NoCount}] /\ loc \in LocRecord
      /\ phase \notin {"done", "over", "cfg_late"}
  BY <1>2 DEF TInv, Typed, FInv, OneReport, Owed, Sent
<1>6. CASE StoreRsp(f) /\ ~cl /\ phase = "inc_sent" /\ phase' = "inc_next" /\ step.op = "add_to_db"
  <2>1. loc' = loc
    BY <1>6 DEF StoreRsp
  <2>2. phase \notin CfgPhase \cup {"done", "over"}
    BY <1>6 DEF CfgPhase
  <2>3. QED
    BY <1>2, <1>5, <1>6, <2>1, <2>2, FMoved
<1>7. CASE /\ StoreRsp(f) /\ f.status # "error" /\ (step.op = "value" => f.status # "unknown")
           /\ Moves(test, cl, phase, step, phase')
  <2>1. CASE cl
    <3>1. step.op = "status"
      BY <1>2, <1>7, <2>1, MovesFlying
    <3>2. loc' = loc /\ todo' = todo
      BY <1>7, <3>1 DEF StoreRsp
    <3>3. QED
      BY <1>2, <1>7, <2>1, <3>2, FFlying
  <2>2. CASE ~cl
    <3>1. loc' = [loc EXCEPT !.rsp = f.status] \/ loc' = loc
      BY <1>7 DEF StoreRsp
    <3>2. loc'.dsc = loc.dsc
      BY <1>5, <3>1 DEF LocRecord
    <3>3. /\ phase' \notin {"cfg_got", "cfg_verify", "done", "over"}
          /\ phase' \in {"read_got", "write_got"} => phase \in {"read_sent", "write_late"} /\ step.op = "value"
      BY <1>2, <1>5, <1>7, <2>2 DEF Moves, RspMoves
    <3>4. ASSUME phase' \in {"read_got", "write_got"}
          PROVE  loc'.rsp = AttStatus
      <4>1. phase \in Accessing /\ phase \in InFlight
        BY <1>2, <3>3, <3>4, SentInFlight DEF Accessing, ReadPhase, WritePhase
      <4>2. KindOf(wanted.op) = "none"
        BY <4>1, FlightCommand, PhaseIs
      <4>3. f = Outcome("rsp", wanted)
        <5>1. RspIs(f)
          BY <1>1, <1>2 DEF FInv, Results
        <5>2. f.status # "success" \/ ~cl
          BY <2>2
        <5>3. QED
          BY <1>7, <2>2, <5>1 DEF RspIs
      <4>4. f.status = AttStatus
        BY <4>2, <4>3 DEF Outcome
      <4>5. f.status # "unknown"
        BY <1>7, <3>3, <3>4
      <4>6. QED
        BY <1>5, <1>7, <3>3, <3>4, <4>4, <4>5 DEF StoreRsp, LocRecord
    <3>5. QED
      BY <1>2, <1>5, <1>7, <2>2, <3>2, <3>3, <3>4, FMoved
  <2>3. QED
    BY <2>1, <2>2
<1>8. QED
  BY <1>3, <1>4, <1>6, <1>7

LEMMA FListServices ==
    ASSUME TInv, FInv, ListServices
    PROVE  FInv'
<1>1. /\ outcome = "running" /\ step.do = "services"
      /\ UNCHANGED mainKeeps /\ loc' = loc
      /\ counts' = counts /\ values' = values /\ written' = written /\ notes' = notes
      /\ rspq' = rspq /\ request' = request
      /\ pc' = IF todo' = <<>> THEN pc + 3 ELSE pc + 1
  BY DEF ListServices, At, clVars
<1>2. ~cl /\ test = "GAD_3" /\ phase = "svc_in" /\ phase # "over"
  BY <1>1, StepTakes, MovesServices
<1>3. phase' \in {"inc_next", "inc_in"}
  <2>1. cl' = cl /\ test' = test
    BY <1>1, MainKeeps
  <2>2. CASE todo' # <<>>
    BY <1>1, <2>1, <2>2, StepTakes, MovesServices
  <2>3. CASE todo' = <<>>
    BY <1>1, <1>2, <2>1, <2>3, PhaseMoves, PhaseIs DEF TInv, Typed
  <2>4. QED
    BY <2>2, <2>3
<1>4. phase \notin InFlight /\ phase \notin Sent /\ phase \notin CfgPhase \cup {"done", "over"}
  BY <1>2 DEF InFlight, Sent, CfgPhase
<1>5. ~Owed /\ ~Under(Responses) /\ rspq' = <<>>
  BY <1>1, <1>4, NothingOwed DEF TInv, OneResponse
<1>6. counts' \in [Lists -> Nat \cup {NoCount}]
  BY <1>1 DEF TInv, Typed
<1>7. QED
  BY <1>1, <1>2, <1>3, <1>4, <1>5, <1>6, FMoved

LEMMA FInvNext == TInv /\ FInv /\ [Next]_vars => FInv'
<1> SUFFICES ASSUME TInv, FInv, [Next]_vars PROVE FInv'
  OBVIOUS
<1>1. CASE Answer
  BY <1>1, FAnswer
<1>2. CASE Report
  BY <1>2, FReport
<1>3. CASE Notify
  BY <1>3, FNotify
<1>4. CASE LoseLink("lost") \/ LoseLink("crashed")
  BY <1>4, FLoseLink
<1>5. CASE PeripheralRx
  BY <1>5, FPeripheralRx
<1>6. CASE RxFrame
  BY <1>6, FRxFrame
<1>7. CASE RxStatement
  BY <1>7, FRxStatement
<1>8. CASE RunTest
  BY <1>8, FResetList, FSendCommand, FReadResponse, FReadTimeout, FListServices, FWaitEnds,
     FFindAttribute, FFindCharacteristicEnd, FListen, FWaitFuture, FTakeFirst, FCheckEqual,
     FDisconnect DEF RunTest
<1>9. CASE UNCHANGED vars
  BY <1>9, FStutter
<1>10. QED
  BY <1>1, <1>2, <1>3, <1>4, <1>5, <1>6, <1>7, <1>8, <1>9 DEF Next

LEMMA FInvCorrect == Spec => [](TInv /\ FInv)
BY TInvInit, TInvNext, FInvInit, FInvNext, PTL DEF Spec

-----------------------------------------------------------------------------
\* Discoveries: the invariant PInv, that every step keeps it, and what a pass shows.

\* The attributes a discovery is to find.
Within(r) ==
    {h \in OfKind(server, KindOf(r.op)) : r.lo <= h /\ h <= r.hi /\ r.uuid \in {"any", server[h].uuid}}

ChrSought ==
    IF test \in Inside THEN {h \in OfKind(server, "chr") : loc.start <= h /\ h <= loc.stop}
                       ELSE {h \in OfKind(server, "chr") : server[h].uuid = ChrUuid(test)}
DscSought == {h \in OfKind(server, "dsc") : loc.value + 1 <= h /\ h <= loc.end}

AddsOf(statements) == {h \in DOMAIN server : \E s \in Elements(statements) : s.do = "add" /\ s.n = h}
Known == DOMAIN db \cup AddsOf(callback)

\* Nothing is known but what was looked for.
OnlySought ==
    \A h \in Known :
        /\ server[h].kind = "inc" => test = "GAD_3"
        /\ server[h].kind = "chr" => phase \notin Before("chrcs") /\ h \in ChrSought
        /\ server[h].kind = "dsc" => phase \notin Before("dscs") /\ h \in DscSought

\* As long as the link stands, everything that was looked for comes.
AllSought ==
    air = "linked" =>
        /\ cl /\ (\E l \in Lists : phase \in Listing(l)) => Owed \/ Within(wanted) \subseteq Known
        /\ phase \in {"svc_in", "chr_in", "dsc_in"} => Within(wanted) \subseteq Known
        /\ cl /\ phase = "inc_in" => Within(wanted) \subseteq Known
        /\ phase = "chr" => ChrSought \subseteq Known

\* The first attribute of the first discovery comes before the others.
First ==
    IF test \in Inside THEN find_svc_by_uuid(server, "SVC")
                       ELSE find_chr_by_uuid(server, ChrUuid(test))
FirstFirst ==
    /\ test \in Inside => phase \in {"start", "svc_sent", "svc_wait", "svc_in"}
    /\ test \in Straight => phase \in {"start", "chr_reset", "chr_sent", "chr_wait", "chr_in"}
    /\ test \in Inside \cup Straight
    => /\ DOMAIN db # {} => First \in DOMAIN db
       /\ \A k \in 1 .. Len(callback) : callback[k].do = "add" =>
             \/ First \in DOMAIN db
             \/ \E j \in 1 .. k : callback[j].do = "add" /\ callback[j].n = First

Chosen ==
    /\ test \in Inside /\ HasSvc(phase) => loc.start = First
    /\ test \in Straight /\ HasChr(phase) => loc.chr = First
    /\ test \in Inside /\ HasChr(phase) => loc.chr \in ChrSought
    /\ HasDsc(phase) => loc.dsc \in DscSought
    /\ test = "GAD_3" /\ phase \in {"inc", "over"} => Has("INC_SVC", "inc", 1, MaxHandle)

\* The end of the characteristic is in front of the next one the test knows.
Ended(ph) == test \in Deep /\ (ph \in {"end", "dsc_reset", "dsc_sent", "dsc_wait", "dsc_in"} \/ HasDsc(ph))

EndRight ==
    Ended(phase) /\ test \in Inside /\ ~torn /\ air = "linked" =>
        \A g \in ChrSought : g > loc.chr => loc.end < g

PInv == OnlySought /\ AllSought /\ FirstFirst /\ Chosen /\ EndRight

\* Where an attribute ends: in front of the next one of the kinds.
LEMMA EndOfIs ==
    ASSUME server \in Server, NEW h \in Nat, NEW kinds
    PROVE  /\ EndOf(h, kinds) \in Nat
           /\ \A d \in 0 .. MaxHandle :
                 (\A g \in DOMAIN server : g > h /\ server[g].kind \in kinds => d < g)
                 <=> d <= EndOf(h, kinds)
<1>1. PICK S : S = {g \in DOMAIN server : g > h /\ server[g].kind \in kinds}
  OBVIOUS
<1>2. S \in SUBSET Handle
  BY <1>1, ServerIs
<1>3. EndOf(h, kinds) = IF Lowest(S) = None THEN MaxHandle ELSE Lowest(S) - 1
  BY <1>1 DEF EndOf
<1>4. CASE S = {}
  <2>1. Lowest(S) = None
    BY <1>2, <1>4, LowestOf
  <2>2. QED
    BY <1>1, <1>3, <1>4, <2>1, MaxHandleNat
<1>5. CASE S # {}
  <2>1. PICK m : m = Lowest(S)
    OBVIOUS
  <2>2. m \in S /\ \A g \in S : m <= g
    BY <1>2, <1>5, <2>1, LowestOf
  <2>3. /\ m \in Nat /\ 1 <= m /\ m # None /\ \A g \in S : g \in Nat
    BY <1>2, <2>2, HandleIs
  <2>4. EndOf(h, kinds) = m - 1
    BY <1>3, <2>1, <2>3
  <2>5. ASSUME NEW d \in 0 .. MaxHandle
        PROVE  (\A g \in S : d < g) <=> d <= m - 1
    <3>1. d \in Nat
      BY <2>5, MaxHandleNat
    <3>2. (\A g \in S : d < g) => d <= m - 1
      BY <2>2, <2>3, <3>1
    <3>3. d <= m - 1 => \A g \in S : d < g
      BY <2>2, <2>3, <3>1
    <3>4. QED
      BY <3>2, <3>3
  <2>6. QED
    BY <1>1, <2>3, <2>4, <2>5
<1>6. QED
  BY <1>4, <1>5

\* A descriptor belongs to the characteristic whose value is the next above it.
LEMMA BelongsAbove ==
    ASSUME server \in Server, NEW d \in OfKind(server, "dsc"), NEW c \in OfKind(server, "chr"),
           ValueAbove(d) = server[c].last
    PROVE  Belongs(d, c)
<1>1. /\ d \in DOMAIN server /\ c \in DOMAIN server /\ server[d].kind = "dsc" /\ server[c].kind = "chr"
      /\ d \in Nat /\ c \in Nat /\ c # None /\ d \in 0 .. MaxHandle
      /\ server[c].last \in Handle /\ Ordered(server)
      /\ \A g \in DOMAIN server : g \in Nat
      /\ \A g \in OfKind(server, "chr") : g \in DOMAIN server /\ server[g].kind = "chr" /\ server[g].last \in Nat
                                          /\ g < server[g].last
      /\ \A g \in OfKind(server, "svc") : g \in DOMAIN server /\ server[g].kind = "svc"
  BY ServerIs, ValueHandle, HandleIs DEF OfKind
<1>2. server[c].last # None /\ server[c].last \in Nat
  BY <1>1, HandleIs
<1>3. PICK b \in OfKind(server, "chr") :
         /\ b < d /\ ValueAbove(d) = server[b].last
         /\ \A g \in OfKind(server, "chr") : g < d => g <= b
  BY <1>2, ValueAboveIs
<1>4. b \in Nat /\ b \in DOMAIN server
  BY <1>1
<1>5. /\ ~(c < b /\ b <= server[c].last)
      /\ ~(b < c /\ c <= server[b].last)
  BY <1>1, <1>4 DEF Ordered
<1>6. b = c
  <2>1. b < server[b].last /\ c < server[c].last /\ server[b].last = server[c].last
    BY <1>1, <1>3
  <2>2. QED
    BY <1>1, <1>2, <1>4, <1>5, <2>1
<1>7. PICK a \in OfKind(server, "chr") :
         server[a].last < d /\ \A v \in OfKind(server, "svc") : ~(a < v /\ v < d)
  BY <1>1 DEF Ordered
<1>8. a \in Nat /\ a < d
  BY <1>1, <1>7
<1>9. a <= c
  BY <1>3, <1>6, <1>8
<1>10. ASSUME NEW g \in DOMAIN server, g > c, server[g].kind \in {"chr", "svc"}
       PROVE  d < g
  <2>1. g \in Nat /\ g # d
    BY <1>1, <1>10
  <2>2. CASE server[g].kind = "chr"
    <3>1. g \in OfKind(server, "chr")
      BY <2>2 DEF OfKind
    <3>2. ~(g < d)
      BY <1>1, <1>3, <1>6, <1>10, <2>1, <3>1
    <3>3. QED
      BY <1>1, <2>1, <3>2
  <2>3. CASE server[g].kind = "svc"
    <3>1. g \in OfKind(server, "svc")
      BY <2>3 DEF OfKind
    <3>2. ~(a < g /\ g < d)
      BY <1>7, <3>1
    <3>3. QED
      BY <1>1, <1>8, <1>9, <1>10, <2>1, <3>2
  <2>4. QED
    BY <1>10, <2>2, <2>3
<1>11. d <= EndOf(c, {"chr", "svc"})
  BY <1>1, <1>10, EndOfIs
<1>12. QED
  BY <1>3, <1>6, <1>11 DEF Belongs

\* A characteristic that is not the last of its service is followed by another.
LEMMA NotLast ==
    ASSUME server \in Server, NEW c \in OfKind(server, "chr"), NEW s \in OfKind(server, "svc"),
           s <= c, c <= server[s].last, ~LastOfService(c)
    PROVE  \E g \in OfKind(server, "chr") :
              /\ c < g /\ s <= g /\ g <= server[s].last
              /\ \A h \in DOMAIN server : h > c /\ server[h].kind \in {"chr", "svc"} => g <= h
<1>1. PICK S, T : /\ S = {g \in DOMAIN server : g > c /\ server[g].kind \in {"chr", "svc"}}
                  /\ T = {g \in DOMAIN server : g > c /\ server[g].kind \in {"svc"}}
  OBVIOUS
<1>2. /\ S \in SUBSET Handle /\ T \in SUBSET Handle /\ T \subseteq S
      /\ \A g \in DOMAIN server : g \in Nat /\ g # None /\ server[g].last \in Nat
      /\ c \in DOMAIN server /\ s \in DOMAIN server /\ server[c].kind = "chr" /\ server[s].kind = "svc"
      /\ Ordered(server)
  <2>1. \A g \in DOMAIN server : g \in Nat /\ g # None /\ server[g].last \in Nat
    BY ServerIs, MaxHandleNat
  <2>2. QED
    BY <1>1, <2>1, ServerIs DEF OfKind
<1>3. Lowest(S) # Lowest(T)
  BY <1>1 DEF LastOfService, EndOf
<1>4. S # {}
  <2>1. S = {} => T = {}
    BY <1>2
  <2>2. QED
    BY <1>3, <2>1
<1>5. PICK g : g = Lowest(S) /\ g \in S /\ \A h \in S : g <= h
  BY <1>2, <1>4, LowestOf
<1>6. g \notin T
  <2>1. ASSUME g \in T
        PROVE  Lowest(T) = g
    BY <1>2, <1>5, <2>1, LowestIs
  <2>2. QED
    BY <1>3, <1>5, <2>1
<1>7. g \in OfKind(server, "chr") /\ c < g /\ g \in Nat /\ c \in Nat /\ s \in Nat
  BY <1>1, <1>2, <1>5, <1>6 DEF OfKind
<1>8. PICK v \in OfKind(server, "svc") : v < g /\ g <= server[v].last
  BY <1>2, <1>7 DEF Ordered
<1>9. v \in DOMAIN server /\ v \in Nat /\ server[v].kind = "svc" /\ v \notin S /\ v # c
  <2>1. v \in DOMAIN server /\ v \in Nat /\ server[v].kind = "svc"
    BY <1>2, <1>8 DEF OfKind
  <2>2. QED
    BY <1>2, <1>5, <1>7, <1>8, <2>1
<1>10. v < c
  BY <1>1, <1>7, <1>9
<1>11. v = s
  <2>1. (v < s => server[v].last < s) /\ (s < v => server[s].last < v)
    BY <1>2, <1>8 DEF Ordered
  <2>2. server[v].last \in Nat /\ server[s].last \in Nat
    BY <1>2, <1>9
  <2>3. QED
    BY <1>7, <1>8, <1>9, <1>10, <2>1, <2>2
<1>12. s <= g /\ g <= server[s].last
  BY <1>7, <1>8, <1>11
<1>13. \A h \in DOMAIN server : h > c /\ server[h].kind \in {"chr", "svc"} => g <= h
  BY <1>1, <1>5
<1>14. QED
  BY <1>7, <1>12, <1>13

LEMMA PassedInService ==
    ASSUME TInv, FInv, PInv, phase = "over", air = "linked", test \in Inside, loc.dsc # None, ~torn
    PROVE  Belongs(loc.dsc, loc.chr) \/ LastOfService(loc.chr)
<1> SUFFICES ASSUME ~LastOfService(loc.chr) PROVE Belongs(loc.dsc, loc.chr)
  OBVIOUS
<1>1. PICK c, d, s : c = loc.chr /\ d = loc.dsc /\ s = loc.start
  OBVIOUS
<1>2. HasDsc(phase) /\ test \in Deep /\ server \in Server
  BY DEF TInv, Typed, Locals, HasDsc
<1>3. HasSvc(phase) /\ HasChr(phase) /\ Ended(phase)
  BY <1>2 DEF HasSvc, HasChr, Ended, SvcPhase
<1>4. /\ d \in OfKind(server, "dsc") /\ c \in OfKind(server, "chr") /\ s \in OfKind(server, "svc")
      /\ loc.stop = server[s].last /\ loc.value = server[c].last
      /\ c \in ChrSought /\ d \in DscSought
  BY <1>1, <1>2, <1>3 DEF TInv, Locals, PInv, Chosen
<1>5. s <= c /\ c <= server[s].last /\ loc.value + 1 <= d /\ d <= loc.end
  BY <1>1, <1>4 DEF ChrSought, DscSought
<1>6. /\ d \in DOMAIN server /\ c \in DOMAIN server /\ d \in Nat /\ c \in Nat /\ d \in 0 .. MaxHandle
      /\ loc.value \in Nat /\ c < loc.value /\ loc.end \in Nat
      /\ \A g \in DOMAIN server : g \in Nat
  <2>1. d \in DOMAIN server /\ c \in DOMAIN server /\ loc.value \in Handle /\ c < loc.value
    BY <1>2, <1>4, ValueHandle
  <2>2. loc.end \in Nat
    BY MaxHandleNat DEF TInv, Typed, LocRecord
  <2>3. QED
    BY <1>2, <2>1, <2>2, ServerIs, HandleIs
<1>7. PICK g \in OfKind(server, "chr") :
         /\ c < g /\ s <= g /\ g <= server[s].last
         /\ \A h \in DOMAIN server : h > c /\ server[h].kind \in {"chr", "svc"} => g <= h
  BY <1>1, <1>2, <1>4, <1>5, NotLast
<1>8. loc.end < g
  <2>1. g \in ChrSought
    BY <1>1, <1>4, <1>7 DEF ChrSought
  <2>2. g > loc.chr
    BY <1>1, <1>6, <1>7 DEF OfKind
  <2>3. QED
    BY <1>3, <2>1, <2>2 DEF PInv, EndRight
<1>9. g \in Nat
  BY <1>6, <1>7 DEF OfKind
<1>10. \A h \in DOMAIN server : h > c /\ server[h].kind \in {"chr", "svc"} => d < h
  BY <1>5, <1>6, <1>7, <1>8, <1>9
<1>11. d <= EndOf(c, {"chr", "svc"})
  BY <1>2, <1>6, <1>10, EndOfIs
<1>12. QED
  BY <1>1, <1>5, <1>6, <1>11 DEF Belongs

LEMMA PassedSubscription ==
    ASSUME TInv, FInv, PInv, phase = "over", test \in Subscribes
    PROVE  Offered /\ Belongs(loc.dsc, loc.chr)
<1>1. PICK c, d : c = loc.chr /\ d = loc.dsc
  OBVIOUS
<1>2. test \in Deep /\ test \in Straight /\ test \notin Inside /\ ChrUuid(test) = "CHR_NOTIFY" /\ DscUuid(test) = "CCC"
  BY DEF Deep, Straight, Inside, Subscribes, ChrUuid, DscUuid
<1>3. HasDsc(phase) /\ HasChr(phase)
  BY <1>2 DEF HasDsc, HasChr, SvcPhase, ChrPhase
<1>4. /\ d \in OfKind(server, "dsc") /\ c \in OfKind(server, "chr") /\ server \in Server
      /\ server[d].uuid = "CCC" /\ server[c].uuid = "CHR_NOTIFY" /\ loc.value = server[c].last
      /\ c = find_chr_by_uuid(server, "CHR_NOTIFY")
  BY <1>1, <1>2, <1>3 DEF TInv, Typed, Locals, PInv, Chosen, First
<1>5. ValueAbove(d) = server[c].last
  BY <1>1, <1>4 DEF FInv, Taken
<1>6. Belongs(d, c)
  BY <1>4, <1>5, BelongsAbove
<1>7. HasDescriptor("CCC", find_chr_by_uuid(server, "CHR_NOTIFY"))
  BY <1>4, <1>6 DEF HasDescriptor
<1>8. Has("CHR_NOTIFY", "chr", 1, MaxHandle)
  <2>1. c \in DOMAIN server /\ 1 <= c /\ c <= MaxHandle
    BY <1>4, ValueHandle, ServerIs
  <2>2. QED
    BY <1>4, <2>1 DEF Has
<1>9. Offered
  <2>1. test \in {"GAN_1", "GAI_1"} /\ test \notin {"GAD_1", "GAD_2"} /\ test # "GAD_3" /\ test # "GAD_4"
        /\ test \notin {"GAD_5", "GAR_1", "GAW_1"} /\ test \notin {"GAR_2", "GAW_2"}
        /\ test \notin {"GAD_6", "GAR_3", "GAW_3"} /\ test \notin {"GAR_4", "GAW_4"}
    BY DEF Subscribes
  <2>2. QED
    BY <1>7, <1>8, <2>1 DEF Offered
<1>10. QED
  BY <1>1, <1>6, <1>9

LEMMA PassedOffered ==
    ASSUME TInv, FInv, PInv, phase = "over", loc.dsc = None
    PROVE  Offered
<1>1. test \in Tests /\ server \in Server
  BY PhaseIs DEF TInv, Typed
<1>2. test \notin Deep
  <2>1. SUFFICES ASSUME test \in Deep PROVE FALSE
    OBVIOUS
  <2>2. loc.dsc \in OfKind(server, "dsc")
    BY <2>1 DEF TInv, Locals, HasDsc, SvcPhase, ChrPhase
  <2>3. QED
    BY <1>1, <2>2, ServerIs DEF OfKind
<1>3. \A h, kind : h \in OfKind(server, kind) => Has(server[h].uuid, kind, 1, MaxHandle)
  BY <1>1, ServerIs DEF OfKind, Has
<1>4. CASE test \in {"GAD_1", "GAD_2"}
  <2>1. HasSvc(phase)
    BY <1>4 DEF HasSvc
  <2>2. Has("SVC", "svc", 1, MaxHandle)
    BY <1>3, <2>1 DEF TInv, Locals
  <2>3. QED
    BY <1>4, <2>2 DEF Offered
<1>5. CASE test = "GAD_3"
  BY <1>5 DEF PInv, Chosen, Offered
<1>6. CASE test = "GAD_4"
  <2>1. test \in Inside /\ HasSvc(phase) /\ HasChr(phase) /\ ChrUuid(test) = "CHR_READ_WRITE"
    BY <1>6 DEF Inside, HasSvc, HasChr, ChrUuid, Subscribes, SvcPhase
  <2>2. PICK c, s : c = loc.chr /\ s = loc.start
    OBVIOUS
  <2>3. /\ c \in OfKind(server, "chr") /\ s \in OfKind(server, "svc") /\ server[c].uuid = "CHR_READ_WRITE"
        /\ s = find_svc_by_uuid(server, "SVC") /\ s <= c /\ c <= server[s].last
    BY <2>1, <2>2 DEF TInv, Locals, PInv, Chosen, First, ChrSought
  <2>4. PICK S : S = {h \in OfKind(server, "chr") :
                        s <= h /\ h <= server[s].last /\ server[h].uuid = "CHR_READ_WRITE"}
    OBVIOUS
  <2>5. s # None /\ c \in S /\ S \in SUBSET Handle
    BY <1>1, <2>3, <2>4, ServerIs DEF OfKind
  <2>6. Lowest(S) # None
    BY <2>5, LowestOf
  <2>7. InService("CHR_READ_WRITE") # None
    BY <2>3, <2>4, <2>5, <2>6 DEF InService
  <2>8. QED
    BY <1>6, <2>7 DEF Offered
<1>7. CASE test \in {"GAD_5", "GAR_1", "GAW_1"}
  <2>1. test \in Straight /\ HasChr(phase) /\ ChrUuid(test) = "CHR_READ_WRITE"
    BY <1>7 DEF Straight, HasChr, ChrUuid, Subscribes, SvcPhase
  <2>2. Has("CHR_READ_WRITE", "chr", 1, MaxHandle)
    BY <1>3, <2>1 DEF TInv, Locals
  <2>3. QED
    BY <1>7, <2>2 DEF Offered
<1>8. CASE test \in {"GAR_2", "GAW_2"}
  <2>1. test \in Straight /\ HasChr(phase) /\ ChrUuid(test) = "LONG_CHR_READ_WRITE"
    BY <1>8 DEF Straight, HasChr, ChrUuid, Subscribes, SvcPhase
  <2>2. Has("LONG_CHR_READ_WRITE", "chr", 1, MaxHandle)
    BY <1>3, <2>1 DEF TInv, Locals
  <2>3. QED
    BY <1>8, <2>2 DEF Offered
<1>9. QED
  BY <1>1, <1>2, <1>4, <1>5, <1>6, <1>7, <1>8 DEF Tests, Deep

LEMMA PInvPassed == TInv /\ FInv /\ PInv => PassedIsRight
<1> SUFFICES ASSUME TInv, FInv, PInv, outcome = "passed"
             PROVE  /\ test \in Subscribes => Offered /\ Belongs(loc.dsc, loc.chr)
                    /\ loc.dsc # None => Belongs(loc.dsc, loc.chr) \/ LastOfService(loc.chr) \/ torn
                    /\ loc.dsc = None => Offered
  BY DEF PassedIsRight
<1>1. phase = "over" /\ air = "linked"
  BY DEF TInv, Progress
<1>2. loc.dsc # None => test \in Inside \cup Subscribes
  BY DEF TInv, Locals, HasDsc, Deep, Inside, Subscribes
<1>3. QED
  BY <1>1, <1>2, PassedInService, PassedSubscription, PassedOffered

\* What the server decides does not change.
LEMMA ServerSame ==
    ASSUME test' = test, server' = server
    PROVE  /\ First' = First
           /\ \A r : Within(r)' = Within(r)
           /\ Has("INC_SVC", "inc", 1, MaxHandle)' <=> Has("INC_SVC", "inc", 1, MaxHandle)
           /\ loc'.start = loc.start /\ loc'.stop = loc.stop => ChrSought' = ChrSought
           /\ loc'.value = loc.value /\ loc'.end = loc.end => DscSought' = DscSought
<1>1. First' = First
  BY DEF First, find_svc_by_uuid, find_chr_by_uuid, find_by_uuid, OfKind
<1>2. \A r : Within(r)' = Within(r)
  BY DEF Within, OfKind
<1>3. Has("INC_SVC", "inc", 1, MaxHandle)' <=> Has("INC_SVC", "inc", 1, MaxHandle)
  BY DEF Has, OfKind
<1>4. /\ loc'.start = loc.start /\ loc'.stop = loc.stop => ChrSought' = ChrSought
      /\ loc'.value = loc.value /\ loc'.end = loc.end => DscSought' = DscSought
  BY DEF ChrSought, DscSought, OfKind
<1>5. QED
  BY <1>1, <1>2, <1>3, <1>4

LEMMA KnownSame ==
    ASSUME server' = server, db' = db,
           callback' = callback \/
           (callback = <<>> /\ \A s \in Elements(callback') : s.do # "add")
    PROVE  Known' = Known
<1>1. AddsOf(callback)' = AddsOf(callback)
  <2>1. CASE callback' = callback
    BY <2>1 DEF AddsOf
  <2>2. CASE callback = <<>> /\ \A s \in Elements(callback') : s.do # "add"
    BY <2>2, ElementsEmpty DEF AddsOf
  <2>3. QED
    BY <2>1, <2>2
<1>2. QED
  BY <1>1 DEF Known

LEMMA FirstKept ==
    ASSUME FirstFirst, test' = test, server' = server, db' = db, callback' \in Seq(AnyStatement),
           callback' = callback \/
           (callback = <<>> /\ \A s \in Elements(callback') : s.do # "add"),
           test \in Inside /\ phase' \in {"start", "svc_sent", "svc_wait", "svc_in"} =>
               phase \in {"start", "svc_sent", "svc_wait", "svc_in"},
           test \in Straight /\ phase' \in {"start", "chr_reset", "chr_sent", "chr_wait", "chr_in"} =>
               phase \in {"start", "chr_reset", "chr_sent", "chr_wait", "chr_in"}
    PROVE  FirstFirst'
<1>1. First' = First
  BY ServerSame
<1>2. CASE callback' = callback
  BY <1>1, <1>2 DEF FirstFirst
<1>3. CASE callback = <<>> /\ \A s \in Elements(callback') : s.do # "add"
  <2>1. \A k \in 1 .. Len(callback') : callback'[k].do # "add"
    BY <1>3, ElementsTyped
  <2>2. QED
    BY <1>1, <2>1 DEF FirstFirst
<1>4. QED
  BY <1>2, <1>3

\* Nothing becomes known while the test stands still.
LEMMA PStand ==
    ASSUME TInv, PInv, test' = test, cl' = cl, server' = server, pc' = pc, loc' = loc, todo' = todo, db' = db,
           torn => torn', callback' \in Seq(AnyStatement),
           callback' = callback \/
           (callback = <<>> /\ \A s \in Elements(callback') : s.do # "add"),
           air' = "linked" => air = "linked" /\ (cl /\ Owed /\ (\E l \in Lists : phase \in Listing(l)) => Owed')
    PROVE  PInv'
<1>1. phase' = phase /\ wanted' = wanted
  BY PhaseSame DEF wanted, CommandOf
<1>2. /\ First' = First /\ (\A r : Within(r)' = Within(r))
      /\ Has("INC_SVC", "inc", 1, MaxHandle)' <=> Has("INC_SVC", "inc", 1, MaxHandle)
      /\ ChrSought' = ChrSought /\ DscSought' = DscSought /\ Known' = Known
  BY ServerSame, KnownSame
<1>3. OnlySought'
  BY <1>1, <1>2 DEF PInv, OnlySought
<1>4. AllSought'
  BY <1>1, <1>2 DEF PInv, AllSought
<1>5. FirstFirst'
  BY <1>1, FirstKept DEF PInv
<1>6. Chosen'
  BY <1>1, <1>2 DEF PInv, Chosen, HasSvc, HasChr, HasDsc
<1>7. EndRight'
  BY <1>1, <1>2 DEF PInv, EndRight, Ended, HasDsc
<1>8. QED
  BY <1>3, <1>4, <1>5, <1>6, <1>7 DEF PInv

LEMMA PInvInit == Init => PInv
<1> SUFFICES ASSUME Init PROVE PInv
  OBVIOUS
<1>1. TInv
  BY TInvInit
<1>2. db = EmptyDB /\ callback = <<>> /\ pc = 1
  BY DEF Init
<1>3. phase = "start"
  <2>1. test \in Tests /\ cl \in BOOLEAN /\ pc \in 1 .. Len(Program(test)) + 1
    BY <1>1, TestAssumption DEF TInv, Typed
  <2>2. QED
    BY <1>2, <2>1, PhaseMoves
<1>4. Known = {} /\ DOMAIN db = {} /\ Len(callback) = 0
  BY <1>2, ElementsEmpty DEF Known, AddsOf, EmptyDB
<1>5. OnlySought /\ FirstFirst
  BY <1>4 DEF OnlySought, FirstFirst
<1>6. AllSought
  BY <1>3 DEF AllSought, Listing, Lists
<1>7. Chosen /\ EndRight
  BY <1>3 DEF Chosen, EndRight, Ended, HasSvc, HasChr, HasDsc
<1>8. QED
  BY <1>5, <1>6, <1>7 DEF PInv

\* What is owed stays so until its report is taken, unless the link is lost.
LEMMA OwedStays ==
    ASSUME TInv, Answer \/ Report \/ Notify, air = "linked", cl, Owed
    PROVE  Owed'
<1>1. server \in Server
  BY DEF TInv, Typed
<1>2. Reports' = Reports
  BY DEF Reports
<1>3. CASE Answer
  <2>1. request # NoRequest
    BY <1>3 DEF Answer
  <2>2. busy' = request
    BY <1>3 DEF Answer
  <2>3. QED
    BY <2>1, <2>2 DEF Owed
<1>4. CASE Report
  <2>1. PICK f : f = Outcome("ev", busy)
    OBVIOUS
  <2>2. busy \in Requests /\ stream' = Append(stream, f)
    BY <1>4, <2>1 DEF Report, TInv, Typed
  <2>3. f \in Frame /\ f.type = "ev" /\ f.op # "notification"
    BY <1>1, <2>1, <2>2, OutcomeIs
  <2>4. Under(Reports)'
    BY <1>2, <2>2, <2>3, FrameSent DEF TInv, Reports
  <2>5. QED
    BY <2>4 DEF Owed
<1>5. CASE Notify
  <2>1. request' = request /\ busy' = busy
    BY <1>5 DEF Notify
  <2>2. Under(Reports) => Under(Reports)'
    <3>1. PICK f \in Frame : stream' = Append(stream, f)
      BY <1>5, NotifyIs DEF NotificationIs
    <3>2. QED
      BY <1>2, <3>1, FrameSent DEF TInv
  <2>3. QED
    BY <2>1, <2>2 DEF Owed
<1>6. QED
  BY <1>3, <1>4, <1>5

LEMMA PIuts ==
    ASSUME TInv, FInv, PInv, Answer \/ Report \/ Notify
    PROVE  PInv'
<1>1. UNCHANGED iutsKeep /\ air' = air
  BY DEF Answer, Report, Notify
<1>2. /\ test' = test /\ cl' = cl /\ server' = server /\ pc' = pc /\ loc' = loc /\ todo' = todo /\ db' = db
      /\ torn' = torn /\ callback' = callback /\ callback \in Seq(AnyStatement)
  BY <1>1, IutsKeep DEF TInv, Typed, Channels
<1>3. QED
  BY <1>1, <1>2, OwedStays, PStand

LEMMA PAside ==
    ASSUME TInv, PInv, LoseLink("lost") \/ LoseLink("crashed") \/ PeripheralRx \/ UNCHANGED vars
    PROVE  PInv'
<1>1. /\ UNCHANGED <<fixed, testVars, db, rxVars>> /\ stream' = stream /\ request' = request
      /\ (air' = air /\ busy' = busy) \/ air' # "linked"
  BY DEF LoseLink, PeripheralRx, vars, iutsKeep, airVars
<1>2. /\ test' = test /\ cl' = cl /\ server' = server /\ pc' = pc /\ loc' = loc /\ todo' = todo /\ db' = db
      /\ torn' = torn /\ callback' = callback /\ callback \in Seq(AnyStatement)
  BY <1>1 DEF fixed, testVars, rxVars, TInv, Channels
<1>3. air' = "linked" => air = "linked" /\ (cl /\ Owed /\ (\E l \in Lists : phase \in Listing(l)) => Owed')
  BY <1>1 DEF Owed, Under, Reports
<1>4. QED
  BY <1>2, <1>3, PStand

\* The command under way looks for what is sought.
LEMMA WantedSought ==
    ASSUME TInv, phase \in InFlight
    PROVE  \A h \in Within(wanted) :
              /\ h \in DOMAIN server
              /\ server[h].kind = "inc" => test = "GAD_3"
              /\ server[h].kind = "chr" => phase \notin Before("chrcs") /\ h \in ChrSought
              /\ server[h].kind = "dsc" => phase \notin Before("dscs") /\ h \in DscSought
<1>1. /\ phase \in PhasesOf(test, cl) /\ test \in Tests /\ cl \in BOOLEAN /\ server \in Server
  BY PhaseIs DEF TInv, Typed
<1>2. CASE phase \in SvcPhase
  <2>1. KindOf(wanted.op) = "svc"
    BY <1>2 DEF wanted, CommandOf, KindOf
  <2>2. QED
    BY <2>1 DEF Within, OfKind
<1>3. CASE phase \in IncPhase
  <2>1. KindOf(wanted.op) = "inc" /\ test = "GAD_3"
    <3>1. wanted.op = "find_included"
      BY <1>3 DEF wanted, CommandOf, SvcPhase, IncPhase
    <3>2. test = "GAD_3"
      BY <1>1, <1>3 DEF PhasesOf, IncPhase
    <3>3. QED
      BY <3>1, <3>2 DEF KindOf
  <2>2. QED
    BY <2>1 DEF Within, OfKind
<1>4. CASE phase \in ChrPhase
  <2>1. phase \notin SvcPhase \cup IncPhase /\ phase \notin Before("chrcs")
    BY <1>4 DEF SvcPhase, IncPhase, ChrPhase, Before, InFlight, Sent
  <2>2. /\ wanted = IF test \in Inside
                    THEN [op |-> "disc_all_chrc", lo |-> loc.start, hi |-> loc.stop, uuid |-> "any"]
                    ELSE [op |-> "disc_chrc_uuid", lo |-> 1, hi |-> MaxHandle, uuid |-> ChrUuid(test)]
    BY <1>4, <2>1 DEF wanted, CommandOf
  <2>3. KindOf(wanted.op) = "chr"
    BY <2>2 DEF KindOf
  <2>4. ChrUuid(test) # "any"
    BY DEF ChrUuid
  <2>5. \A h \in Within(wanted) : h \in OfKind(server, "chr") /\ h \in ChrSought
    BY <2>2, <2>3, <2>4 DEF Within, ChrSought
  <2>6. QED
    BY <2>1, <2>5 DEF OfKind
<1>5. CASE phase \in DscPhase
  <2>1. phase \notin SvcPhase \cup IncPhase \cup ChrPhase /\ phase \notin Before("dscs")
    BY <1>5 DEF SvcPhase, IncPhase, ChrPhase, DscPhase, Before, InFlight, Sent
  <2>2. wanted = [op |-> "disc_all_desc", lo |-> loc.value + 1, hi |-> loc.end, uuid |-> "any"]
    BY <1>5, <2>1 DEF wanted, CommandOf
  <2>3. KindOf(wanted.op) = "dsc"
    BY <2>2 DEF KindOf
  <2>4. \A h \in Within(wanted) : h \in OfKind(server, "dsc") /\ h \in DscSought
    BY <2>2, <2>3 DEF Within, DscSought
  <2>5. QED
    BY <2>1, <2>4 DEF OfKind
<1>6. CASE phase \notin SvcPhase \cup IncPhase \cup ChrPhase \cup DscPhase
  <2>1. wanted.op = AccessOp(test)
    BY <1>6 DEF wanted, CommandOf
  <2>2. KindOf(wanted.op) = "none"
    BY <2>1 DEF KindOf, AccessOp
  <2>3. \A h \in DOMAIN server : server[h].kind # "none"
    BY <1>1, ServerIs DEF Kind
  <2>4. QED
    BY <2>2, <2>3 DEF Within, OfKind
<1>7. QED
  BY <1>2, <1>3, <1>4, <1>5, <1>6

\* The first attribute the first discovery is told of is the one that is chosen.
LEMMA FirstFound ==
    ASSUME TInv, phase \in InFlight, Within(wanted) # {},
           \/ test \in Inside /\ phase \in {"start", "svc_sent", "svc_wait", "svc_in"}
           \/ test \in Straight /\ phase \in {"start", "chr_reset", "chr_sent", "chr_wait", "chr_in"}
    PROVE  First = Lowest(Within(wanted)) /\ First \in Within(wanted)
<1>1. server \in Server /\ \A h \in DOMAIN server : 1 <= h /\ h <= MaxHandle
  BY ServerIs DEF TInv, Typed
<1>2. First = Lowest(Within(wanted))
  <2>1. CASE test \in Inside /\ phase \in {"start", "svc_sent", "svc_wait", "svc_in"}
    <3>1. phase \in SvcPhase /\ test \notin Whole
      BY <2>1 DEF InFlight, Sent, SvcPhase, Inside, Whole
    <3>2. wanted = [op |-> "disc_prim_uuid", lo |-> 1, hi |-> MaxHandle, uuid |-> "SVC"]
      BY <3>1 DEF wanted, CommandOf
    <3>3. KindOf(wanted.op) = "svc"
      BY <3>2 DEF KindOf
    <3>4. Within(wanted) = {h \in OfKind(server, "svc") : server[h].uuid = "SVC"}
      BY <1>1, <3>2, <3>3 DEF Within, OfKind
    <3>5. QED
      BY <2>1, <3>4 DEF First, find_svc_by_uuid, find_by_uuid
  <2>2. CASE test \in Straight /\ phase \in {"start", "chr_reset", "chr_sent", "chr_wait", "chr_in"}
    <3>1. phase \in ChrPhase /\ phase \notin SvcPhase \cup IncPhase /\ test \notin Inside
      BY <2>2 DEF InFlight, Sent, SvcPhase, IncPhase, ChrPhase, Inside, Straight
    <3>2. wanted = [op |-> "disc_chrc_uuid", lo |-> 1, hi |-> MaxHandle, uuid |-> ChrUuid(test)]
      BY <3>1 DEF wanted, CommandOf
    <3>3. KindOf(wanted.op) = "chr" /\ ChrUuid(test) # "any"
      BY <3>2 DEF KindOf, ChrUuid
    <3>4. Within(wanted) = {h \in OfKind(server, "chr") : server[h].uuid = ChrUuid(test)}
      BY <1>1, <3>2, <3>3 DEF Within, OfKind
    <3>5. QED
      BY <3>1, <3>4 DEF First, find_chr_by_uuid, find_by_uuid
  <2>3. QED
    BY <2>1, <2>2
<1>3. Within(wanted) \in SUBSET Handle
  BY <1>1, ServerIs DEF Within, OfKind
<1>4. QED
  BY <1>2, <1>3, LowestOf

\* A discovery's result is told in a callback.
LEMMA PToldIn ==
    ASSUME TInv, FInv, PInv, RxFrame, cl, Head(stream) \in Reports, wanted.op \in Discovery
    PROVE  PInv'
<1>1. PICK f, list : f = Head(stream) /\ list = ListFor(f.op)
  OBVIOUS
<1>2. /\ callback = <<>> /\ stream # <<>> /\ stream' = Tail(stream) /\ UNCHANGED rxKeeps
      /\ db' = db /\ callback' = Callback(f)
  BY <1>1 DEF RxFrame, Reports
<1>3. /\ test' = test /\ cl' = cl /\ server' = server /\ air' = air /\ torn' = torn /\ loc' = loc
      /\ phase' = phase /\ wanted' = wanted
  BY <1>2, RxKeeps
<1>4. f \in Elements(stream) /\ f \in Frame
  BY <1>1, <1>2, FrameTaken DEF TInv
<1>5. phase \in InFlight /\ f = Outcome("ev", wanted)
  BY <1>1, <1>4 DEF FInv, OneReport, Under
<1>6. server \in Server /\ phase \in PhasesOf(test, cl)
  BY PhaseIs DEF TInv, Typed
<1>7. /\ f.op = wanted.op /\ f.found = Discovered(wanted)
  <2>1. KindOf(wanted.op) # "none"
    BY DEF Discovery, KindOf
  <2>2. QED
    BY <1>5, <2>1 DEF Outcome
<1>8. Elements(f.found) = Within(wanted)
  BY <1>6, <1>7, FoundIs DEF Within
<1>9. Part(list, f.found, callback') /\ \A h \in Elements(f.found) : Statement("add", list, h) \in Elements(callback')
  BY <1>1, <1>2, <1>4, <1>7, CallbackDelivers DEF Delivers
<1>10. AddsOf(callback)' = Within(wanted) /\ AddsOf(callback) = {}
  <2>1. \A s \in ListStatements(list, f.found) : s.do = "add" => s.n \in Within(wanted)
    BY <1>8 DEF ListStatements, Statement
  <2>2. \A h \in Within(wanted) : Statement("add", list, h).do = "add" /\ Statement("add", list, h).n = h
    BY DEF Statement
  <2>3. \A h \in Within(wanted) : h \in DOMAIN server
    BY DEF Within, OfKind
  <2>4. AddsOf(callback)' = Within(wanted)
    BY <1>3, <1>8, <1>9, <2>1, <2>2, <2>3 DEF AddsOf, Part
  <2>5. QED
    BY <1>2, <2>4, ElementsEmpty DEF AddsOf
<1>11. Known' = Known \cup Within(wanted)
  BY <1>2, <1>10 DEF Known
<1>12. /\ First' = First /\ (\A r : Within(r)' = Within(r))
       /\ Has("INC_SVC", "inc", 1, MaxHandle)' <=> Has("INC_SVC", "inc", 1, MaxHandle)
       /\ ChrSought' = ChrSought /\ DscSought' = DscSought
  BY <1>3, ServerSame
<1>13. OnlySought'
  BY <1>3, <1>5, <1>11, <1>12, WantedSought DEF PInv, OnlySought
<1>14. AllSought'
  <2>1. phase \notin {"svc_in", "chr_in", "dsc_in", "inc_in", "chr"}
    BY <1>5 DEF InFlight, Sent
  <2>2. QED
    BY <1>3, <1>11, <1>12, <2>1 DEF AllSought
<1>15. FirstFirst'
  <2>1. SUFFICES ASSUME \/ test \in Inside /\ phase \in {"start", "svc_sent", "svc_wait", "svc_in"}
                        \/ test \in Straight
                           /\ phase \in {"start", "chr_reset", "chr_sent", "chr_wait", "chr_in"},
                        NEW k \in 1 .. Len(callback'), callback'[k].do = "add"
                 PROVE  \E j \in 1 .. k : callback'[j].do = "add" /\ callback'[j].n = First
    <3>1. DOMAIN db # {} /\ (\/ test \in Inside /\ phase \in {"start", "svc_sent", "svc_wait", "svc_in"}
                             \/ test \in Straight
                                /\ phase \in {"start", "chr_reset", "chr_sent", "chr_wait", "chr_in"})
          => First \in DOMAIN db
      BY DEF PInv, FirstFirst, Inside, Straight
    <3>2. QED
      BY <1>2, <1>3, <1>12, <3>1 DEF FirstFirst
  <2>2. \E j \in 1 .. k : callback'[j].do = "add" /\ callback'[j].n = f.found[1]
    BY <1>9, <2>1 DEF Part, FirstBefore
  <2>3. Within(wanted) # {}
    <3>1. callback' \in Seq(AnyStatement) /\ Elements(callback') \subseteq ListStatements(list, f.found)
      BY <1>9 DEF Part
    <3>2. callback'[k] \in ListStatements(list, f.found)
      BY <2>1, <3>1, ElementsTyped
    <3>3. QED
      BY <1>8, <2>1, <3>2 DEF ListStatements, Statement
  <2>4. f.found[1] = First
    <3>1. f.found \in Seq(Handle) /\ f.found # <<>>
      BY <1>6, <1>7, <1>8, <2>3, FoundIs, ElementsEmpty
    <3>2. f.found[1] = Lowest(Within(wanted))
      BY <1>6, <1>7, <1>8, <3>1, FoundIs
    <3>3. QED
      BY <1>5, <2>1, <2>3, <3>2, FirstFound
  <2>5. QED
    BY <2>2, <2>4
<1>16. Chosen'
  BY <1>3, <1>12 DEF PInv, Chosen, HasSvc, HasChr, HasDsc
<1>17. EndRight'
  BY <1>3, <1>12 DEF PInv, EndRight, Ended, HasDsc
<1>18. QED
  BY <1>13, <1>14, <1>15, <1>16, <1>17 DEF PInv

LEMMA PRxFrame ==
    ASSUME TInv, FInv, PInv, RxFrame
    PROVE  PInv'
<1>1. PICK f : f = Head(stream)
  OBVIOUS
<1>2. /\ callback = <<>> /\ stream # <<>> /\ stream' = Tail(stream) /\ UNCHANGED rxKeeps
      /\ db' = db
      /\ \/ f.type = "rsp" /\ callback' = callback
         \/ f.type = "ev" /\ cl /\ callback' = Callback(f)
         \/ f.type = "ev" /\ ~cl /\ callback' = callback
  BY <1>1 DEF RxFrame
<1>3. /\ f \in Elements(stream) /\ f \in Frame /\ FrameOK(f)
      /\ \A X : Under(X) <=> (Under(X)' \/ f \in X)
  BY <1>1, <1>2, FrameTaken DEF TInv
<1>4. /\ test' = test /\ cl' = cl /\ server' = server /\ pc' = pc /\ loc' = loc /\ todo' = todo
      /\ torn' = torn /\ air' = air /\ request' = request /\ busy' = busy
      /\ phase \in PhasesOf(test, cl) /\ server \in Server
  BY <1>2, RxKeeps, PhaseIs DEF TInv, Typed
<1>5. Reports' = Reports
  BY DEF Reports
<1>6. callback' \in Seq(AnyStatement)
  BY <1>2, <1>3, <1>4, CallbackOK DEF TInv, Channels
<1>7. CASE f \notin Reports
  <2>1. Owed => Owed'
    BY <1>3, <1>4, <1>5, <1>7 DEF Owed
  <2>2. f.type = "rsp" \/ f.op = "notification" \/ ~cl
    BY <1>3, <1>7 DEF Reports, Frame
  <2>3. callback' = callback \/ (callback = <<>> /\ \A s \in Elements(callback') : s.do # "add")
    <3>1. CASE f.type = "rsp" \/ ~cl
      BY <1>2, <3>1
    <3>2. CASE cl /\ f.type = "ev" /\ f.op = "notification"
      BY <1>2, <1>3, <3>2, CallbackNotification
    <3>3. QED
      BY <1>2, <2>2, <3>1, <3>2
  <2>4. QED
    BY <1>4, <1>2, <1>6, <2>1, <2>3, PStand
<1>8. CASE f \in Reports
  <2>1. cl /\ phase \in InFlight /\ f = Outcome("ev", wanted)
    BY <1>3, <1>8 DEF FInv, OneReport, Under
  <2>2. f.type = "ev" /\ callback' = Callback(f) /\ f.op = wanted.op
    BY <1>2, <1>8, <2>1 DEF Reports, Outcome
  <2>3. CASE wanted.op \in Discovery
    BY <1>1, <1>8, <2>1, <2>3, PToldIn
  <2>4. CASE wanted.op \in Access
    <3>1. Elements(callback') \subseteq
             {Statement("write_status", "", 0), clear_verify_values, add_to_verify_values(f.status)}
      BY <1>3, <2>2, <2>4, CallbackAccess
    <3>2. \A s \in Elements(callback') : s.do # "add"
      <4>1. /\ Statement("write_status", "", 0).do = "write_status" /\ clear_verify_values.do = "clear"
            /\ add_to_verify_values(f.status).do = "value"
        BY DEF Statement, clear_verify_values, add_to_verify_values
      <4>2. QED
        BY <3>1, <4>1
    <3>3. phase \in Accessing
      BY <1>4, <2>1, <2>4, FlightCommand
    <3>4. ~ \E l \in Lists : phase \in Listing(l)
      BY <3>3 DEF Accessing, Listing, Lists, ReadPhase, WritePhase, CfgPhase
    <3>5. QED
      BY <1>2, <1>4, <1>6, <3>2, <3>4, PStand
  <2>5. QED
    BY <1>4, <2>1, <2>3, <2>4, FlightCommand
<1>9. QED
  BY <1>7, <1>8

LEMMA PRxStatement ==
    ASSUME TInv, FInv, PInv, RxStatement
    PROVE  PInv'
<1>1. PICK s : s = Head(callback)
  OBVIOUS
<1>2. /\ callback # <<>> /\ callback' = Tail(callback) /\ UNCHANGED rxKeeps /\ stream' = stream
      /\ db' = IF s.do = "add" THEN attr_add(db, s.n, server[s.n]) ELSE db
  BY <1>1 DEF RxStatement, gatt_cl_dec_disc_rsp
<1>3. /\ callback \in Seq(AnyStatement) /\ callback' \in Seq(AnyStatement)
      /\ s = callback[1] /\ Len(callback') = Len(callback) - 1 /\ Len(callback) \in Nat \ {0}
      /\ Elements(callback) = Elements(callback') \cup {s}
      /\ \A k \in 1 .. Len(callback) - 1 : callback'[k] = callback[k + 1]
      /\ s.do = "add" => s.n \in DOMAIN server
  <2>1. callback \in Seq(AnyStatement)
    BY DEF TInv, Channels
  <2>2. /\ callback' \in Seq(AnyStatement)
        /\ s = callback[1] /\ Len(callback') = Len(callback) - 1 /\ Len(callback) \in Nat \ {0}
        /\ Elements(callback) = Elements(callback') \cup {s}
        /\ \A k \in 1 .. Len(callback) - 1 : callback'[k] = callback[k + 1]
    BY <1>1, <1>2, <2>1, ElementsTail
  <2>3. s.do = "add" => s.n \in DOMAIN server
    BY <2>2 DEF TInv, Channels, StatementOK
  <2>4. QED
    BY <2>1, <2>2, <2>3
<1>4. /\ test' = test /\ cl' = cl /\ server' = server /\ pc' = pc /\ loc' = loc /\ todo' = todo
      /\ torn' = torn /\ air' = air /\ request' = request /\ busy' = busy /\ phase' = phase /\ wanted' = wanted
  BY <1>2, RxKeeps
<1>5. Owed' <=> Owed
  BY <1>2, <1>4 DEF Owed, Under, Reports
<1>6. DOMAIN db' = DOMAIN db \cup (IF s.do = "add" THEN {s.n} ELSE {})
  BY <1>2 DEF attr_add
<1>7. AddsOf(callback) = AddsOf(callback)' \cup (IF s.do = "add" THEN {s.n} ELSE {})
  BY <1>3, <1>4 DEF AddsOf
<1>8. Known' = Known
  BY <1>6, <1>7 DEF Known
<1>9. /\ First' = First /\ (\A r : Within(r)' = Within(r))
      /\ Has("INC_SVC", "inc", 1, MaxHandle)' <=> Has("INC_SVC", "inc", 1, MaxHandle)
      /\ ChrSought' = ChrSought /\ DscSought' = DscSought
  BY <1>4, ServerSame
<1>10. OnlySought'
  BY <1>4, <1>8, <1>9 DEF PInv, OnlySought
<1>11. AllSought'
  BY <1>4, <1>5, <1>8, <1>9 DEF PInv, AllSought
<1>12. FirstFirst'
  <2>1. SUFFICES ASSUME test \in Inside => phase \in {"start", "svc_sent", "svc_wait", "svc_in"},
                        test \in Straight => phase \in {"start", "chr_reset", "chr_sent", "chr_wait", "chr_in"},
                        test \in Inside \cup Straight
                 PROVE  /\ DOMAIN db' # {} => First \in DOMAIN db'
                        /\ \A k \in 1 .. Len(callback') : callback'[k].do = "add" =>
                              \/ First \in DOMAIN db'
                              \/ \E j \in 1 .. k : callback'[j].do = "add" /\ callback'[j].n = First
    BY <1>4, <1>9 DEF FirstFirst
  <2>2. /\ DOMAIN db # {} => First \in DOMAIN db
        /\ \A k \in 1 .. Len(callback) : callback[k].do = "add" =>
              \/ First \in DOMAIN db
              \/ \E j \in 1 .. k : callback[j].do = "add" /\ callback[j].n = First
    BY <2>1 DEF PInv, FirstFirst
  <2>3. s.do = "add" => First \in DOMAIN db'
    <3>1. 1 \in 1 .. Len(callback) /\ \A j \in 1 .. 1 : j = 1
      BY <1>3
    <3>2. QED
      BY <1>3, <1>6, <2>2, <3>1
  <2>4. ASSUME NEW k \in 1 .. Len(callback'), callback'[k].do = "add", s.do # "add", First \notin DOMAIN db
        PROVE  \E j \in 1 .. k : callback'[j].do = "add" /\ callback'[j].n = First
    <3>1. k \in 1 .. Len(callback) - 1 /\ k + 1 \in 1 .. Len(callback) /\ k \in Nat
      BY <1>3
    <3>2. PICK j \in 1 .. k + 1 : callback[j].do = "add" /\ callback[j].n = First
      BY <1>3, <2>2, <2>4, <3>1
    <3>3. j # 1
      BY <1>3, <2>4, <3>2
    <3>4. j - 1 \in 1 .. k /\ j - 1 \in 1 .. Len(callback) - 1 /\ (j - 1) + 1 = j
      BY <1>3, <3>1, <3>3
    <3>5. callback'[j - 1] = callback[j]
      BY <1>3, <3>4
    <3>6. QED
      BY <3>2, <3>4, <3>5
  <2>5. QED
    BY <1>6, <2>2, <2>3, <2>4
<1>13. Chosen'
  BY <1>4, <1>9 DEF PInv, Chosen, HasSvc, HasChr, HasDsc
<1>14. EndRight'
  BY <1>4, <1>9 DEF PInv, EndRight, Ended, HasDsc
<1>15. QED
  BY <1>10, <1>11, <1>12, <1>13, <1>14 DEF PInv

\* How a test comes to the phases in which it knows what it looks for.
LEMMA MovesSteady ==
    ASSUME NEW t, NEW c, NEW s, NEW from, NEW to, Moves(t, c, from, s, to), s.do \notin {"find", "end"}
    PROVE  /\ t \in Inside /\ to \in {"start", "svc_sent", "svc_wait", "svc_in"} =>
                 from \in {"start", "svc_sent", "svc_wait", "svc_in"}
           /\ t \in Straight /\ to \in {"start", "chr_reset", "chr_sent", "chr_wait", "chr_in"} =>
                 from \in {"start", "chr_reset", "chr_sent", "chr_wait", "chr_in"}
           /\ to # "chr" /\ to # "inc"
           /\ t = "GAD_3" /\ to = "over" => from = "inc"
           /\ to \in {"end", "dsc_reset", "dsc_sent", "dsc_wait", "dsc_in"} =>
                 from \in {"end", "dsc_reset", "dsc_sent", "dsc_wait"}
<1> USE DEF Moves, SendMoves, RspMoves, WaitMoves, FindMoves, ResetMoves, AssertMoves, LastPhase
<1>1. t \in Inside /\ to \in {"start", "svc_sent", "svc_wait", "svc_in"} =>
          from \in {"start", "svc_sent", "svc_wait", "svc_in"}
  OBVIOUS
<1>2. t \in Straight /\ to \in {"start", "chr_reset", "chr_sent", "chr_wait", "chr_in"} =>
          from \in {"start", "chr_reset", "chr_sent", "chr_wait", "chr_in"}
  BY DEF Straight, Inside
<1>3. to # "chr" /\ to # "inc" /\ (t = "GAD_3" /\ to = "over" => from = "inc")
  OBVIOUS
<1>4. to \in {"end", "dsc_reset", "dsc_sent", "dsc_wait", "dsc_in"} =>
          from \in {"end", "dsc_reset", "dsc_sent", "dsc_wait"}
  OBVIOUS
<1>5. QED
  BY <1>1, <1>2, <1>3, <1>4

\* How it comes to those of a discovery.
LEMMA MovesDiscover ==
    ASSUME NEW t, NEW c, NEW s, NEW from, NEW to, Moves(t, c, from, s, to)
    PROVE  /\ to \in {"svc_in", "inc_in", "chr_in", "dsc_in"} =>
                 \/ c /\ s.do = "wait" /\ \E l \in Lists : from \in Listing(l)
                 \/ ~c /\ s.do = "rsp" /\ s.op \in {"new_db", "add_to_db"}
           /\ s.do \in {"rsp", "wait"} =>
                 /\ from \in SvcPhase <=> to \in SvcPhase
                 /\ from \in IncPhase <=> to \in IncPhase
                 /\ from \in ChrPhase <=> to \in ChrPhase
                 /\ from \in DscPhase <=> to \in DscPhase
<1> USE DEF Moves, SendMoves, RspMoves, WaitMoves, FindMoves, ResetMoves, AssertMoves, LastPhase
<1>2. to \in {"svc_in", "inc_in", "chr_in", "dsc_in"} =>
          \/ c /\ s.do = "wait" /\ \E l \in Lists : from \in Listing(l)
          \/ ~c /\ s.do = "rsp" /\ s.op \in {"new_db", "add_to_db"}
  BY DEF Listing, Lists
<1>3. s.do \in {"rsp", "wait"} =>
          /\ from \in SvcPhase <=> to \in SvcPhase
          /\ from \in IncPhase <=> to \in IncPhase
          /\ from \in ChrPhase <=> to \in ChrPhase
          /\ from \in DscPhase <=> to \in DscPhase
  BY DEF SvcPhase, IncPhase, ChrPhase, DscPhase
<1>4. QED
  BY <1>2, <1>3

LEMMA MovesList ==
    ASSUME NEW t, NEW c, NEW s, NEW from, NEW to, Moves(t, c, from, s, to)
    PROVE  \A l \in Lists : to \in Listing(l) /\ s.do # "send" => s.do = "rsp" /\ from \in Listing(l)
BY DEF Moves, SendMoves, RspMoves, WaitMoves, FindMoves, ResetMoves, AssertMoves, LastPhase, Listing, Lists

\* A step of the test that finds nothing and learns nothing.
LEMMA PSteady ==
    ASSUME TInv, FInv, PInv, UNCHANGED mainKeeps, db' = db, torn => torn',
           loc'.start = loc.start, loc'.stop = loc.stop, loc'.chr = loc.chr, loc'.value = loc.value,
           loc'.dsc = loc.dsc, loc'.end = loc.end,
           \/ Moves(test, cl, phase, step, phase')
           \/ ~cl /\ test = "GAD_3" /\ phase = "svc_in" /\ phase' \in {"inc_next", "inc_in"},
           step.do \notin {"find", "end"},
           step.do = "rsp" => step.op \notin {"new_db", "add_to_db"},
           cl => todo' = todo,
           step.do = "wait" => ~Owed,
           (request' = request /\ step.do # "send") \/ request' # NoRequest
    PROVE  PInv'
<1>1. /\ test' = test /\ cl' = cl /\ server' = server /\ callback' = callback
      /\ air' = air /\ busy' = busy /\ stream' = stream /\ callback \in Seq(AnyStatement)
  BY MainKeeps DEF TInv, Channels
<1>2. /\ First' = First /\ (\A r : Within(r)' = Within(r))
      /\ Has("INC_SVC", "inc", 1, MaxHandle)' <=> Has("INC_SVC", "inc", 1, MaxHandle)
      /\ ChrSought' = ChrSought /\ DscSought' = DscSought /\ Known' = Known
  BY <1>1, ServerSame, KnownSame
<1>3. Owed => Owed'
  BY <1>1 DEF Owed, Under, Reports
<1>4. CASE ~cl /\ test = "GAD_3" /\ phase = "svc_in" /\ phase' \in {"inc_next", "inc_in"}
  <2>1. OnlySought'
    <3>1. \A l \in {"chrcs", "dscs"} : phase' \notin Before(l)
      BY <1>4 DEF Before, SvcPhase, ChrPhase
    <3>2. QED
      BY <1>1, <1>2, <3>1 DEF PInv, OnlySought
  <2>2. AllSought'
    BY <1>1, <1>4 DEF AllSought
  <2>3. test \notin Inside /\ test \notin Straight /\ test \notin Deep
    BY <1>4 DEF Inside, Straight, Deep
  <2>4. FirstFirst' /\ Chosen' /\ EndRight'
    BY <1>1, <1>4, <2>3 DEF FirstFirst, Chosen, EndRight, Ended, HasDsc
  <2>5. QED
    BY <2>1, <2>2, <2>4 DEF PInv
<1>5. CASE Moves(test, cl, phase, step, phase')
  <2>1. OnlySought'
    <3>1. \A l \in {"chrcs", "dscs"} : phase' \in Before(l) => phase \in Before(l)
      BY <1>5, MovesOnward DEF Lists
    <3>2. QED
      BY <1>1, <1>2, <3>1 DEF PInv, OnlySought
  <2>2. AllSought'
    <3>1. ASSUME step.do \in {"rsp", "wait"}, cl
          PROVE  wanted' = wanted
      <4>1. /\ phase \in SvcPhase <=> phase' \in SvcPhase
            /\ phase \in IncPhase <=> phase' \in IncPhase
            /\ phase \in ChrPhase <=> phase' \in ChrPhase
            /\ phase \in DscPhase <=> phase' \in DscPhase
        BY <1>5, <3>1, MovesDiscover
      <4>2. loc'[AccessArg(test)] = loc[AccessArg(test)]
        BY DEF AccessArg
      <4>3. QED
        BY <1>1, <3>1, <4>1, <4>2 DEF wanted, CommandOf
    <3>2. ASSUME air = "linked", cl, NEW l \in Lists, phase' \in Listing(l)
          PROVE  Owed' \/ (Within(wanted) \subseteq Known)'
      <4>1. CASE step.do = "send"
        BY <4>1 DEF Owed
      <4>2. CASE step.do = "rsp" /\ phase \in Listing(l)
        <5>1. Owed \/ Within(wanted) \subseteq Known
          BY <3>2, <4>2 DEF PInv, AllSought
        <5>2. QED
          BY <1>2, <1>3, <3>1, <3>2, <4>2, <5>1
      <4>3. \A k \in Lists : phase' \in Listing(k) /\ step.do # "send" => step.do = "rsp" /\ phase \in Listing(k)
        BY <1>5, MovesList
      <4>4. QED
        BY <3>2, <4>1, <4>2, <4>3
    <3>3. ASSUME air = "linked", phase' \in {"svc_in", "inc_in", "chr_in", "dsc_in"}
          PROVE  (Within(wanted) \subseteq Known)'
      <4>1. cl /\ step.do = "wait" /\ \E l \in Lists : phase \in Listing(l)
        BY <1>5, <3>3, MovesDiscover
      <4>2. Within(wanted) \subseteq Known
        BY <3>3, <4>1 DEF PInv, AllSought
      <4>3. QED
        BY <1>2, <3>1, <4>1, <4>2
    <3>4. phase' # "chr"
      BY <1>5, MovesSteady
    <3>5. QED
      BY <1>1, <3>2, <3>3, <3>4 DEF AllSought
  <2>3. FirstFirst'
    BY <1>1, <1>5, MovesSteady, FirstKept DEF PInv
  <2>4. /\ HasSvc(phase') => HasSvc(phase)
        /\ HasChr(phase') => HasChr(phase)
        /\ HasDsc(phase') => HasDsc(phase)
    BY <1>5, MovesLocals
  <2>5. /\ HasSvc(phase)' <=> HasSvc(phase')
        /\ HasChr(phase)' <=> HasChr(phase')
        /\ HasDsc(phase)' <=> HasDsc(phase')
        /\ Ended(phase)' <=> Ended(phase')
    BY <1>1 DEF HasSvc, HasChr, HasDsc, Ended
  <2>6. Chosen'
    <3>1. test = "GAD_3" /\ phase' \in {"inc", "over"} => phase = "inc"
      BY <1>5, MovesSteady
    <3>2. QED
      BY <1>1, <1>2, <2>4, <2>5, <3>1 DEF PInv, Chosen
  <2>7. EndRight'
    <3>1. Ended(phase') => Ended(phase)
      BY <1>5, <2>4, MovesSteady DEF Ended
    <3>2. QED
      BY <1>1, <1>2, <2>5, <3>1 DEF PInv, EndRight
  <2>8. QED
    BY <2>1, <2>2, <2>3, <2>6, <2>7 DEF PInv
<1>6. QED
  BY <1>4, <1>5

\* A test that fails where it is learns nothing.
LEMMA PFailed ==
    ASSUME TInv, PInv, UNCHANGED mainKeeps, pc' = pc, loc' = loc, todo' = todo, db' = db, torn => torn',
           request' = request
    PROVE  PInv'
<1>1. /\ test' = test /\ cl' = cl /\ server' = server /\ callback' = callback
      /\ air' = air /\ busy' = busy /\ stream' = stream /\ callback \in Seq(AnyStatement)
  BY MainKeeps DEF TInv, Channels
<1>2. Owed => Owed'
  BY <1>1 DEF Owed, Under, Reports
<1>3. QED
  BY <1>1, <1>2, PStand

LEMMA PResetList ==
    ASSUME TInv, FInv, PInv, ResetList
    PROVE  PInv'
<1>1. /\ outcome = "running" /\ step.do = "reset" /\ pc' = pc + 1
      /\ UNCHANGED mainKeeps /\ loc' = loc /\ todo' = todo /\ db' = db /\ torn' = torn /\ request' = request
  BY DEF ResetList, At, GoOn
<1>2. Moves(test, cl, phase, step, phase')
  BY <1>1, LeadsOn
<1>3. QED
  BY <1>1, <1>2, PSteady

LEMMA PSendCommand ==
    ASSUME TInv, FInv, PInv, SendCommand
    PROVE  PInv'
<1>1. /\ outcome = "running" /\ step.do = "send" /\ pc' = pc + 1 /\ request' = Request
      /\ UNCHANGED mainKeeps /\ loc' = loc /\ todo' = todo /\ db' = db /\ torn' = torn
  BY DEF SendCommand, At, GoOn
<1>2. Moves(test, cl, phase, step, phase')
  BY <1>1, LeadsOn
<1>3. Request \in Requests
  BY <1>1, <1>2, MovesSend, RequestIs
<1>4. request' # NoRequest
  BY <1>1, <1>3 DEF Requests, Command, NoRequest
<1>5. QED
  BY <1>1, <1>2, <1>4, PSteady

LEMMA PListServices ==
    ASSUME TInv, FInv, PInv, ListServices
    PROVE  PInv'
<1>1. /\ outcome = "running" /\ step.do = "services"
      /\ UNCHANGED mainKeeps /\ loc' = loc /\ db' = db /\ torn' = torn /\ request' = request
      /\ pc' = IF todo' = <<>> THEN pc + 3 ELSE pc + 1
  BY DEF ListServices, At
<1>2. ~cl /\ test = "GAD_3" /\ phase = "svc_in" /\ phase # "over"
  BY <1>1, StepTakes, MovesServices
<1>3. phase' \in {"inc_next", "inc_in"}
  <2>1. cl' = cl /\ test' = test
    BY <1>1, MainKeeps
  <2>2. CASE todo' # <<>>
    BY <1>1, <2>1, <2>2, StepTakes, MovesServices
  <2>3. CASE todo' = <<>>
    BY <1>1, <1>2, <2>1, <2>3, PhaseMoves, PhaseIs DEF TInv, Typed
  <2>4. QED
    BY <2>2, <2>3
<1>4. QED
  BY <1>1, <1>2, <1>3, PSteady

LEMMA PWaitEnds ==
    ASSUME TInv, FInv, PInv, WaitEnds
    PROVE  PInv'
<1>1. /\ step.do = "wait" /\ UNCHANGED mainKeeps /\ loc' = loc /\ todo' = todo /\ db' = db /\ torn' = torn
      /\ request' = request
  BY DEF WaitEnds, At
<1>2. ~Owed /\ Moves(test, cl, phase, step, phase')
  BY WaitOver
<1>3. QED
  BY <1>1, <1>2, PSteady

LEMMA PReadTimeout ==
    ASSUME TInv, FInv, PInv, ReadTimeout
    PROVE  PInv'
BY PFailed DEF ReadTimeout, Fail

LEMMA PListen ==
    ASSUME TInv, FInv, PInv, Listen
    PROVE  PInv'
<1>1. /\ outcome = "running" /\ step.do = "listen" /\ pc' = pc + 1
      /\ UNCHANGED mainKeeps /\ loc' = loc /\ todo' = todo /\ db' = db /\ torn' = torn /\ request' = request
  BY DEF Listen, At, GoOn
<1>2. Moves(test, cl, phase, step, phase')
  BY <1>1, LeadsOn
<1>3. QED
  BY <1>1, <1>2, PSteady

\* The steps that only look whether the test goes on.
LEMMA PChecks ==
    ASSUME TInv, FInv, PInv, WaitFuture \/ CheckEqual \/ Disconnect
    PROVE  PInv'
<1>1. /\ outcome = "running" /\ step.do \in {"future", "assert", "disconnect"}
      /\ UNCHANGED mainKeeps /\ loc' = loc /\ todo' = todo /\ db' = db /\ torn' = torn /\ request' = request
      /\ pc' = pc + 1 \/ pc' = pc
  BY DEF WaitFuture, CheckEqual, Disconnect, At, GoOn, Fail
<1>2. CASE pc' = pc + 1
  <2>1. Moves(test, cl, phase, step, phase')
    BY <1>1, <1>2, LeadsOn
  <2>2. QED
    BY <1>1, <2>1, PSteady
<1>3. CASE pc' = pc
  BY <1>1, <1>3, PFailed
<1>4. QED
  BY <1>1, <1>2, <1>3

LEMMA PTakeFirst ==
    ASSUME TInv, FInv, PInv, TakeFirst
    PROVE  PInv'
<1>1. /\ outcome = "running" /\ step.do \in {"value", "notification"}
      /\ UNCHANGED mainKeeps /\ todo' = todo /\ db' = db /\ request' = request /\ (torn => torn')
      /\ \/ pc' = pc + 1 /\ (loc' = [loc EXCEPT !.rsp = Head(values)] \/ loc' = [loc EXCEPT !.handle = Head(notes)])
         \/ pc' = pc /\ loc' = loc
  BY DEF TakeFirst, At, GoOn, Fail, Look
<1>2. CASE pc' = pc + 1 /\ (loc' = [loc EXCEPT !.rsp = Head(values)] \/ loc' = [loc EXCEPT !.handle = Head(notes)])
  <2>1. Moves(test, cl, phase, step, phase')
    BY <1>1, <1>2, LeadsOn
  <2>2. /\ loc'.start = loc.start /\ loc'.stop = loc.stop /\ loc'.chr = loc.chr
        /\ loc'.value = loc.value /\ loc'.dsc = loc.dsc /\ loc'.end = loc.end
    BY <1>2 DEF TInv, Typed, LocRecord
  <2>3. QED
    BY <1>1, <2>1, <2>2, PSteady
<1>3. CASE pc' = pc /\ loc' = loc
  BY <1>1, <1>3, PFailed
<1>4. QED
  BY <1>1, <1>2, <1>3

\* The search for characteristics is for all that are sought.
LEMMA WithinChr ==
    ASSUME TInv, phase \in ChrPhase, test \in Inside \cup Straight
    PROVE  Within(wanted) = ChrSought
<1>1. server \in Server /\ \A h \in DOMAIN server : 1 <= h /\ h <= MaxHandle
  BY ServerIs DEF TInv, Typed
<1>2. /\ wanted = IF test \in Inside
                  THEN [op |-> "disc_all_chrc", lo |-> loc.start, hi |-> loc.stop, uuid |-> "any"]
                  ELSE [op |-> "disc_chrc_uuid", lo |-> 1, hi |-> MaxHandle, uuid |-> ChrUuid(test)]
  BY DEF wanted, CommandOf, SvcPhase, IncPhase, ChrPhase
<1>3. KindOf(wanted.op) = "chr" /\ ChrUuid(test) # "any"
  BY <1>2 DEF KindOf, ChrUuid
<1>4. QED
  BY <1>1, <1>2, <1>3 DEF Within, ChrSought, OfKind

\* The first discovery chooses the first attribute.
LEMMA FirstChosen ==
    ASSUME TInv, PInv, NEW h,
           \/ test \in Inside /\ phase = "svc_in" /\ h = find_by_uuid(db, "svc", "SVC")
           \/ test \in Straight /\ phase = "chr_in" /\ h = find_by_uuid(db, "chr", ChrUuid(test)),
           h # None
    PROVE  h = First
<1>1. PICK kind, uuid : /\ h = find_by_uuid(db, kind, uuid)
                        /\ \/ test \in Inside /\ kind = "svc" /\ uuid = "SVC"
                           \/ test \in Straight /\ kind = "chr" /\ uuid = ChrUuid(test)
  OBVIOUS
<1>2. /\ h \in DOMAIN db /\ h \in OfKind(server, kind) /\ server[h].uuid = uuid /\ h \in Handle
      /\ \A g \in DOMAIN db : server[g].kind = kind /\ server[g].uuid = uuid => h <= g
  BY <1>1, FoundInDb DEF TInv
<1>3. First \in DOMAIN db
  <2>1. test \in Inside \cup Straight /\ (test \in Inside => test \notin Straight)
    BY <1>1 DEF Inside, Straight
  <2>2. QED
    BY <1>2, <2>1 DEF PInv, FirstFirst
<1>4. PICK S : S = {g \in OfKind(server, kind) : server[g].uuid = uuid}
  OBVIOUS
<1>5. First = Lowest(S)
  BY <1>1, <1>4 DEF First, find_svc_by_uuid, find_chr_by_uuid, find_by_uuid, Inside, Straight
<1>6. S \in SUBSET Handle
  BY <1>4, ServerIs DEF TInv, Typed, OfKind
<1>7. First \in S /\ \A g \in S : First <= g
  BY <1>2, <1>4, <1>5, <1>6, LowestOf
<1>8. h <= First /\ First <= h
  BY <1>2, <1>3, <1>4, <1>7 DEF OfKind
<1>9. h \in Nat /\ First \in Nat
  BY <1>2, <1>6, <1>7, HandleIs
<1>10. QED
  BY <1>8, <1>9

LEMMA PFindAttribute ==
    ASSUME TInv, FInv, PInv, FindAttribute
    PROVE  PInv'
<1>1. PICK h : h = FindByUuid
  OBVIOUS
<1>2. /\ outcome = "running" /\ step.do = "find"
      /\ UNCHANGED mainKeeps /\ todo' = todo /\ db' = db /\ (torn => torn') /\ request' = request
      /\ \/ pc' = pc /\ loc' = loc
         \/ /\ h # None /\ pc' = pc + 1
            /\ loc' = CASE step.op = "svc" -> [loc EXCEPT !.start = h, !.stop = db[h].last]
                        [] step.op = "chr" -> [loc EXCEPT !.chr = h, !.value = db[h].last]
                        [] step.op = "dsc" -> [loc EXCEPT !.dsc = h]
                        [] OTHER -> loc
  BY <1>1 DEF FindAttribute, At, GoOn, Fail, Look
<1>3. CASE pc' = pc /\ loc' = loc
  BY <1>2, <1>3, PFailed
<1>4. CASE /\ h # None /\ pc' = pc + 1
           /\ loc' = CASE step.op = "svc" -> [loc EXCEPT !.start = h, !.stop = db[h].last]
                       [] step.op = "chr" -> [loc EXCEPT !.chr = h, !.value = db[h].last]
                       [] step.op = "dsc" -> [loc EXCEPT !.dsc = h]
                       [] OTHER -> loc
  <2>1. FindMoves(test, step.op, step.arg, phase, phase')
    BY <1>2, <1>4, LeadsOn, MovesFind
  <2>2. h = find_by_uuid(db, step.op, step.arg)
    BY <1>1, <2>1 DEF FindMoves, FindByUuid, find_svc_by_uuid, find_inc_svc_by_uuid, find_chr_by_uuid,
                      find_dsc_by_uuid
  <2>3. h \in DOMAIN db /\ h \in OfKind(server, step.op) /\ server[h].uuid = step.arg /\ h \in Handle
    BY <1>4, <2>2, FoundInDb DEF TInv
  <2>4. /\ test' = test /\ cl' = cl /\ server' = server /\ callback' = callback /\ air' = air
        /\ loc \in LocRecord /\ h \in Known
    BY <1>2, <2>3, MainKeeps DEF TInv, Typed, Known
  <2>5. /\ First' = First /\ (\A r : Within(r)' = Within(r))
        /\ Has("INC_SVC", "inc", 1, MaxHandle)' <=> Has("INC_SVC", "inc", 1, MaxHandle)
        /\ loc'.start = loc.start /\ loc'.stop = loc.stop => ChrSought' = ChrSought
        /\ loc'.value = loc.value /\ loc'.end = loc.end => DscSought' = DscSought
        /\ Known' = Known
    BY <1>2, <2>4, ServerSame, KnownSame
  <2>6. phase' \in {"svc", "inc", "chr", "dsc"}
    BY <2>1 DEF FindMoves
  <2>7. FirstFirst'
    BY <2>4, <2>6 DEF FirstFirst
  <2>8. phase' # "chr" => AllSought'
    BY <2>6 DEF AllSought, Listing, Lists
  <2>9. /\ HasSvc(phase)' <=> HasSvc(phase')
        /\ HasChr(phase)' <=> HasChr(phase')
        /\ HasDsc(phase)' <=> HasDsc(phase')
        /\ Ended(phase)' <=> Ended(phase')
    BY <2>4 DEF HasSvc, HasChr, HasDsc, Ended
  <2>10. CASE step.op = "svc"
    <3>1. /\ phase = "svc_in" /\ phase' = "svc" /\ test \in Inside \cup {"GAD_1", "GAD_2"} /\ step.arg = "SVC"
          /\ loc'.start = h
      <4>1. phase = "svc_in" /\ phase' = "svc" /\ test \in Inside \cup {"GAD_1", "GAD_2"} /\ step.arg = "SVC"
        BY <2>1, <2>10 DEF FindMoves
      <4>2. loc' = [loc EXCEPT !.start = h, !.stop = db[h].last]
        BY <1>4, <2>10
      <4>3. QED
        BY <2>4, <4>1, <4>2 DEF LocRecord
    <3>2. phase \in Before("chrcs") /\ phase \in Before("dscs")
      BY <3>1 DEF Before, SvcPhase
    <3>3. OnlySought'
      BY <2>4, <2>5, <3>2 DEF PInv, OnlySought
    <3>4. ~HasChr(phase') /\ ~HasDsc(phase') /\ ~Ended(phase') /\ test # "GAD_3" /\ test \notin Straight
      BY <3>1 DEF HasChr, HasDsc, Ended, SvcPhase, Inside, Straight
    <3>5. test \in Inside => h = First
      BY <1>4, <2>2, <2>10, <3>1, FirstChosen
    <3>6. Chosen'
      BY <2>4, <2>5, <2>9, <3>1, <3>4, <3>5 DEF Chosen
    <3>7. EndRight'
      BY <2>9, <3>4 DEF EndRight
    <3>8. QED
      BY <2>7, <2>8, <3>1, <3>3, <3>6, <3>7 DEF PInv
  <2>11. CASE step.op = "inc"
    <3>1. phase = "inc_in" /\ phase' = "inc" /\ test = "GAD_3" /\ step.arg = "INC_SVC" /\ loc' = loc
      BY <1>2, <1>4, <2>1, <2>11 DEF FindMoves
    <3>2. phase' \notin Before("chrcs") /\ (phase' \in Before("dscs") => phase \in Before("dscs"))
      BY <3>1 DEF Before, SvcPhase, ChrPhase
    <3>3. OnlySought'
      BY <2>4, <2>5, <3>1, <3>2 DEF PInv, OnlySought
    <3>4. test \notin Inside /\ test \notin Straight /\ test \notin Deep
      BY <3>1 DEF Inside, Straight, Deep
    <3>5. Has("INC_SVC", "inc", 1, MaxHandle)
      BY <2>3, <2>11, <3>1, HandleIs DEF Has
    <3>6. Chosen' /\ EndRight'
      BY <2>4, <2>5, <3>4, <3>5 DEF Chosen, EndRight, Ended, HasDsc
    <3>7. QED
      BY <2>7, <2>8, <3>1, <3>3, <3>6 DEF PInv
  <2>12. CASE step.op = "chr"
    <3>1. /\ phase = "chr_in" /\ phase' = "chr" /\ test \in Inside \cup Straight /\ step.arg = ChrUuid(test)
          /\ loc'.chr = h /\ loc'.start = loc.start /\ loc'.stop = loc.stop
      <4>1. phase = "chr_in" /\ phase' = "chr" /\ test \in Inside \cup Straight /\ step.arg = ChrUuid(test)
        BY <2>1, <2>12 DEF FindMoves
      <4>2. loc' = [loc EXCEPT !.chr = h, !.value = db[h].last]
        BY <1>4, <2>12
      <4>3. QED
        BY <2>4, <4>1, <4>2 DEF LocRecord
    <3>2. ChrSought' = ChrSought /\ phase \in Before("dscs") /\ phase' \notin Before("chrcs")
      BY <2>5, <3>1 DEF Before, SvcPhase, ChrPhase
    <3>3. OnlySought'
      BY <2>4, <2>5, <3>2 DEF PInv, OnlySought
    <3>4. Within(wanted) = ChrSought
      BY <3>1, WithinChr DEF ChrPhase
    <3>5. AllSought'
      BY <2>4, <2>5, <3>1, <3>2, <3>4 DEF PInv, AllSought, Listing, Lists
    <3>6. ~HasDsc(phase') /\ ~Ended(phase') /\ test # "GAD_3"
      BY <3>1 DEF HasDsc, Ended, ChrPhase, Inside, Straight
    <3>7. h \in ChrSought
      BY <2>3, <2>4, <2>12 DEF PInv, OnlySought, OfKind
    <3>8. test \in Inside => HasSvc(phase)
      BY <3>1 DEF HasSvc
    <3>9. test \in Straight => h = First
      BY <1>4, <2>2, <2>12, <3>1, FirstChosen
    <3>10. Chosen'
      BY <2>4, <2>5, <2>9, <3>1, <3>2, <3>6, <3>7, <3>8, <3>9 DEF PInv, Chosen
    <3>11. EndRight'
      BY <2>9, <3>6 DEF EndRight
    <3>12. QED
      BY <2>7, <3>3, <3>5, <3>10, <3>11 DEF PInv
  <2>13. CASE step.op = "dsc"
    <3>1. /\ phase = "dsc_in" /\ phase' = "dsc" /\ test \in Deep
          /\ loc'.dsc = h /\ loc'.start = loc.start /\ loc'.stop = loc.stop /\ loc'.chr = loc.chr
          /\ loc'.value = loc.value /\ loc'.end = loc.end
      <4>1. phase = "dsc_in" /\ phase' = "dsc" /\ test \in Deep
        BY <2>1, <2>13 DEF FindMoves
      <4>2. loc' = [loc EXCEPT !.dsc = h]
        BY <1>4, <2>13
      <4>3. QED
        BY <2>4, <4>1, <4>2 DEF LocRecord
    <3>2. ChrSought' = ChrSought /\ DscSought' = DscSought
      BY <2>5, <3>1
    <3>3. phase' \notin Before("chrcs") /\ phase' \notin Before("dscs")
      BY <3>1 DEF Before, SvcPhase, ChrPhase
    <3>4. OnlySought'
      BY <2>4, <2>5, <3>2, <3>3 DEF PInv, OnlySought
    <3>5. h \in DscSought
      BY <2>3, <2>4, <2>13 DEF PInv, OnlySought, OfKind
    <3>6. /\ test \in Inside /\ HasSvc(phase') => HasSvc(phase)
          /\ HasChr(phase') => HasChr(phase)
          /\ test # "GAD_3" /\ Ended(phase)
      BY <3>1 DEF HasSvc, HasChr, Ended, Deep, SvcPhase
    <3>7. Chosen'
      BY <2>4, <2>5, <2>9, <3>1, <3>2, <3>5, <3>6 DEF PInv, Chosen
    <3>8. EndRight'
      BY <1>2, <2>4, <3>1, <3>2, <3>6 DEF PInv, EndRight
    <3>9. QED
      BY <2>7, <2>8, <3>1, <3>4, <3>7, <3>8 DEF PInv
  <2>14. QED
    BY <2>1, <2>10, <2>11, <2>12, <2>13 DEF FindMoves
<1>5. QED
  BY <1>2, <1>3, <1>4

LEMMA PFindCharacteristicEnd ==
    ASSUME TInv, FInv, PInv, FindCharacteristicEnd
    PROVE  PInv'
<1>1. PICK e : e = find_characteristic_end(db, loc.chr)
  OBVIOUS
<1>2. /\ outcome = "running" /\ step.do = "end"
      /\ UNCHANGED mainKeeps /\ todo' = todo /\ db' = db /\ torn' = (torn \/ callback # <<>>) /\ request' = request
      /\ \/ pc' = pc /\ loc' = loc
         \/ e # None /\ pc' = pc + 1 /\ loc' = [loc EXCEPT !.end = e]
  BY <1>1 DEF FindCharacteristicEnd, At, GoOn, Fail, Look
<1>3. CASE pc' = pc /\ loc' = loc
  BY <1>2, <1>3, PFailed
<1>4. CASE e # None /\ pc' = pc + 1 /\ loc' = [loc EXCEPT !.end = e]
  <2>1. phase = "chr" /\ phase' = "end" /\ test \in Deep
    <3>1. Moves(test, cl, phase, step, phase')
      BY <1>2, <1>4, LeadsOn
    <3>2. QED
      BY <1>2, <3>1 DEF Moves
  <2>2. /\ test' = test /\ cl' = cl /\ server' = server /\ callback' = callback /\ air' = air
        /\ server \in Server /\ DOMAIN db \subseteq DOMAIN server /\ \A h \in DOMAIN db : db[h] = server[h]
    BY <1>2, MainKeeps DEF TInv, Typed
  <2>3. /\ loc'.start = loc.start /\ loc'.stop = loc.stop /\ loc'.chr = loc.chr /\ loc'.end = e
    BY <1>4 DEF TInv, Typed, LocRecord
  <2>4. /\ First' = First /\ ChrSought' = ChrSought /\ Known' = Known
    BY <1>2, <2>2, <2>3, ServerSame, KnownSame
  <2>5. /\ HasSvc(phase)' <=> HasSvc(phase')
        /\ HasChr(phase)' <=> HasChr(phase')
        /\ HasDsc(phase)' <=> HasDsc(phase')
    BY <2>2 DEF HasSvc, HasChr, HasDsc
  <2>6. /\ test \in Inside \cup Straight /\ test # "GAD_3"
        /\ HasSvc(phase') => HasSvc(phase)
        /\ HasChr(phase) /\ ~HasDsc(phase')
    BY <2>1 DEF HasSvc, HasChr, HasDsc, SvcPhase, ChrPhase, Deep, Inside, Straight
  <2>7. OnlySought'
    <3>1. phase' \notin Before("chrcs") /\ phase \in Before("dscs")
      BY <2>1 DEF Before, SvcPhase, ChrPhase
    <3>2. QED
      BY <2>2, <2>4, <3>1 DEF PInv, OnlySought
  <2>8. AllSought' /\ FirstFirst'
    BY <2>1, <2>2 DEF AllSought, FirstFirst, Listing, Lists
  <2>9. Chosen'
    BY <2>2, <2>3, <2>4, <2>5, <2>6 DEF PInv, Chosen
  <2>10. EndRight'
    <3>1. SUFFICES ASSUME ~torn', air = "linked", NEW g \in ChrSought, g > loc.chr
                   PROVE  e < g
      BY <2>2, <2>3, <2>4 DEF EndRight
    <3>2. g \in DOMAIN db
      <4>1. callback = <<>>
        BY <1>2, <3>1
      <4>2. AddsOf(callback) = {}
        BY <4>1, ElementsEmpty DEF AddsOf
      <4>3. QED
        BY <2>1, <3>1, <4>2 DEF PInv, AllSought, Known
    <3>3. server[g].kind = "chr"
      BY DEF ChrSought, OfKind
    <3>4. g \in Stops(db, loc.chr)
      BY <2>2, <3>1, <3>2, <3>3 DEF Stops
    <3>5. loc.chr \in Nat
      BY <2>2, <2>6, ServerIs DEF TInv, Locals, OfKind
    <3>6. QED
      BY <1>1, <1>4, <3>4, <3>5, EndIs DEF TInv
  <2>11. QED
    BY <2>7, <2>8, <2>9, <2>10 DEF PInv
<1>5. QED
  BY <1>2, <1>3, <1>4

\* A response without GATT_CL is the result of the discovery.
LEMMA ResultRead ==
    ASSUME TInv, FInv, ReadResponse, ~cl, Head(rspq).status # "error", step.op \in {"new_db", "add_to_db"},
           Moves(test, cl, phase, step, phase') \/ phase = "inc_sent"
    PROVE  Elements(Head(rspq).found) = Within(wanted) /\ phase \in {"svc_sent", "inc_sent", "chr_sent", "dsc_sent"}
<1>1. PICK f : f = Head(rspq)
  OBVIOUS
<1>2. rspq # <<>> /\ step.do = "rsp" /\ f.op = wanted.op
  BY <1>1, ResponseRead
<1>3. phase \in {"svc_sent", "inc_sent", "chr_sent", "dsc_sent"}
  BY <1>2, MovesRsp
<1>4. KindOf(wanted.op) # "none"
  <2>1. wanted.op \in Discovery
    BY <1>3, DiscoveryPhase
  <2>2. QED
    BY <2>1 DEF Discovery, KindOf
<1>5. f = Outcome("rsp", wanted)
  BY <1>1, <1>2 DEF FInv, Results, RspIs
<1>6. f.found = Discovered(wanted)
  BY <1>4, <1>5 DEF Outcome
<1>7. Elements(f.found) = Within(wanted)
  BY <1>6, FoundIs DEF Within, TInv, Typed
<1>8. QED
  BY <1>1, <1>3, <1>7

LEMMA PReadResponse ==
    ASSUME TInv, FInv, PInv, ReadResponse
    PROVE  PInv'
<1>1. PICK f : f = Head(rspq)
  OBVIOUS
<1>2. /\ outcome = "running" /\ step.do = "rsp" /\ UNCHANGED mainKeeps /\ torn' = torn /\ request' = request
      /\ phase \in Sent
      /\ \/ pc' = pc /\ UNCHANGED <<db, loc, todo>>
         \/ /\ StoreRsp(f) /\ f.status # "error"
            /\ \/ /\ ~cl /\ phase = "inc_sent" /\ phase' = "inc_next" /\ step.op = "add_to_db"
               \/ Moves(test, cl, phase, step, phase')
  BY <1>1, ResponseRead
<1>3. CASE pc' = pc /\ UNCHANGED <<db, loc, todo>>
  BY <1>2, <1>3, PFailed
<1>4. /\ test' = test /\ cl' = cl /\ server' = server /\ callback' = callback /\ air' = air
      /\ callback \in Seq(AnyStatement) /\ (~cl => callback = <<>>)
  BY <1>2, MainKeeps DEF TInv, Channels, FInv, Untouched
<1>5. ASSUME ~cl, StoreRsp(f), f.status # "error", step.op \in {"new_db", "add_to_db"},
             Moves(test, cl, phase, step, phase') \/ phase = "inc_sent"
      PROVE  /\ DOMAIN db' = Within(wanted) \cup (IF step.op = "new_db" THEN {} ELSE DOMAIN db)
             /\ loc' = loc /\ Known' = DOMAIN db' /\ phase \in InFlight
             /\ phase \in {"svc_sent", "inc_sent", "chr_sent", "dsc_sent"}
             /\ First' = First /\ (\A r : Within(r)' = Within(r))
             /\ ChrSought' = ChrSought /\ DscSought' = DscSought
             /\ Len(callback') = 0
  <2>1. Elements(f.found) = Within(wanted) /\ phase \in {"svc_sent", "inc_sent", "chr_sent", "dsc_sent"}
    BY <1>1, <1>5, ResultRead
  <2>2. DOMAIN db' = Within(wanted) \cup (IF step.op = "new_db" THEN {} ELSE DOMAIN db) /\ loc' = loc
    BY <1>5, <2>1 DEF StoreRsp
  <2>3. Known' = DOMAIN db'
    BY <1>4, <1>5, ElementsEmpty DEF Known, AddsOf
  <2>4. QED
    BY <1>4, <1>5, <2>1, <2>2, <2>3, ServerSame, SentInFlight DEF Sent
<1>6. CASE /\ StoreRsp(f) /\ f.status # "error" /\ Moves(test, cl, phase, step, phase')
           /\ step.op \notin {"new_db", "add_to_db"}
  <2>1. db' = db /\ todo' = todo /\ (loc' = loc \/ loc' = [loc EXCEPT !.rsp = f.status])
    BY <1>6 DEF StoreRsp
  <2>2. /\ loc'.start = loc.start /\ loc'.stop = loc.stop /\ loc'.chr = loc.chr
        /\ loc'.value = loc.value /\ loc'.dsc = loc.dsc /\ loc'.end = loc.end
    BY <2>1 DEF TInv, Typed, LocRecord
  <2>3. QED
    BY <1>2, <1>6, <2>1, <2>2, PSteady
<1>7. CASE /\ StoreRsp(f) /\ f.status # "error" /\ Moves(test, cl, phase, step, phase')
           /\ step.op = "new_db"
  <2>1. ~cl /\ phase \in {"svc_sent", "chr_sent", "dsc_sent"}
    BY <1>2, <1>7, MovesRsp
  <2>2. /\ Known' = Within(wanted) /\ DOMAIN db' = Within(wanted) /\ loc' = loc /\ todo' = todo
        /\ phase \in InFlight
        /\ First' = First /\ (\A r : Within(r)' = Within(r))
        /\ ChrSought' = ChrSought /\ DscSought' = DscSought
        /\ Len(callback') = 0
    <3>1. todo' = todo
      BY <1>7 DEF StoreRsp
    <3>2. QED
      BY <1>5, <1>7, <2>1, <3>1
  <2>3. wanted' = wanted
    <3>1. /\ phase \in SvcPhase <=> phase' \in SvcPhase
          /\ phase \in IncPhase <=> phase' \in IncPhase
          /\ phase \in ChrPhase <=> phase' \in ChrPhase
          /\ phase \in DscPhase <=> phase' \in DscPhase
      BY <1>2, <1>7, MovesDiscover
    <3>2. QED
      BY <1>4, <2>2, <3>1 DEF wanted, CommandOf
  <2>4. /\ test \in Inside /\ phase' \in {"start", "svc_sent", "svc_wait", "svc_in"} =>
               phase \in {"start", "svc_sent", "svc_wait", "svc_in"}
        /\ test \in Straight /\ phase' \in {"start", "chr_reset", "chr_sent", "chr_wait", "chr_in"} =>
               phase \in {"start", "chr_reset", "chr_sent", "chr_wait", "chr_in"}
        /\ phase' # "chr" /\ phase' # "inc" /\ (test = "GAD_3" => phase' # "over")
        /\ phase' \in {"end", "dsc_reset", "dsc_sent", "dsc_wait", "dsc_in"} =>
               phase \in {"end", "dsc_reset", "dsc_sent", "dsc_wait"}
    BY <1>2, <1>7, <2>1, MovesSteady
  <2>5. /\ \A l \in {"chrcs", "dscs"} : phase' \in Before(l) => phase \in Before(l)
        /\ HasSvc(phase') => HasSvc(phase)
        /\ HasChr(phase') => HasChr(phase)
        /\ HasDsc(phase') => HasDsc(phase)
        /\ Ended(phase') => Ended(phase)
    <3>1. \A l \in {"chrcs", "dscs"} : phase' \in Before(l) => phase \in Before(l)
      BY <1>7, MovesOnward DEF Lists
    <3>2. /\ HasSvc(phase') => HasSvc(phase)
          /\ HasChr(phase') => HasChr(phase)
          /\ HasDsc(phase') => HasDsc(phase)
      BY <1>2, <1>7, MovesLocals
    <3>3. QED
      BY <2>4, <3>1, <3>2 DEF Ended
  <2>6. /\ HasSvc(phase)' <=> HasSvc(phase')
        /\ HasChr(phase)' <=> HasChr(phase')
        /\ HasDsc(phase)' <=> HasDsc(phase')
        /\ Ended(phase)' <=> Ended(phase')
    BY <1>4 DEF HasSvc, HasChr, HasDsc, Ended
  <2>7. OnlySought'
    BY <1>4, <2>2, <2>5, WantedSought DEF OnlySought
  <2>8. AllSought'
    BY <1>4, <2>1, <2>2, <2>3, <2>4 DEF AllSought
  <2>9. FirstFirst'
    <3>1. test \in Inside => test \notin Straight
      BY DEF Inside, Straight
    <3>2. QED
      BY <1>4, <2>2, <2>4, <3>1, FirstFound DEF FirstFirst
  <2>10. Chosen'
    BY <1>4, <2>2, <2>4, <2>5, <2>6 DEF PInv, Chosen
  <2>11. EndRight'
    BY <1>2, <1>4, <2>2, <2>5, <2>6 DEF PInv, EndRight
  <2>12. QED
    BY <2>7, <2>8, <2>9, <2>10, <2>11 DEF PInv
<1>8. CASE /\ StoreRsp(f) /\ f.status # "error" /\ step.op = "add_to_db"
           /\ \/ ~cl /\ phase = "inc_sent" /\ phase' = "inc_next"
              \/ Moves(test, cl, phase, step, phase')
  <2>1. ~cl /\ phase = "inc_sent" /\ phase' \in {"inc_next", "inc_in"}
    BY <1>2, <1>8, MovesRsp
  <2>2. /\ Known' = DOMAIN db \cup Within(wanted) /\ phase \in InFlight
        /\ ChrSought' = ChrSought /\ DscSought' = DscSought
    BY <1>5, <1>8, <2>1
  <2>3. \A l \in {"chrcs", "dscs"} : phase' \in Before(l) => phase \in Before(l)
    BY <2>1 DEF Before, SvcPhase, ChrPhase
  <2>4. OnlySought'
    BY <1>4, <2>2, <2>3, WantedSought DEF PInv, OnlySought, Known
  <2>5. AllSought'
    BY <1>4, <2>1 DEF AllSought
  <2>6. test \notin Inside /\ test \notin Straight /\ test \notin Deep
    BY <2>1, PhaseIs DEF PhasesOf, Inside, Straight, Deep
  <2>7. FirstFirst' /\ Chosen' /\ EndRight'
    BY <1>4, <2>1, <2>6 DEF FirstFirst, Chosen, EndRight, Ended, HasDsc
  <2>8. QED
    BY <2>4, <2>5, <2>7 DEF PInv
<1>9. QED
  BY <1>2, <1>3, <1>6, <1>7, <1>8

LEMMA PInvNext == TInv /\ FInv /\ PInv /\ [Next]_vars => PInv'
<1> SUFFICES ASSUME TInv, FInv, PInv, [Next]_vars PROVE PInv'
  OBVIOUS
<1>1. CASE Answer \/ Report \/ Notify
  BY <1>1, PIuts
<1>2. CASE LoseLink("lost") \/ LoseLink("crashed") \/ PeripheralRx \/ UNCHANGED vars
  BY <1>2, PAside
<1>3. CASE RxFrame \/ RxStatement
  BY <1>3, PRxFrame, PRxStatement
<1>4. CASE RunTest
  BY <1>4, PResetList, PSendCommand, PReadResponse, PReadTimeout, PListServices, PWaitEnds,
     PFindAttribute, PFindCharacteristicEnd, PListen, PTakeFirst, PChecks DEF RunTest
<1>5. QED
  BY <1>1, <1>2, <1>3, <1>4 DEF Next

LEMMA PInvCorrect == Spec => [](TInv /\ FInv /\ PInv)
BY TInvInit, TInvNext, FInvInit, FInvNext, PInvInit, PInvNext, PTL DEF Spec

\* Whatever the server, a test passes for the attribute it is about: the
\* descriptor it has found belongs to the characteristic it has found, unless
\* that is the last of its service or the characteristics were still coming in
\* when find_characteristic_end() looked for its end; and a test that subscribes
\* never passes on the descriptor of another characteristic (GattTestCase,
\* verify_notification_ev).
THEOREM PassedIsRightCorrect == Spec => []PassedIsRight
BY PInvCorrect, PInvPassed, PTL

-----------------------------------------------------------------------------
\* Causes: the invariant GInv, that every step keeps it, and what a failure shows.

\* A response is owed to every command on a standing link.
ResponseOwed ==
    outcome = "running" /\ air = "linked" /\ phase \in Sent =>
        request # NoRequest \/ rspq # <<>> \/ Under(Responses)

IncludedSought ==
    air = "linked" /\ ~cl /\ phase \in {"inc_next", "inc_sent", "inc_in"} =>
        \A h \in OfKind(server, "inc") :
            \/ h \in DOMAIN db
            \/ \E v \in Elements(todo) : v <= h /\ h <= server[v].last

EndFar == Ended(phase) =>
    \A d \in OfKind(server, "dsc") : Belongs(d, loc.chr) => d <= loc.end

ChosenRight ==
    Offered /\ ~torn /\ air = "linked" =>
        /\ test \in Inside /\ HasChr(phase) => loc.chr = InService(ChrUuid(test))
        /\ test \in Subscribes /\ HasDsc(phase) => ValueAbove(loc.dsc) = loc.value

Heard ==
    /\ phase \notin {"write_wait", "write_late", "write_in", "write_got", "write_sure", "cfg_listen",
                     "done", "over"} \cup CfgPhase => future = "none"
    /\ air = "linked" /\ AttStatus = "no_error" /\ ~missed /\ phase \in WritePhase =>
          request # NoRequest \/ busy # NoRequest \/ changed \/ future = "done"

Arrived ==
    \/ callback # <<>> /\ callback[Len(callback)].do = "value"
    \/ values # <<>> /\ \A s \in Elements(callback) : s.do # "clear"

Mild == att \in {"ok", "empty"} /\ ~(cl /\ att = "empty" /\ test \in Reads)

ValuesCome ==
    /\ air = "linked" /\ Mild /\ cl =>
          /\ phase \in {"read_sent", "read_wait", "write_sent", "write_answered", "write_wait",
                        "cfg_sent", "cfg_wait"} => Owed \/ Arrived
          /\ phase \in {"read_in", "write_in", "cfg_in"} => Arrived
    /\ dead => att = "unknown"

NotesCome ==
    /\ air = "linked" /\ Mild /\ cl /\ phase \in CfgPhase =>
          request # NoRequest \/ busy # NoRequest \/ subscribed # None
    /\ cl /\ att # "empty" /\ notified > 0 =>
          \/ notes # <<>>
          \/ \E s \in Elements(callback) : s.do = "notification"
          \/ Under(Notifications)
    /\ air = "linked" /\ Mild /\ cl /\ att # "empty" /\ phase = "cfg_noted" => notes # <<>>

GInv == ResponseOwed /\ IncludedSought /\ EndFar /\ ChosenRight /\ Heard /\ ValuesCome /\ NotesCome

\* What a step of the test that leads on does.
Advances ==
    /\ \/ Moves(test, cl, phase, step, phase')
       \/ /\ ~cl /\ test = "GAD_3"
          /\ \/ step.do = "services" /\ phase = "svc_in" /\ phase' = "inc_in"
             \/ step.do = "rsp" /\ phase = "inc_sent" /\ phase' = "inc_next"
    /\ step.do = "send" => request' # NoRequest
    /\ step.do # "send" => request' = request
    /\ step.do # "rsp" => rspq' = rspq
    /\ IF step.do = "listen" THEN future' = "waiting" ELSE future' = future
    /\ step.do \notin {"find", "end"} =>
          /\ loc'.start = loc.start /\ loc'.stop = loc.stop /\ loc'.chr = loc.chr
          /\ loc'.value = loc.value /\ loc'.dsc = loc.dsc /\ loc'.end = loc.end

GivesUp ==
    /\ pc' = pc /\ phase' = phase /\ outcome' \notin {"running", "passed"}
    /\ UNCHANGED <<loc, todo, db, future, request>>

LEMMA TestStep ==
    ASSUME TInv, FInv, RunTest
    PROVE  /\ outcome = "running" /\ UNCHANGED mainKeeps /\ (torn => torn')
           /\ values' = values /\ written' = written /\ notes' = notes
           /\ Advances \/ GivesUp
<1> USE DEF At, GoOn, Fail, clVars
<1>1. CASE ResetList
  <2>1. /\ outcome = "running" /\ step.do = "reset" /\ pc' = pc + 1 /\ UNCHANGED mainKeeps /\ torn' = torn
        /\ values' = values /\ written' = written /\ notes' = notes
        /\ loc' = loc /\ future' = future /\ rspq' = rspq /\ request' = request
    BY <1>1 DEF ResetList
  <2>2. QED
    BY <2>1, LeadsOn DEF Advances
<1>2. CASE SendCommand
  <2>1. /\ outcome = "running" /\ step.do = "send" /\ pc' = pc + 1 /\ UNCHANGED mainKeeps /\ torn' = torn
        /\ values' = values /\ written' = written /\ notes' = notes
        /\ loc' = loc /\ future' = future /\ rspq' = rspq /\ request' = Request
    BY <1>2 DEF SendCommand
  <2>2. Moves(test, cl, phase, step, phase')
    BY <2>1, LeadsOn
  <2>3. Request \in Requests
    BY <2>1, <2>2, MovesSend, RequestIs
  <2>4. request' # NoRequest
    BY <2>1, <2>3 DEF Requests, Command, NoRequest
  <2>5. QED
    BY <2>1, <2>2, <2>4 DEF Advances
<1>3. CASE ReadResponse
  <2>1. /\ outcome = "running" /\ step.do = "rsp" /\ UNCHANGED mainKeeps /\ torn' = torn
        /\ values' = values /\ written' = written /\ notes' = notes
        /\ future' = future /\ request' = request
        /\ \/ pc' = pc /\ outcome' = "raised" /\ UNCHANGED <<db, loc, todo>>
           \/ /\ StoreRsp(Head(rspq))
              /\ \/ ~cl /\ phase = "inc_sent" /\ phase' = "inc_next"
                 \/ Moves(test, cl, phase, step, phase')
    BY <1>3, ResponseRead
  <2>2. CASE pc' = pc /\ outcome' = "raised" /\ UNCHANGED <<db, loc, todo>>
    BY <2>1, <2>2, PhaseSame, MainKeeps DEF GivesUp
  <2>3. CASE /\ StoreRsp(Head(rspq))
             /\ \/ ~cl /\ phase = "inc_sent" /\ phase' = "inc_next"
                \/ Moves(test, cl, phase, step, phase')
    <3>1. \E x : loc' = loc \/ loc' = [loc EXCEPT !.rsp = x]
      BY <2>3 DEF StoreRsp
    <3>2. /\ loc'.start = loc.start /\ loc'.stop = loc.stop /\ loc'.chr = loc.chr
          /\ loc'.value = loc.value /\ loc'.dsc = loc.dsc /\ loc'.end = loc.end
      BY <3>1 DEF TInv, Typed, LocRecord
    <3>3. phase = "inc_sent" => test = "GAD_3"
      BY PhaseIs DEF PhasesOf
    <3>4. QED
      BY <2>1, <2>3, <3>2, <3>3 DEF Advances
  <2>4. QED
    BY <2>1, <2>2, <2>3
<1>4. CASE ReadTimeout
  BY <1>4, PhaseSame, MainKeeps DEF ReadTimeout, GivesUp
<1>5. CASE ListServices
  <2>1. /\ outcome = "running" /\ step.do = "services" /\ UNCHANGED mainKeeps /\ torn' = torn
        /\ values' = values /\ written' = written /\ notes' = notes
        /\ loc' = loc /\ future' = future /\ rspq' = rspq /\ request' = request
        /\ pc' = IF todo' = <<>> THEN pc + 3 ELSE pc + 1
    BY <1>5 DEF ListServices
  <2>2. ~cl /\ test = "GAD_3" /\ phase = "svc_in" /\ phase # "over"
    BY <2>1, StepTakes, MovesServices
  <2>3. CASE todo' # <<>>
    BY <2>1, <2>3, LeadsOn DEF Advances
  <2>4. CASE todo' = <<>>
    <3>1. phase' = "inc_in"
      BY <2>1, <2>2, <2>4, PhaseMoves, PhaseIs, MainKeeps DEF TInv, Typed
    <3>2. QED
      BY <2>1, <2>2, <3>1 DEF Advances
  <2>5. QED
    BY <2>3, <2>4
<1>6. CASE WaitEnds
  BY <1>6, LeadsOn DEF WaitEnds, Advances
<1>7. CASE FindAttribute \/ FindCharacteristicEnd
  <2>1. /\ outcome = "running" /\ step.do \in {"find", "end"} /\ UNCHANGED mainKeeps /\ (torn => torn')
        /\ values' = values /\ written' = written /\ notes' = notes
        /\ todo' = todo /\ db' = db /\ future' = future /\ rspq' = rspq /\ request' = request
        /\ \/ pc' = pc + 1
           \/ pc' = pc /\ outcome' = "assertion" /\ loc' = loc
    BY <1>7 DEF FindAttribute, FindCharacteristicEnd, Look
  <2>2. CASE pc' = pc + 1
    BY <2>1, <2>2, LeadsOn DEF Advances
  <2>3. CASE pc' = pc /\ outcome' = "assertion" /\ loc' = loc
    BY <2>1, <2>3, PhaseSame, MainKeeps DEF GivesUp
  <2>4. QED
    BY <2>1, <2>2, <2>3
<1>8. CASE Listen
  BY <1>8, LeadsOn DEF Listen, Advances
<1>9. CASE WaitFuture \/ CheckEqual \/ Disconnect
  <2>1. /\ outcome = "running" /\ step.do \in {"future", "assert", "disconnect"} /\ UNCHANGED mainKeeps /\ torn' = torn
        /\ values' = values /\ written' = written /\ notes' = notes
        /\ todo' = todo /\ db' = db /\ loc' = loc /\ future' = future /\ rspq' = rspq /\ request' = request
        /\ \/ pc' = pc + 1
           \/ pc' = pc /\ outcome' \in {"assertion", "raised"}
    BY <1>9 DEF WaitFuture, CheckEqual, Disconnect
  <2>2. CASE pc' = pc + 1
    BY <2>1, <2>2, LeadsOn DEF Advances
  <2>3. CASE pc' = pc /\ outcome' \in {"assertion", "raised"}
    BY <2>1, <2>3, PhaseSame, MainKeeps DEF GivesUp
  <2>4. QED
    BY <2>1, <2>2, <2>3
<1>10. CASE TakeFirst
  <2>1. /\ outcome = "running" /\ step.do \in {"value", "notification"} /\ UNCHANGED mainKeeps /\ (torn => torn')
        /\ values' = values /\ written' = written /\ notes' = notes
        /\ todo' = todo /\ db' = db /\ future' = future /\ rspq' = rspq /\ request' = request
        /\ \/ pc' = pc + 1 /\ (loc' = [loc EXCEPT !.rsp = Head(values)] \/ loc' = [loc EXCEPT !.handle = Head(notes)])
           \/ pc' = pc /\ outcome' = "raised" /\ loc' = loc
    BY <1>10 DEF TakeFirst, Look
  <2>2. CASE pc' = pc + 1 /\ (loc' = [loc EXCEPT !.rsp = Head(values)] \/ loc' = [loc EXCEPT !.handle = Head(notes)])
    <3>1. /\ loc'.start = loc.start /\ loc'.stop = loc.stop /\ loc'.chr = loc.chr
          /\ loc'.value = loc.value /\ loc'.dsc = loc.dsc /\ loc'.end = loc.end
      BY <2>2 DEF TInv, Typed, LocRecord
    <3>2. QED
      BY <2>1, <2>2, <3>1, LeadsOn DEF Advances
  <2>3. CASE pc' = pc /\ outcome' = "raised" /\ loc' = loc
    BY <2>1, <2>3, PhaseSame, MainKeeps DEF GivesUp
  <2>4. QED
    BY <2>1, <2>2, <2>3
<1>11. QED
  BY <1>1, <1>2, <1>3, <1>4, <1>5, <1>6, <1>7, <1>8, <1>9, <1>10 DEF RunTest

\* What the steps of the IUTs and of the receive threads leave alone.
Aside == Answer \/ Report \/ Notify \/ LoseLink("lost") \/ LoseLink("crashed") \/ PeripheralRx
         \/ RxFrame \/ RxStatement \/ UNCHANGED vars

LEMMA AsideKeeps ==
    ASSUME TInv, FInv, Aside
    PROVE  /\ test' = test /\ cl' = cl /\ server' = server /\ att' = att
           /\ loc' = loc /\ todo' = todo /\ torn' = torn /\ outcome' = outcome
           /\ phase' = phase /\ wanted' = wanted
           /\ air' = air \/ air' # "linked"
           /\ ~cl => db' = db
           /\ missed => missed'
<1>1. UNCHANGED <<fixed, testVars>>
  BY DEF Aside, Answer, Report, Notify, LoseLink, PeripheralRx, RxFrame, RxStatement, vars, iutsKeep, rxKeeps
<1>2. air' = air \/ air' # "linked"
  BY DEF Aside, Answer, Report, Notify, LoseLink, PeripheralRx, RxFrame, RxStatement, vars, rxKeeps, airVars
<1>3. ~cl => db' = db
  <2>1. callback # <<>> => cl
    BY DEF FInv, Untouched
  <2>2. QED
    BY <2>1 DEF Aside, Answer, Report, Notify, LoseLink, PeripheralRx, RxFrame, RxStatement, vars, iutsKeep
<1>4. missed => missed'
  BY DEF Aside, Answer, Report, Notify, LoseLink, PeripheralRx, RxFrame, RxStatement, vars, rxKeeps, airVars
<1>5. QED
  BY <1>1, <1>2, <1>3, <1>4, StandStill

LEMMA NextSteps == [Next]_vars => RunTest \/ Aside
BY DEF Next, Aside

LEMMA MovesSent ==
    ASSUME NEW t, NEW c, NEW s, NEW from, NEW to, Moves(t, c, from, s, to), to \in Sent, s.do # "send"
    PROVE  s.do = "listen" /\ from = "write_sent" /\ from \in Sent
BY DEF Moves, SendMoves, RspMoves, WaitMoves, FindMoves, ResetMoves, AssertMoves, LastPhase, Sent

\* A response is under way to every command, as long as the link stands.
LEMMA GResponseOwed ==
    ASSUME TInv, FInv, ResponseOwed, [Next]_vars
    PROVE  ResponseOwed'
<1> SUFFICES ASSUME outcome' = "running", air' = "linked", phase' \in Sent
             PROVE  request' # NoRequest \/ rspq' # <<>> \/ Under(Responses)'
  <2>1. Sent' = Sent
    BY DEF Sent
  <2>2. QED
    BY <2>1 DEF ResponseOwed
<1>1. Responses' = Responses
  BY DEF Responses
<1>2. CASE RunTest
  <2>1. Advances /\ UNCHANGED mainKeeps /\ outcome = "running"
    BY <1>2, TestStep DEF GivesUp
  <2>2. CASE step.do = "send"
    BY <2>1, <2>2 DEF Advances
  <2>3. CASE step.do # "send"
    <3>1. Moves(test, cl, phase, step, phase')
      BY <2>1 DEF Advances, Sent
    <3>2. step.do = "listen" /\ phase \in Sent
      BY <2>3, <3>1, MovesSent
    <3>3. request' = request /\ rspq' = rspq /\ air' = air /\ (Under(Responses)' <=> Under(Responses))
      BY <1>1, <2>1, <3>2, MainKeeps DEF Advances
    <3>4. QED
      BY <2>1, <3>2, <3>3 DEF ResponseOwed
  <2>4. QED
    BY <2>2, <2>3
<1>3. ASSUME Aside
      PROVE  outcome = "running" /\ air = "linked" /\ phase \in Sent
  BY <1>3, AsideKeeps DEF LoseLink
<1>4. CASE Answer
  <2>1. request \in Requests /\ request # NoRequest /\ server \in Server /\ air' = air
    BY <1>4 DEF Answer, TInv, Typed
  <2>2. PICK f : stream' = Append(stream, f) /\ f \in Frame /\ f.type = "rsp"
    <3>1. "error" \in Statuses /\ "success" \in Statuses
      BY DEF Statuses
    <3>2. \/ stream' = Append(stream, Status("error"))
          \/ stream' = Append(stream, Status("success"))
          \/ stream' = Append(stream, Outcome("rsp", request))
      BY <1>4 DEF Answer
    <3>3. QED
      BY <2>1, <3>1, <3>2, StatusIs, OutcomeIs
  <2>3. f \in Responses
    BY <2>2 DEF Responses
  <2>4. QED
    BY <1>1, <2>2, <2>3, FrameSent DEF TInv
<1>5. CASE Report \/ Notify
  <2>1. rspq' = rspq /\ request' = request
    BY <1>5, IutsKeep DEF Report, Notify
  <2>2. PICK f \in Frame : stream' = Append(stream, f)
    <3>1. CASE Report
      <4>1. busy \in Requests /\ server \in Server
        BY <3>1 DEF Report, TInv, Typed
      <4>2. stream' = Append(stream, Outcome("ev", busy)) /\ Outcome("ev", busy) \in Frame
        BY <3>1, <4>1, OutcomeIs DEF Report
      <4>3. QED
        BY <4>2
    <3>2. CASE Notify
      BY <3>2, NotifyIs DEF NotificationIs
    <3>3. QED
      BY <1>5, <3>1, <3>2
  <2>3. QED
    BY <1>1, <1>3, <1>5, <2>1, <2>2, FrameSent DEF ResponseOwed, TInv, Aside
<1>6. CASE LoseLink("lost") \/ LoseLink("crashed") \/ PeripheralRx \/ RxStatement \/ UNCHANGED vars
  <2>1. request' = request /\ rspq' = rspq /\ stream' = stream
    BY <1>6 DEF LoseLink, PeripheralRx, RxStatement, vars, iutsKeep, rxKeeps, airVars
  <2>2. Under(Responses)' <=> Under(Responses)
    BY <1>1, <2>1 DEF Under
  <2>3. QED
    BY <1>3, <1>6, <2>1, <2>2 DEF ResponseOwed, Aside
<1>7. CASE RxFrame
  <2>1. PICK f : f = Head(stream)
    OBVIOUS
  <2>2. /\ stream # <<>> /\ stream' = Tail(stream) /\ request' = request
        /\ rspq' = Append(rspq, f) \/ (rspq' = rspq /\ f.type = "ev")
    BY <1>7, <2>1, RxKeeps DEF RxFrame
  <2>3. \A X : Under(X) <=> (Under(X)' \/ f \in X)
    BY <2>1, <2>2, FrameTaken DEF TInv
  <2>4. CASE rspq' = Append(rspq, f)
    <3>1. rspq \in Seq(Frame) /\ f \in Frame
      BY <2>1, <2>2, FrameTaken DEF TInv, Channels
    <3>2. QED
      BY <2>4, <3>1, AppendProperties
  <2>5. CASE rspq' = rspq /\ f.type = "ev"
    <3>1. f \notin Responses
      BY <2>5 DEF Responses
    <3>2. QED
      BY <1>1, <1>3, <1>7, <2>2, <2>3, <2>5, <3>1 DEF ResponseOwed, Aside
  <2>6. QED
    BY <2>2, <2>4, <2>5
<1>8. QED
  BY <1>2, <1>4, <1>5, <1>6, <1>7 DEF Next

\* The phases in which the test may be listening.
Hearing == {"write_wait", "write_late", "write_in", "write_got", "write_sure", "cfg_listen", "done", "over"}
           \cup CfgPhase

LEMMA MovesHearing ==
    ASSUME NEW t, NEW c, NEW s, NEW from, NEW to, Moves(t, c, from, s, to)
    PROVE  /\ to \notin Hearing => from \notin Hearing /\ s.do # "listen"
           /\ to \in WritePhase /\ s.do # "send" => from \in WritePhase
           /\ to \in WritePhase /\ s.do = "listen" => from \notin Hearing
<1> USE DEF Moves, SendMoves, RspMoves, WaitMoves, FindMoves, ResetMoves, AssertMoves, LastPhase, Hearing, WritePhase,
            CfgPhase
<1>1. to \notin Hearing => from \notin Hearing
  OBVIOUS
<1>2. to \notin Hearing => s.do # "listen"
  OBVIOUS
<1>3. to \in WritePhase /\ s.do # "send" => from \in WritePhase
  OBVIOUS
<1>4. to \in WritePhase /\ s.do = "listen" => from \notin Hearing
  OBVIOUS
<1>5. QED
  BY <1>1, <1>2, <1>3, <1>4

LEMMA WriteCommand ==
    ASSUME TInv, phase \in WritePhase
    PROVE  wanted.op \in {"write", "write_long"}
<1>1. phase \notin SvcPhase \cup IncPhase \cup ChrPhase \cup DscPhase
  BY DEF WritePhase, SvcPhase, IncPhase, ChrPhase, DscPhase
<1>2. test \in Writes
  BY PhaseIs DEF WritePhase, PhasesOf
<1>3. wanted.op = AccessOp(test)
  BY <1>1 DEF wanted, CommandOf
<1>4. QED
  BY <1>2, <1>3 DEF AccessOp, Writes

\* The report of a write is heard, or it is on its way, unless it was missed.
LEMMA GHeard ==
    ASSUME TInv, FInv, Heard, [Next]_vars
    PROVE  Heard'
<1>1. Hearing' = Hearing /\ WritePhase' = WritePhase
  BY DEF Hearing, WritePhase, CfgPhase
<1>2. Heard <=> /\ phase \notin Hearing => future = "none"
                /\ air = "linked" /\ AttStatus = "no_error" /\ ~missed /\ phase \in WritePhase =>
                      request # NoRequest \/ busy # NoRequest \/ changed \/ future = "done"
  BY DEF Heard, Hearing
<1>3. Heard' <=> /\ phase' \notin Hearing => future' = "none"
                 /\ air' = "linked" /\ AttStatus' = "no_error" /\ ~missed' /\ phase' \in WritePhase =>
                       request' # NoRequest \/ busy' # NoRequest \/ changed' \/ future' = "done"
  BY <1>1 DEF Heard, Hearing
<1>4. CASE RunTest
  <2>1. UNCHANGED mainKeeps /\ (Advances \/ GivesUp)
    BY <1>4, TestStep
  <2>2. /\ test' = test /\ cl' = cl /\ server' = server /\ att' = att /\ air' = air /\ busy' = busy
        /\ changed' = changed /\ missed' = missed /\ AttStatus' = AttStatus
    BY <2>1, MainKeeps, FixedSame
  <2>3. CASE GivesUp
    BY <1>2, <1>3, <2>2, <2>3 DEF GivesUp
  <2>4. CASE Advances /\ Moves(test, cl, phase, step, phase')
    <3>1. phase' \notin Hearing => future' = "none"
      BY <1>2, <2>4, MovesHearing DEF Advances
    <3>2. CASE step.do = "send"
      BY <1>3, <2>4, <3>1, <3>2 DEF Advances
    <3>3. CASE step.do # "send" /\ step.do # "listen"
      BY <1>2, <1>3, <2>2, <2>4, <3>1, <3>3, MovesHearing DEF Advances
    <3>4. CASE step.do = "listen"
      BY <1>2, <1>3, <2>2, <2>4, <3>1, <3>4, MovesHearing DEF Advances
    <3>5. QED
      BY <3>2, <3>3, <3>4
  <2>5. CASE Advances /\ ~Moves(test, cl, phase, step, phase')
    <3>1. /\ phase \notin Hearing /\ phase' \notin WritePhase /\ future' = future
      BY <2>5 DEF Advances, Hearing, CfgPhase, WritePhase
    <3>2. QED
      BY <1>2, <1>3, <3>1
  <2>6. QED
    BY <2>1, <2>3, <2>4, <2>5
<1>5. ASSUME Aside
      PROVE  phase' = phase /\ AttStatus' = AttStatus /\ wanted' = wanted /\ (air' = "linked" => air = "linked")
  BY <1>5, AsideKeeps, FixedSame
<1>6. CASE Answer \/ Report
  <2>1. /\ future' = future /\ missed' = missed /\ air' = air /\ (Answer => request # NoRequest) /\ (Report => busy # NoRequest)
    BY <1>6, IutsKeep DEF Answer, Report
  <2>2. ASSUME air' = "linked", AttStatus' = "no_error", phase \in WritePhase
        PROVE  busy' # NoRequest \/ changed'
    <3>1. CASE Answer
      <4>1. request = wanted
        BY <2>1, <3>1 DEF TInv, OneResponse
      <4>2. CASE cl
        BY <2>1, <2>2, <3>1, <4>2 DEF Answer
      <4>3. CASE ~cl
        <5>1. Effect(request)
          BY <2>1, <2>2, <3>1, <4>3 DEF Answer
        <5>2. QED
          BY <1>5, <2>2, <3>1, <4>1, <5>1, WriteCommand DEF Effect, Aside
      <4>4. QED
        BY <4>2, <4>3
    <3>2. CASE Report
      <4>1. busy = wanted
        BY <2>1, <3>2 DEF FInv, OneReport
      <4>2. Effect(busy)
        BY <3>2 DEF Report
      <4>3. QED
        BY <1>5, <2>2, <3>2, <4>1, <4>2, WriteCommand DEF Effect, Aside
    <3>3. QED
      BY <1>6, <3>1, <3>2
  <2>3. QED
    BY <1>2, <1>3, <1>5, <1>6, <2>1, <2>2 DEF Aside
<1>7. CASE Notify \/ LoseLink("lost") \/ LoseLink("crashed") \/ RxStatement \/ UNCHANGED vars
  <2>1. /\ future' = future /\ missed' = missed /\ request' = request /\ changed' = changed
        /\ busy' = busy \/ air' # "linked"
    BY <1>7 DEF Notify, LoseLink, RxStatement, vars, iutsKeep, rxKeeps, airVars
  <2>2. QED
    BY <1>2, <1>3, <1>5, <1>7, <2>1 DEF Aside
<1>8. CASE PeripheralRx
  <2>1. /\ request' = request /\ busy' = busy
        /\ \/ future = "waiting" /\ future' = "done"
           \/ missed' /\ future' = future
    BY <1>8 DEF PeripheralRx
  <2>2. QED
    BY <1>2, <1>3, <1>5, <1>8, <2>1 DEF Aside
<1>9. CASE RxFrame
  <2>1. request' = request /\ busy' = busy /\ changed' = changed /\ missed' = missed
    BY <1>9, RxKeeps DEF RxFrame
  <2>2. future' = future \/ (future = "waiting" /\ future' = "done")
    BY <1>9 DEF RxFrame
  <2>3. QED
    BY <1>2, <1>3, <1>5, <1>9, <2>1, <2>2 DEF Aside
<1>10. QED
  BY <1>4, <1>6, <1>7, <1>8, <1>9 DEF Next

\* The phases of the included services, without GATT_CL.
LEMMA MovesIncluded ==
    ASSUME NEW t, NEW s, NEW from, NEW to, Moves(t, FALSE, from, s, to), to \in {"inc_next", "inc_sent", "inc_in"}
    PROVE  \/ s.do = "services" /\ from = "svc_in"
           \/ s.do = "send" /\ from = "inc_next" /\ to = "inc_sent"
           \/ s.do = "rsp" /\ s.op = "add_to_db" /\ from = "inc_sent"
BY DEF Moves, SendMoves, RspMoves, WaitMoves, FindMoves, ResetMoves, AssertMoves, LastPhase

\* Every service the test has learned of is asked for the services it includes.
LEMMA ServicesListed ==
    ASSUME TInv, FInv, PInv, ListServices, air = "linked"
    PROVE  \A h \in OfKind(server, "inc") : \E v \in Elements(todo') : v <= h /\ h <= server[v].last
<1>1. ~cl /\ test = "GAD_3" /\ phase = "svc_in" /\ callback = <<>>
  <2>1. outcome = "running" /\ step.do = "services"
    BY DEF ListServices, At
  <2>2. QED
    BY <2>1, StepTakes, MovesServices DEF FInv, Untouched
<1>2. /\ server \in Server /\ DOMAIN db \subseteq DOMAIN server /\ \A h \in DOMAIN db : db[h] = server[h]
      /\ \A h \in DOMAIN server : 1 <= h /\ h <= MaxHandle /\ h \in Nat
  BY ServerIs DEF TInv, Typed
<1>3. Within(wanted) = OfKind(server, "svc")
  <2>1. wanted = [op |-> "disc_prim_svcs", lo |-> 1, hi |-> MaxHandle, uuid |-> "any"]
    BY <1>1 DEF wanted, CommandOf, SvcPhase, Whole
  <2>2. KindOf(wanted.op) = "svc"
    BY <2>1 DEF KindOf
  <2>3. QED
    BY <1>2, <2>1, <2>2 DEF Within, OfKind
<1>4. Known = DOMAIN db
  BY <1>1, ElementsEmpty DEF Known, AddsOf
<1>5. OfKind(server, "svc") \subseteq DOMAIN db
  BY <1>1, <1>3, <1>4 DEF PInv, AllSought
<1>6. get_services(db) = OfKind(server, "svc")
  BY <1>2, <1>5 DEF get_services, OfKind
<1>7. Elements(todo') = OfKind(server, "svc")
  <2>1. todo' = Sorted(OfKind(server, "svc"))
    BY <1>6 DEF ListServices
  <2>2. OfKind(server, "svc") \in SUBSET Handle
    BY <1>2, ServerIs DEF OfKind
  <2>3. QED
    BY <2>1, <2>2, SortedIs
<1>8. ASSUME NEW h \in OfKind(server, "inc")
      PROVE  \E v \in OfKind(server, "svc") : v <= h /\ h <= server[v].last
  <2>1. PICK v \in OfKind(server, "svc") : v < h /\ h <= server[v].last
    BY <1>2, ServerIs DEF Ordered
  <2>2. v \in Nat /\ h \in Nat
    BY <1>2 DEF OfKind
  <2>3. v <= h
    BY <2>1, <2>2
  <2>4. QED
    BY <2>1, <2>3
<1>9. QED
  BY <1>7, <1>8

LEMMA GIncludedSought ==
    ASSUME TInv, FInv, PInv, IncludedSought, [Next]_vars
    PROVE  IncludedSought'
<1> SUFFICES ASSUME air' = "linked", ~cl', phase' \in {"inc_next", "inc_sent", "inc_in"},
                    NEW h \in OfKind(server', "inc"), h \notin DOMAIN db'
             PROVE  \E v \in Elements(todo') : v <= h /\ h <= server'[v].last
  BY DEF IncludedSought, OfKind
<1>1. CASE Aside
  <2>1. server' = server /\ todo' = todo /\ cl' = cl /\ db' = db /\ phase' = phase /\ air = "linked"
    BY <1>1, AsideKeeps
  <2>2. QED
    BY <2>1 DEF IncludedSought
<1>2. CASE RunTest
  <2>1. UNCHANGED mainKeeps /\ (Advances \/ GivesUp)
    BY <1>2, TestStep
  <2>2. server' = server /\ ~cl /\ air = "linked" /\ cl = FALSE
    BY <2>1, MainKeeps, PhaseIs
  <2>3. CASE GivesUp
    BY <2>2, <2>3 DEF GivesUp, IncludedSought
  <2>4. CASE Advances /\ ~GivesUp
    <3>1. \/ step.do = "services"
          \/ step.do = "send" /\ phase = "inc_next"
          \/ step.do = "rsp" /\ phase = "inc_sent"
      <4>1. CASE Moves(test, cl, phase, step, phase')
        BY <2>2, <4>1, MovesIncluded
      <4>2. QED
        BY <2>4, <4>1 DEF Advances
    <3>2. CASE step.do = "services"
      <4>1. ListServices
        BY <1>2, <3>2 DEF RunTest, ResetList, SendCommand, ReadResponse, ReadTimeout, WaitEnds, FindAttribute,
              FindCharacteristicEnd, Listen, WaitFuture, TakeFirst, CheckEqual, Disconnect, At
      <4>2. QED
        BY <2>2, <4>1, ServicesListed
    <3>3. CASE step.do = "send" /\ phase = "inc_next"
      <4>1. SendCommand
        BY <1>2, <3>3 DEF RunTest, ResetList, ListServices, ReadResponse, ReadTimeout, WaitEnds, FindAttribute,
              FindCharacteristicEnd, Listen, WaitFuture, TakeFirst, CheckEqual, Disconnect, At
      <4>2. db' = db /\ todo' = todo
        BY <4>1 DEF SendCommand
      <4>3. QED
        BY <2>2, <3>3, <4>2 DEF IncludedSought
    <3>4. CASE step.do = "rsp" /\ phase = "inc_sent"
      <4>1. ReadResponse \/ ReadTimeout
        BY <1>2, <3>4 DEF RunTest, ResetList, ListServices, SendCommand, WaitEnds, FindAttribute,
              FindCharacteristicEnd, Listen, WaitFuture, TakeFirst, CheckEqual, Disconnect, At
      <4>2. CASE UNCHANGED <<db, todo>>
        BY <2>2, <3>4, <4>2 DEF IncludedSought
      <4>3. CASE ~UNCHANGED <<db, todo>>
        <5>1. ReadResponse
          BY <4>1, <4>3 DEF ReadTimeout
        <5>2. /\ StoreRsp(Head(rspq)) /\ Head(rspq).status # "error" /\ step.op = "add_to_db"
          <6>1. /\ StoreRsp(Head(rspq)) /\ Head(rspq).status # "error"
                /\ step.op = "add_to_db" \/ Moves(test, cl, phase, step, phase')
            BY <4>3, <5>1, ResponseRead
          <6>2. QED
            BY <2>2, <3>4, <6>1, MovesIncluded
        <5>3. Elements(Head(rspq).found) = Within(wanted)
          BY <2>2, <3>4, <5>1, <5>2, ResultRead
        <5>4. todo' = Tail(todo) /\ DOMAIN db' = Within(wanted) \cup DOMAIN db
          BY <5>2, <5>3 DEF StoreRsp
        <5>5. todo # <<>> /\ todo \in Seq(DOMAIN server) /\ server \in Server
          BY <2>2, <3>4 DEF TInv, Typed, Progress
        <5>6. Elements(todo) = Elements(todo') \cup {Head(todo)}
          BY <5>4, <5>5, ElementsTail
        <5>7. PICK v \in Elements(todo) : v <= h /\ h <= server[v].last
          BY <2>2, <3>4, <5>4 DEF IncludedSought
        <5>8. v # Head(todo)
          <6>1. wanted = [op |-> "find_included", lo |-> Head(todo), hi |-> server[Head(todo)].last, uuid |-> "any"]
            BY <2>2, <3>4 DEF wanted, CommandOf, SvcPhase, IncPhase
          <6>2. KindOf(wanted.op) = "inc"
            BY <6>1 DEF KindOf
          <6>3. v = Head(todo) => h \in Within(wanted)
            BY <2>2, <5>7, <6>1, <6>2 DEF Within
          <6>4. QED
            BY <5>4, <6>3
        <5>9. QED
          BY <2>2, <5>6, <5>7, <5>8
      <4>4. QED
        BY <4>2, <4>3
    <3>5. QED
      BY <3>1, <3>2, <3>3, <3>4
  <2>5. QED
    BY <2>1, <2>3, <2>4
<1>3. QED
  BY <1>1, <1>2, NextSteps

\* What a look-up tells the test.
LEMMA FindLeads ==
    ASSUME TInv, FindAttribute
    PROVE  /\ db' = db /\ torn' = (torn \/ callback # <<>>) /\ step.do = "find" /\ outcome = "running"
           /\ UNCHANGED mainKeeps
           /\ \/ pc' = pc /\ FindByUuid = None
              \/ \E h : /\ h # None /\ h = find_by_uuid(db, step.op, step.arg) /\ pc' = pc + 1
                        /\ FindMoves(test, step.op, step.arg, phase, phase')
                        /\ step.op = "chr" => loc'.chr = h
                        /\ step.op = "dsc" => /\ loc'.dsc = h /\ loc'.chr = loc.chr /\ loc'.value = loc.value
                                              /\ loc'.end = loc.end
<1>1. PICK h : h = FindByUuid
  OBVIOUS
<1>2. /\ outcome = "running" /\ step.do = "find" /\ UNCHANGED mainKeeps /\ db' = db
      /\ torn' = (torn \/ callback # <<>>)
      /\ \/ h = None /\ pc' = pc
         \/ /\ h # None /\ pc' = pc + 1
            /\ loc' = CASE step.op = "svc" -> [loc EXCEPT !.start = h, !.stop = db[h].last]
                        [] step.op = "chr" -> [loc EXCEPT !.chr = h, !.value = db[h].last]
                        [] step.op = "dsc" -> [loc EXCEPT !.dsc = h]
                        [] OTHER -> loc
  BY <1>1 DEF FindAttribute, At, GoOn, Fail, Look
<1>3. CASE /\ h # None /\ pc' = pc + 1
           /\ loc' = CASE step.op = "svc" -> [loc EXCEPT !.start = h, !.stop = db[h].last]
                       [] step.op = "chr" -> [loc EXCEPT !.chr = h, !.value = db[h].last]
                       [] step.op = "dsc" -> [loc EXCEPT !.dsc = h]
                       [] OTHER -> loc
  <2>1. FindMoves(test, step.op, step.arg, phase, phase')
    BY <1>2, <1>3, LeadsOn, MovesFind
  <2>2. h = find_by_uuid(db, step.op, step.arg)
    BY <1>1, <2>1 DEF FindMoves, FindByUuid, find_svc_by_uuid, find_inc_svc_by_uuid, find_chr_by_uuid,
                      find_dsc_by_uuid
  <2>3. loc \in LocRecord
    BY DEF TInv, Typed
  <2>4. ASSUME step.op = "chr"
        PROVE  loc'.chr = h
    <3>1. loc' = [loc EXCEPT !.chr = h, !.value = db[h].last]
      BY <1>3, <2>4
    <3>2. QED
      BY <2>3, <3>1 DEF LocRecord
  <2>5. ASSUME step.op = "dsc"
        PROVE  loc'.dsc = h /\ loc'.chr = loc.chr /\ loc'.value = loc.value /\ loc'.end = loc.end
    <3>1. loc' = [loc EXCEPT !.dsc = h]
      BY <1>3, <2>5
    <3>2. QED
      BY <2>3, <3>1 DEF LocRecord
  <2>6. QED
    BY <1>2, <1>3, <2>1, <2>2, <2>4, <2>5
<1>4. QED
  BY <1>1, <1>2, <1>3

\* A descriptor of the characteristic is among those the search is for.
LEMMA WithinDsc ==
    ASSUME phase \in DscPhase
    PROVE  Within(wanted) = DscSought
<1>1. wanted = [op |-> "disc_all_desc", lo |-> loc.value + 1, hi |-> loc.end, uuid |-> "any"]
  BY DEF wanted, CommandOf, SvcPhase, IncPhase, ChrPhase, DscPhase
<1>2. KindOf(wanted.op) = "dsc"
  BY <1>1 DEF KindOf
<1>3. QED
  BY <1>1, <1>2 DEF Within, DscSought

LEMMA SoughtDescriptor ==
    ASSUME TInv, EndFar, HasChr(phase), Ended(phase), NEW d \in OfKind(server, "dsc"), Belongs(d, loc.chr)
    PROVE  d \in DscSought
<1>1. server \in Server /\ loc.chr \in OfKind(server, "chr") /\ loc.value = server[loc.chr].last
  BY DEF TInv, Typed, Locals
<1>2. /\ loc.chr < loc.value /\ \A g \in DOMAIN server : ~(loc.chr < g /\ g <= loc.value)
      /\ loc.value \in Nat /\ d \in Nat /\ d \in DOMAIN server
  BY <1>1, ServerIs, MaxHandleNat DEF Ordered, OfKind
<1>3. loc.chr < d /\ d <= loc.end
  BY DEF EndFar, Belongs
<1>4. loc.value + 1 <= d
  BY <1>2, <1>3
<1>5. QED
  BY <1>3, <1>4 DEF DscSought

\* The characteristic the test chooses is the first one in the service.
LEMMA ChosenInService ==
    ASSUME TInv, PInv, phase = "chr_in", test \in Inside, callback = <<>>, air = "linked",
           NEW h, h = find_by_uuid(db, "chr", ChrUuid(test))
    PROVE  h = InService(ChrUuid(test))
<1>1. PICK S : S = {c \in ChrSought : server[c].uuid = ChrUuid(test)}
  OBVIOUS
<1>2. server \in Server /\ DOMAIN db \subseteq DOMAIN server /\ \A g \in DOMAIN db : db[g] = server[g]
  BY DEF TInv, Typed
<1>3. ChrSought = {c \in OfKind(server, "chr") : loc.start <= c /\ c <= loc.stop}
  BY DEF ChrSought
<1>4. HasSvc(phase)
  BY DEF HasSvc
<1>5. /\ loc.start = First /\ First = find_svc_by_uuid(server, "SVC") /\ loc.start # None
      /\ loc.stop = server[loc.start].last
  BY <1>2, <1>4, ServerIs DEF PInv, Chosen, First, TInv, Locals, OfKind
<1>6. S = {c \in OfKind(server, "chr") : loc.start <= c /\ c <= loc.stop /\ server[c].uuid = ChrUuid(test)}
  BY <1>1, <1>3
<1>7. InService(ChrUuid(test)) = Lowest(S)
  BY <1>5, <1>6 DEF InService
<1>8. S \in SUBSET Handle
  BY <1>2, <1>6, ServerIs DEF OfKind
<1>9. S \subseteq DOMAIN db
  <2>1. Within(wanted) = ChrSought
    BY WithinChr DEF ChrPhase
  <2>2. Known = DOMAIN db
    BY ElementsEmpty DEF Known, AddsOf
  <2>3. QED
    BY <1>1, <2>1, <2>2 DEF PInv, AllSought
<1>10. \A g \in S : server[g].kind = "chr" /\ server[g].uuid = ChrUuid(test) /\ g \in DOMAIN db
  BY <1>6, <1>9 DEF OfKind
<1>11. CASE h = None
  <2>1. S = {}
    BY <1>10, <1>11, FoundInDb DEF TInv
  <2>2. QED
    BY <1>7, <1>8, <1>11, <2>1, LowestOf
<1>12. CASE h # None
  <2>1. /\ h \in DOMAIN db /\ h \in OfKind(server, "chr") /\ server[h].uuid = ChrUuid(test)
        /\ \A g \in S : h <= g
    BY <1>10, <1>12, FoundInDb DEF TInv
  <2>2. h \in ChrSought
    BY <2>1 DEF PInv, OnlySought, Known, OfKind
  <2>3. h \in S
    BY <1>1, <2>1, <2>2
  <2>4. QED
    BY <1>7, <1>8, <2>1, <2>3, LowestIs
<1>13. QED
  BY <1>11, <1>12

\* The descriptor a subscription test chooses is that of the characteristic.
LEMMA ChosenDescriptor ==
    ASSUME TInv, PInv, EndFar, phase = "dsc_in", test \in Subscribes, callback = <<>>, air = "linked", Offered,
           NEW h, h = find_by_uuid(db, "dsc", "CCC"), h # None
    PROVE  ValueAbove(h) = loc.value
<1>1. server \in Server /\ DOMAIN db \subseteq DOMAIN server
  BY DEF TInv, Typed
<1>2. HasChr(phase) /\ Ended(phase) /\ test \in Straight
  BY DEF HasChr, Ended, Subscribes, Straight, Deep, SvcPhase
<1>3. /\ loc.chr \in OfKind(server, "chr") /\ loc.value = server[loc.chr].last
      /\ loc.chr = find_chr_by_uuid(server, "CHR_NOTIFY")
  BY <1>2 DEF TInv, Locals, PInv, Chosen, First, ChrUuid, Subscribes, Inside
<1>4. PICK d \in OfKind(server, "dsc") : server[d].uuid = "CCC" /\ Belongs(d, loc.chr)
  BY <1>3 DEF Offered, HasDescriptor, Subscribes
<1>5. d \in DOMAIN db
  <2>1. d \in DscSought
    BY <1>2, <1>4, SoughtDescriptor
  <2>2. Within(wanted) = DscSought
    BY WithinDsc DEF DscPhase
  <2>3. Known = DOMAIN db
    BY ElementsEmpty DEF Known, AddsOf
  <2>4. QED
    BY <2>1, <2>2, <2>3 DEF PInv, AllSought
<1>6. /\ h \in DOMAIN db /\ h \in OfKind(server, "dsc") /\ h <= d
  BY <1>4, <1>5, FoundInDb DEF TInv, OfKind
<1>7. h \in DscSought
  BY <1>6 DEF PInv, OnlySought, Known, OfKind
<1>8. /\ loc.chr \in Nat /\ loc.value \in Nat /\ loc.chr < loc.value /\ d \in Nat /\ h \in Nat /\ d \in 0 .. MaxHandle
      /\ \A g \in DOMAIN server : g \in Nat
  BY <1>1, <1>3, <1>6, ServerIs, MaxHandleNat DEF Ordered, OfKind
<1>9. loc.chr < h
  BY <1>7, <1>8 DEF DscSought
<1>10. \A g \in DOMAIN server : g > loc.chr /\ server[g].kind \in {"chr", "svc"} => d < g
  BY <1>1, <1>4, <1>8, EndOfIs DEF Belongs
<1>11. PICK above : above = {c \in OfKind(server, "chr") : c < h}
  OBVIOUS
<1>12. loc.chr \in above
  BY <1>3, <1>9, <1>11
<1>13. PICK m : m = CHOOSE c \in above : \A g \in above : g <= c
  OBVIOUS
<1>14. above \in SUBSET Handle
  BY <1>1, <1>11, ServerIs DEF OfKind
<1>15. m \in above /\ loc.chr <= m
  BY <1>12, <1>13, <1>14, HighestOf
<1>16. m = loc.chr
  <2>1. m \in Nat /\ m < h /\ m \in DOMAIN server /\ server[m].kind = "chr"
    BY <1>8, <1>11, <1>15 DEF OfKind
  <2>2. m > loc.chr => d < m
    BY <1>10, <2>1
  <2>3. QED
    BY <1>6, <1>8, <1>15, <2>1, <2>2
<1>17. ValueAbove(h) = server[m].last
  BY <1>11, <1>12, <1>13 DEF ValueAbove
<1>18. QED
  BY <1>3, <1>16, <1>17

LEMMA ActionFind == RunTest /\ step.do = "find" => FindAttribute
BY DEF RunTest, ResetList, SendCommand, ReadResponse, ReadTimeout, WaitEnds, ListServices,
       FindCharacteristicEnd, Listen, WaitFuture, TakeFirst, CheckEqual, Disconnect, At

LEMMA ActionEnd == RunTest /\ step.do = "end" => FindCharacteristicEnd
BY DEF RunTest, ResetList, SendCommand, ReadResponse, ReadTimeout, WaitEnds, ListServices,
       FindAttribute, Listen, WaitFuture, TakeFirst, CheckEqual, Disconnect, At

\* The end of a characteristic is behind all its descriptors.
LEMMA EndFound ==
    ASSUME TInv, FInv, PInv, FindCharacteristicEnd, Ended(phase')
    PROVE  /\ phase = "chr" /\ phase' = "end" /\ loc'.chr = loc.chr
           /\ \A d \in OfKind(server, "dsc") : Belongs(d, loc.chr) => d <= loc'.end
<1>1. PICK e : e = find_characteristic_end(db, loc.chr)
  OBVIOUS
<1>2. /\ outcome = "running" /\ step.do = "end" /\ UNCHANGED mainKeeps
      /\ \/ pc' = pc /\ loc' = loc
         \/ e # None /\ pc' = pc + 1 /\ loc' = [loc EXCEPT !.end = e]
  BY <1>1 DEF FindCharacteristicEnd, At, GoOn, Fail, Look
<1>3. phase = "chr" /\ test \in Deep
  BY <1>2, StepTakes DEF Moves
<1>4. pc' # pc
  <2>1. ~Ended("chr")
    BY DEF Ended, HasDsc, ChrPhase
  <2>2. pc' = pc => phase' = phase
    BY <1>2, PhaseSame, MainKeeps
  <2>3. QED
    BY <1>3, <2>1, <2>2
<1>5. e # None /\ pc' = pc + 1 /\ loc' = [loc EXCEPT !.end = e]
  BY <1>2, <1>4
<1>6. phase' = "end"
  BY <1>2, <1>3, <1>5, LeadsOn DEF Moves
<1>7. loc'.chr = loc.chr /\ loc'.end = e
  BY <1>5 DEF TInv, Typed, LocRecord
<1>8. server \in Server /\ DOMAIN db \subseteq DOMAIN server
  BY DEF TInv, Typed
<1>9. loc.chr \in Nat /\ loc.chr \in OfKind(server, "chr")
  <2>1. HasChr(phase)
    BY <1>3 DEF HasChr, Deep, Inside, Straight, SvcPhase
  <2>2. QED
    BY <1>8, <2>1, ServerIs DEF TInv, Locals, OfKind
<1>10. ASSUME NEW d \in OfKind(server, "dsc"), Belongs(d, loc.chr)
       PROVE  d <= e
  <2>1. d \in Nat /\ d \in 0 .. MaxHandle /\ d <= MaxHandle
    BY <1>8, ServerIs, HandleIs DEF OfKind
  <2>2. e \in 0 .. MaxHandle
    BY <1>1, <1>9, EndIs DEF TInv
  <2>3. CASE e = MaxHandle
    BY <2>1, <2>3
  <2>4. CASE e # MaxHandle
    <3>1. e + 1 \in DOMAIN db /\ loc.chr < e + 1
      BY <1>1, <1>5, <1>9, <2>4, EndIs DEF TInv
    <3>2. server[e + 1].kind \in {"chr", "svc"}
      <4>1. phase \in Before("dscs") /\ test # "GAD_3"
        BY <1>3 DEF Before, ChrPhase, Deep
      <4>2. server[e + 1].kind \notin {"inc", "dsc"}
        BY <3>1, <4>1 DEF PInv, OnlySought, Known
      <4>3. server[e + 1].kind \in Kind
        BY <1>8, <3>1, ServerIs
      <4>4. QED
        BY <4>2, <4>3 DEF Kind
    <3>3. e + 1 > loc.chr
      BY <1>9, <2>2, <3>1, MaxHandleNat
    <3>4. d < e + 1
      BY <1>8, <1>9, <1>10, <2>1, <3>1, <3>2, <3>3, EndOfIs DEF Belongs
    <3>5. QED
      BY <2>1, <2>2, <3>4, MaxHandleNat
  <2>5. QED
    BY <2>3, <2>4
<1>11. QED
  BY <1>3, <1>6, <1>7, <1>10

LEMMA EndSame ==
    ASSUME server' = server
    PROVE  \A d, c : Belongs(d, c)' <=> Belongs(d, c)
BY DEF Belongs, EndOf

LEMMA GEndFar ==
    ASSUME TInv, FInv, PInv, EndFar, [Next]_vars
    PROVE  EndFar'
<1>1. server' = server /\ test' = test
  <2>1. RunTest \/ Aside
    BY NextSteps
  <2>2. QED
    BY <2>1, TestStep, AsideKeeps, MainKeeps
<1>2. (\A d, c : Belongs(d, c)' <=> Belongs(d, c)) /\ (Ended(phase)' <=> Ended(phase'))
  BY <1>1, EndSame DEF Ended, HasDsc
<1>3. EndFar' <=> (Ended(phase') => \A d \in OfKind(server, "dsc") : Belongs(d, loc'.chr) => d <= loc'.end)
  BY <1>1, <1>2 DEF EndFar, OfKind
<1>4. Ended(phase) /\ loc'.chr = loc.chr /\ loc'.end = loc.end => EndFar'
  BY <1>3 DEF EndFar
<1>5. CASE Aside
  BY <1>3, <1>4, <1>5, AsideKeeps
<1>6. CASE RunTest
  <2>1. Advances \/ GivesUp
    BY <1>6, TestStep
  <2>2. CASE GivesUp
    BY <1>3, <1>4, <2>2 DEF GivesUp
  <2>3. CASE Advances /\ step.do \notin {"find", "end"}
    <3>1. Ended(phase') => Ended(phase)
      <4>1. CASE Moves(test, cl, phase, step, phase')
        BY <2>3, <4>1, MovesLocals, MovesSteady DEF Ended
      <4>2. CASE ~Moves(test, cl, phase, step, phase')
        BY <2>3, <4>2 DEF Advances, Ended, Deep
      <4>3. QED
        BY <4>1, <4>2
    <3>2. QED
      BY <1>3, <1>4, <2>3, <3>1 DEF Advances
  <2>4. CASE step.do = "find" /\ ~GivesUp
    <3>1. FindAttribute
      BY <1>6, <2>4, ActionFind
    <3>2. FindMoves(test, step.op, step.arg, phase, phase')
      <4>1. Moves(test, cl, phase, step, phase')
        BY <2>1, <2>4 DEF Advances
      <4>2. QED
        BY <2>4, <4>1, MovesFind
    <3>3. CASE step.op = "dsc"
      <4>1. phase = "dsc_in" /\ test \in Deep
        BY <3>2, <3>3 DEF FindMoves
      <4>2. Ended(phase)
        BY <4>1 DEF Ended
      <4>3. loc'.chr = loc.chr /\ loc'.end = loc.end
        <5>1. pc' # pc
          <6>1. phase' # phase
            BY <3>2 DEF FindMoves
          <6>2. QED
            BY <3>1, <6>1, FindLeads, PhaseSame, MainKeeps
        <5>2. QED
          BY <3>1, <3>3, <5>1, FindLeads
      <4>4. QED
        BY <1>4, <4>2, <4>3
    <3>4. CASE step.op # "dsc"
      <4>1. phase' \in {"svc", "inc", "chr"}
        BY <3>2, <3>4 DEF FindMoves
      <4>2. ~Ended(phase')
        BY <3>2, <3>4, <4>1 DEF FindMoves, Ended, HasDsc, SvcPhase, ChrPhase, Deep
      <4>3. QED
        BY <1>3, <4>2
    <3>5. QED
      BY <3>3, <3>4
  <2>5. CASE step.do = "end"
    <3>1. FindCharacteristicEnd
      BY <1>6, <2>5, ActionEnd
    <3>2. QED
      BY <1>3, <3>1, EndFound
  <2>6. QED
    BY <2>1, <2>2, <2>3, <2>4, <2>5
<1>7. QED
  BY <1>5, <1>6, NextSteps

LEMMA OfferedSame ==
    ASSUME test' = test, server' = server
    PROVE  /\ Offered' <=> Offered
           /\ \A u : InService(u)' = InService(u)
<1>1. (\A u : InService(u)' = InService(u)) /\ (\A u, k, lo, hi : Has(u, k, lo, hi)' <=> Has(u, k, lo, hi))
  BY DEF InService, Has, find_svc_by_uuid, find_by_uuid, OfKind
<1>2. \A u, c : HasDescriptor(u, c)' <=> HasDescriptor(u, c)
  BY DEF HasDescriptor, OfKind, Belongs, EndOf
<1>3. Offered' <=> Offered
  <2>1. HasDescriptor("DSC_READ_WRITE", InService("CHR_READ_WRITE"))' <=>
        HasDescriptor("DSC_READ_WRITE", InService("CHR_READ_WRITE"))
    BY <1>1 DEF HasDescriptor, OfKind, Belongs, EndOf
  <2>2. HasDescriptor("LONG_DSC_READ_WRITE", InService("CHR_READ_WRITE"))' <=>
        HasDescriptor("LONG_DSC_READ_WRITE", InService("CHR_READ_WRITE"))
    BY <1>1 DEF HasDescriptor, OfKind, Belongs, EndOf
  <2>3. HasDescriptor("CCC", find_chr_by_uuid(server, "CHR_NOTIFY"))' <=>
        HasDescriptor("CCC", find_chr_by_uuid(server, "CHR_NOTIFY"))
    BY DEF HasDescriptor, OfKind, Belongs, EndOf, find_chr_by_uuid, find_by_uuid
  <2>4. QED
    BY <1>1, <2>1, <2>2, <2>3 DEF Offered
<1>4. QED
  BY <1>1, <1>3

LEMMA GChosenRight ==
    ASSUME TInv, FInv, PInv, EndFar, ChosenRight, [Next]_vars
    PROVE  ChosenRight'
<1>1. server' = server /\ test' = test /\ cl' = cl /\ att' = att /\ (torn => torn') /\ (air' = "linked" => air = "linked")
  <2>1. RunTest \/ Aside
    BY NextSteps
  <2>2. QED
    BY <2>1, TestStep, AsideKeeps, MainKeeps
<1>2. (Offered' <=> Offered) /\ (\A u : InService(u)' = InService(u)) /\ (\A d : ValueAbove(d)' = ValueAbove(d))
  BY <1>1, OfferedSame, FixedSame
<1>4. ChrUuid(test)' = ChrUuid(test) /\ InService(ChrUuid(test))' = InService(ChrUuid(test))
  BY <1>1, <1>2 DEF ChrUuid, Subscribes, InService, find_svc_by_uuid, find_by_uuid, OfKind
<1>5. (HasChr(phase)' <=> HasChr(phase')) /\ (HasDsc(phase)' <=> HasDsc(phase'))
      /\ ValueAbove(loc.dsc)' = ValueAbove(loc'.dsc)
  BY <1>1 DEF HasChr, HasDsc, ValueAbove, OfKind
<1>6. ChosenRight' <=>
      (Offered /\ ~torn' /\ air' = "linked" =>
          /\ test \in Inside /\ HasChr(phase') => loc'.chr = InService(ChrUuid(test))
          /\ test \in Subscribes /\ HasDsc(phase') => ValueAbove(loc'.dsc) = loc'.value)
  BY <1>1, <1>2, <1>4, <1>5 DEF ChosenRight
<1>7. (HasChr(phase') => HasChr(phase)) /\ (HasDsc(phase') => HasDsc(phase))
      /\ loc'.chr = loc.chr /\ loc'.dsc = loc.dsc /\ loc'.value = loc.value => ChosenRight'
  BY <1>1, <1>6 DEF ChosenRight
<1>8. CASE Aside
  BY <1>7, <1>8, AsideKeeps
<1>9. CASE RunTest
  <2>1. Advances \/ GivesUp
    BY <1>9, TestStep
  <2>2. CASE GivesUp
    BY <1>7, <2>2 DEF GivesUp
  <2>3. CASE Advances /\ step.do \notin {"find", "end"}
    <3>1. (HasChr(phase') => HasChr(phase)) /\ (HasDsc(phase') => HasDsc(phase))
      <4>1. CASE Moves(test, cl, phase, step, phase')
        BY <2>3, <4>1, MovesLocals
      <4>2. CASE ~Moves(test, cl, phase, step, phase')
        BY <2>3, <4>2 DEF Advances, HasChr, HasDsc, Inside, Straight, Deep
      <4>3. QED
        BY <4>1, <4>2
    <3>2. QED
      BY <1>7, <2>3, <3>1 DEF Advances
  <2>4. CASE step.do = "end" /\ Advances
    <3>1. FindCharacteristicEnd
      BY <1>9, <2>4, ActionEnd
    <3>2. phase = "chr" /\ phase' = "end"
      BY <2>4 DEF Advances, Moves
    <3>3. ~HasDsc(phase') /\ (HasChr(phase') => HasChr(phase))
      BY <3>2 DEF HasChr, HasDsc, ChrPhase, SvcPhase
    <3>4. \E e : loc' = loc \/ loc' = [loc EXCEPT !.end = e]
      BY <3>1 DEF FindCharacteristicEnd
    <3>5. loc'.chr = loc.chr
      BY <3>4 DEF TInv, Typed, LocRecord
    <3>6. QED
      BY <1>1, <1>6, <3>3, <3>5 DEF ChosenRight
  <2>5. CASE step.do = "find" /\ Advances /\ ~GivesUp
    <3>1. FindAttribute
      BY <1>9, <2>5, ActionFind
    <3>2. FindMoves(test, step.op, step.arg, phase, phase')
      <4>1. Moves(test, cl, phase, step, phase')
        BY <2>5 DEF Advances
      <4>2. QED
        BY <2>5, <4>1, MovesFind
    <3>3. pc' # pc
      <4>1. phase' # phase
        BY <3>2 DEF FindMoves
      <4>2. QED
        BY <1>1, <4>1, PhaseSame
    <3>4. PICK h : /\ h # None /\ h = find_by_uuid(db, step.op, step.arg) /\ pc' = pc + 1
                   /\ step.op = "chr" => loc'.chr = h
                   /\ step.op = "dsc" => /\ loc'.dsc = h /\ loc'.chr = loc.chr /\ loc'.value = loc.value
      BY <3>1, <3>3, FindLeads
    <3>5. torn' = (torn \/ callback # <<>>) /\ air' = air
      BY <3>1, FindLeads, MainKeeps
    <3>6. CASE step.op \in {"svc", "inc"}
      <4>1. ~HasChr(phase') /\ ~HasDsc(phase')
        BY <3>2, <3>6 DEF FindMoves, HasChr, HasDsc, SvcPhase, Inside, Straight, Deep
      <4>2. QED
        BY <1>6, <4>1
    <3>7. CASE step.op = "chr"
      <4>1. phase = "chr_in" /\ phase' = "chr" /\ step.arg = ChrUuid(test)
        BY <3>2, <3>7 DEF FindMoves
      <4>2. ~HasDsc(phase')
        BY <4>1 DEF HasDsc, ChrPhase
      <4>3. ASSUME ~torn', air' = "linked", test \in Inside
            PROVE  loc'.chr = InService(ChrUuid(test))
        <5>1. callback = <<>> /\ air = "linked"
          BY <3>5, <4>3
        <5>2. QED
          BY <3>4, <3>7, <4>1, <4>3, <5>1, ChosenInService
      <4>4. QED
        BY <1>6, <4>2, <4>3
    <3>8. CASE step.op = "dsc"
      <4>1. phase = "dsc_in" /\ phase' = "dsc" /\ step.arg = DscUuid(test)
        BY <3>2, <3>8 DEF FindMoves
      <4>2. HasChr(phase') => HasChr(phase)
        BY <4>1 DEF HasChr, SvcPhase
      <4>3. ASSUME ~torn', air' = "linked", test \in Subscribes, Offered
            PROVE  ValueAbove(loc'.dsc) = loc'.value
        <5>1. callback = <<>> /\ air = "linked"
          BY <3>5, <4>3
        <5>2. step.arg = "CCC"
          BY <4>1, <4>3 DEF DscUuid, Subscribes
        <5>3. ValueAbove(find_by_uuid(db, "dsc", "CCC")) = loc.value
          BY <3>4, <3>8, <4>1, <4>3, <5>1, <5>2, ChosenDescriptor
        <5>4. QED
          BY <3>4, <3>8, <5>2, <5>3
      <4>4. QED
        BY <1>1, <1>6, <3>4, <3>8, <4>2, <4>3 DEF ChosenRight
    <3>9. QED
      BY <3>2, <3>6, <3>7, <3>8 DEF FindMoves
  <2>6. QED
    BY <2>1, <2>2, <2>3, <2>4, <2>5
<1>10. QED
  BY <1>8, <1>9, NextSteps

\* The phases in which a central with GATT_CL is at a command, and those in
\* which the test has waited for its result.
Awaited == {"read_sent", "read_wait", "write_sent", "write_answered", "write_wait", "cfg_sent", "cfg_wait"}
Waited == {"read_in", "write_in", "cfg_in"}

LEMMA MovesAwaited ==
    ASSUME NEW t, NEW s, NEW from, NEW to, Moves(t, TRUE, from, s, to)
    PROVE  /\ to \in Awaited => s.do = "send" \/ (from \in Awaited /\ s.do \in {"rsp", "listen"})
           /\ to \in Waited => from \in Awaited /\ s.do = "wait"
<1> USE DEF Awaited, Waited
<1>1. CASE s.do = "send"
  BY <1>1 DEF Moves, SendMoves
<1>2. CASE s.do = "rsp"
  BY <1>2 DEF Moves, RspMoves
<1>3. CASE s.do = "wait"
  BY <1>3 DEF Moves, WaitMoves
<1>4. CASE s.do = "find"
  BY <1>4 DEF Moves, FindMoves
<1>5. CASE s.do = "reset"
  BY <1>5 DEF Moves, ResetMoves
<1>6. CASE s.do = "assert"
  BY <1>6 DEF Moves, AssertMoves
<1>7. CASE s.do \notin {"send", "rsp", "wait", "find", "reset", "assert"}
  BY <1>7 DEF Moves, LastPhase
<1>8. QED
  BY <1>1, <1>2, <1>3, <1>4, <1>5, <1>6, <1>7

LEMMA ActionWait == RunTest /\ step.do = "wait" => WaitEnds
BY DEF RunTest, ResetList, SendCommand, ReadResponse, ReadTimeout, ListServices, FindAttribute,
       FindCharacteristicEnd, Listen, WaitFuture, TakeFirst, CheckEqual, Disconnect, At

\* A statement of the callback does not take back what has come.
LEMMA ArrivedStatement ==
    ASSUME TInv, FInv, RxStatement, Arrived, AttStatus = "no_error"
    PROVE  Arrived'
<1>1. PICK s : s = Head(callback)
  OBVIOUS
<1>2. /\ callback # <<>> /\ callback' = Tail(callback)
      /\ values' = CASE s.do = "clear" -> <<>>
                     [] s.do = "value" /\ s.of # "unknown" -> Append(values, s.of)
                     [] OTHER -> values
  BY <1>1 DEF RxStatement
<1>3. callback \in Seq(AnyStatement) /\ values \in Seq(Statuses)
  BY DEF TInv, Typed, Channels
<1>4. /\ s \in Elements(callback) /\ Elements(callback') \subseteq Elements(callback) /\ s = callback[1]
      /\ Len(callback') = Len(callback) - 1 /\ Len(callback) \in Nat \ {0} /\ callback' \in Seq(AnyStatement)
      /\ \A k \in 1 .. Len(callback) - 1 : callback'[k] = callback[k + 1]
  BY <1>1, <1>2, <1>3, ElementsTail, ElementsTyped
<1>5. CASE values # <<>> /\ \A t \in Elements(callback) : t.do # "clear"
  <2>1. s.do # "clear" /\ \A t \in Elements(callback') : t.do # "clear"
    BY <1>4, <1>5
  <2>2. values' # <<>>
    <3>1. CASE s.do = "value" /\ s.of # "unknown"
      <4>1. values' = Append(values, s.of)
        BY <1>2, <2>1, <3>1
      <4>2. s.of \in Statuses
        BY <1>4, <3>1 DEF TInv, Channels, StatementOK
      <4>3. QED
        BY <1>3, <4>1, <4>2, ElementsAppend
    <3>2. CASE ~(s.do = "value" /\ s.of # "unknown")
      <4>1. values' = values
        BY <1>2, <2>1, <3>2
      <4>2. QED
        BY <1>5, <4>1
    <3>3. QED
      BY <3>1, <3>2
  <2>3. QED
    BY <2>1, <2>2 DEF Arrived
<1>6. CASE callback[Len(callback)].do = "value"
  <2>1. CASE Len(callback) = 1
    <3>1. s.do = "value"
      BY <1>4, <1>6, <2>1
    <3>2. s.of = "no_error"
      BY <1>4, <3>1 DEF FInv, Taken
    <3>3. values' = Append(values, s.of)
      BY <1>2, <3>1, <3>2
    <3>4. values' # <<>>
      BY <1>3, <3>2, <3>3, ElementsAppend DEF Statuses
    <3>5. Len(callback') = 0
      BY <1>4, <2>1
    <3>6. Elements(callback') = {}
      BY <1>4, <3>5, ElementsTyped
    <3>7. QED
      BY <3>4, <3>6 DEF Arrived
  <2>2. CASE Len(callback) # 1
    <3>1. Len(callback') \in 1 .. Len(callback) - 1 /\ Len(callback') + 1 = Len(callback)
      BY <1>4, <2>2
    <3>2. callback'[Len(callback')] = callback[Len(callback)]
      BY <1>4, <3>1
    <3>3. callback' # <<>>
      BY <1>4, <3>1, ElementsTyped
    <3>4. QED
      BY <1>6, <3>2, <3>3 DEF Arrived
  <2>3. QED
    BY <2>1, <2>2
<1>7. QED
  BY <1>5, <1>6 DEF Arrived

\* A frame brings the value that is waited for, or it does not touch it.
LEMMA ArrivedFrame ==
    ASSUME TInv, FInv, RxFrame, cl, Mild
    PROVE  /\ phase \in Awaited /\ (Owed \/ Arrived) => Owed' \/ Arrived'
           /\ phase \in Waited /\ Arrived => Arrived'
<1>1. PICK f : f = Head(stream)
  OBVIOUS
<1>2. /\ callback = <<>> /\ stream # <<>> /\ stream' = Tail(stream) /\ UNCHANGED rxKeeps /\ values' = values
      /\ \/ f.type = "rsp" /\ callback' = callback
         \/ f.type = "ev" /\ callback' = Callback(f)
  BY <1>1 DEF RxFrame, clVars
<1>3. /\ f \in Elements(stream) /\ f \in Frame /\ FrameOK(f)
      /\ \A X : Under(X) <=> (Under(X)' \/ f \in X)
  BY <1>1, <1>2, FrameTaken DEF TInv
<1>4. request' = request /\ busy' = busy /\ phase' = phase /\ phase \in PhasesOf(test, cl)
  BY <1>2, RxKeeps, PhaseIs
<1>5. Reports' = Reports
  BY DEF Reports
<1>6. CASE f \notin Reports
  <2>1. Owed => Owed'
    BY <1>3, <1>4, <1>5, <1>6 DEF Owed
  <2>2. f.type = "rsp" \/ f.op = "notification"
    BY <1>3, <1>6 DEF Reports, Frame
  <2>3. \A s \in Elements(callback') : s.do # "clear"
    <3>1. CASE f.type = "rsp"
      BY <1>2, <3>1, ElementsEmpty
    <3>2. CASE f.type = "ev" /\ f.op = "notification"
      BY <1>2, <1>3, <3>2, CallbackNotification
    <3>3. QED
      BY <1>2, <2>2, <3>1, <3>2
  <2>4. Arrived => Arrived'
    BY <1>2, <2>3 DEF Arrived
  <2>5. QED
    BY <2>1, <2>4
<1>7. CASE f \in Reports
  <2>1. phase \in InFlight /\ f = Outcome("ev", wanted)
    BY <1>3, <1>7 DEF FInv, OneReport, Under
  <2>2. callback' = Callback(f) /\ f.op = wanted.op
    BY <1>2, <1>7, <2>1 DEF Reports, Outcome
  <2>3. phase \notin Waited
    BY <2>1 DEF Waited, InFlight, Sent
  <2>4. ASSUME phase \in Awaited
        PROVE  Arrived'
    <3>1. phase \notin SvcPhase \cup IncPhase \cup ChrPhase \cup DscPhase /\ phase \in Accessing
      BY <2>4 DEF Awaited, SvcPhase, IncPhase, ChrPhase, DscPhase, Accessing, ReadPhase, WritePhase, CfgPhase
    <3>2. wanted.op = AccessOp(test)
      BY <3>1 DEF wanted, CommandOf
    <3>3. wanted.op \in Access
      BY <1>4, <2>1, <3>1, FlightCommand DEF Discovery
    <3>4. f.op # "read" \/ f.found # <<>>
      <4>1. ASSUME wanted.op = "read"
            PROVE  f.found # <<>>
        <5>1. test \in Reads
          BY <3>2, <4>1 DEF AccessOp, Reads
        <5>2. att = "ok"
          BY <5>1 DEF Mild
        <5>3. KindOf(wanted.op) = "none"
          BY <4>1 DEF KindOf
        <5>4. f.found = <<wanted.lo>>
          BY <2>1, <4>1, <5>2, <5>3 DEF Outcome
        <5>5. QED
          BY <5>4
      <4>2. QED
        BY <2>2, <4>1
    <3>5. callback' # <<>> /\ callback'[Len(callback')] = add_to_verify_values(f.status)
      BY <1>3, <2>2, <3>3, <3>4, CallbackAccess
    <3>6. add_to_verify_values(f.status).do = "value"
      BY DEF add_to_verify_values, Statement
    <3>7. QED
      BY <3>5, <3>6 DEF Arrived
  <2>5. QED
    BY <2>3, <2>4
<1>8. QED
  BY <1>6, <1>7

LEMMA GValuesCome ==
    ASSUME TInv, FInv, ValuesCome, [Next]_vars
    PROVE  ValuesCome'
<1>1. Awaited' = Awaited /\ Waited' = Waited /\ Reports' = Reports
  BY DEF Awaited, Waited, Reports
<1>2. ValuesCome <=> /\ air = "linked" /\ Mild /\ cl =>
                           /\ phase \in Awaited => Owed \/ Arrived
                           /\ phase \in Waited => Arrived
                     /\ dead => att = "unknown"
  BY DEF ValuesCome, Awaited, Waited
<1>3. ValuesCome' <=> /\ air' = "linked" /\ Mild' /\ cl' =>
                            /\ phase' \in Awaited => Owed' \/ Arrived'
                            /\ phase' \in Waited => Arrived'
                      /\ dead' => att' = "unknown"
  BY <1>1 DEF ValuesCome, Awaited, Waited
<1>4. CASE RunTest
  <2>1. UNCHANGED mainKeeps /\ (Advances \/ GivesUp) /\ values' = values
    BY <1>4, TestStep
  <2>2. /\ test' = test /\ cl' = cl /\ att' = att /\ air' = air /\ busy' = busy /\ callback' = callback
        /\ dead' = dead /\ (Under(Reports)' <=> Under(Reports))
    BY <1>1, <2>1, MainKeeps
  <2>3. (Mild' <=> Mild) /\ (Arrived' <=> Arrived)
    BY <2>1, <2>2 DEF Mild, Arrived
  <2>4. request' = request => (Owed' <=> Owed)
    BY <2>2 DEF Owed
  <2>5. CASE GivesUp
    BY <1>2, <1>3, <2>2, <2>3, <2>4, <2>5 DEF GivesUp
  <2>6. CASE Advances /\ ~cl
    BY <1>2, <1>3, <2>2, <2>6
  <2>7. CASE Advances /\ cl
    <3>1. Moves(test, TRUE, phase, step, phase')
      BY <2>7 DEF Advances, TInv, Typed
    <3>2. CASE step.do = "send"
      <4>1. Owed'
        BY <2>7, <3>2 DEF Advances, Owed
      <4>2. phase' \notin Waited
        BY <3>1, <3>2, MovesAwaited
      <4>3. QED
        BY <1>2, <1>3, <2>2, <4>1, <4>2
    <3>3. CASE step.do = "wait"
      <4>1. WaitEnds
        BY <1>4, <3>3, ActionWait
      <4>2. ~Owed
        BY <4>1, WaitOver
      <4>3. phase' \notin Awaited /\ (phase' \in Waited => phase \in Awaited)
        BY <3>1, <3>3, MovesAwaited
      <4>4. QED
        BY <1>2, <1>3, <2>2, <2>3, <4>2, <4>3
    <3>4. CASE step.do \notin {"send", "wait"}
      <4>1. phase' \notin Waited /\ (phase' \in Awaited => phase \in Awaited)
        BY <3>1, <3>4, MovesAwaited
      <4>2. request' = request
        BY <2>7, <3>4 DEF Advances
      <4>3. QED
        BY <1>2, <1>3, <2>2, <2>3, <2>4, <4>1, <4>2
    <3>5. QED
      BY <3>2, <3>3, <3>4
  <2>8. QED
    BY <2>1, <2>5, <2>6, <2>7
<1>5. ASSUME Aside
      PROVE  /\ phase' = phase /\ cl' = cl /\ att' = att /\ (air' = "linked" => air = "linked")
             /\ AttStatus' = AttStatus /\ (Mild' <=> Mild)
  <2>1. test' = test /\ cl' = cl /\ server' = server /\ att' = att /\ phase' = phase /\ (air' = "linked" => air = "linked")
    BY <1>5, AsideKeeps
  <2>2. QED
    BY <2>1, FixedSame DEF Mild
<1>6. CASE Answer \/ Report \/ Notify
  <2>1. values' = values /\ callback' = callback /\ dead' = dead
    BY <1>6, IutsKeep DEF Answer, Report, Notify
  <2>2. Arrived' <=> Arrived
    BY <2>1 DEF Arrived
  <2>3. QED
    BY <1>2, <1>3, <1>5, <1>6, <2>1, <2>2, OwedStays DEF Aside
<1>7. CASE LoseLink("lost") \/ LoseLink("crashed") \/ PeripheralRx \/ UNCHANGED vars
  <2>1. /\ values' = values /\ callback' = callback /\ dead' = dead /\ stream' = stream /\ request' = request
        /\ busy' = busy \/ air' # "linked"
    BY <1>7 DEF LoseLink, PeripheralRx, vars, iutsKeep, airVars, clVars, rxVars
  <2>2. (Arrived' <=> Arrived) /\ (busy' = busy => (Owed' <=> Owed))
    BY <1>1, <2>1 DEF Arrived, Owed, Under
  <2>3. QED
    BY <1>2, <1>3, <1>5, <1>7, <2>1, <2>2 DEF Aside
<1>8. CASE RxFrame
  <2>1. dead' = dead
    BY <1>8 DEF RxFrame
  <2>2. QED
    BY <1>2, <1>3, <1>5, <1>8, <2>1, ArrivedFrame DEF Aside
<1>9. CASE RxStatement
  <2>1. stream' = stream /\ request' = request /\ busy' = busy
    BY <1>9, RxKeeps DEF RxStatement
  <2>2. Owed' <=> Owed
    BY <1>1, <2>1 DEF Owed, Under
  <2>3. Mild => AttStatus = "no_error"
    BY DEF Mild, AttStatus
  <2>4. Mild /\ Arrived => Arrived'
    BY <1>9, <2>3, ArrivedStatement
  <2>5. dead' => att = "unknown"
    <3>1. PICK s : s = Head(callback)
      OBVIOUS
    <3>2. callback # <<>> /\ dead' = (s.do = "value" /\ s.of = "unknown")
      BY <1>9, <3>1 DEF RxStatement
    <3>3. s \in Elements(callback)
      BY <3>1, <3>2, ElementsTail DEF TInv, Channels
    <3>4. dead' => AttStatus = "unknown"
      BY <3>2, <3>3 DEF FInv, Taken
    <3>5. QED
      BY <3>4 DEF AttStatus
  <2>6. QED
    BY <1>2, <1>3, <1>5, <1>9, <2>2, <2>4, <2>5 DEF Aside
<1>10. QED
  BY <1>4, <1>6, <1>7, <1>8, <1>9 DEF Next

LEMMA MovesCfg ==
    ASSUME NEW t, NEW s, NEW from, NEW to, Moves(t, TRUE, from, s, to)
    PROVE  /\ to \in CfgPhase => s.do = "send" \/ from \in CfgPhase
           /\ to = "cfg_noted" => s.do = "wait" /\ s.op = "notifications" /\ from = "cfg_note"
<1> USE DEF CfgPhase
<1>1. CASE s.do = "send"
  BY <1>1 DEF Moves, SendMoves
<1>2. CASE s.do = "rsp"
  BY <1>2 DEF Moves, RspMoves
<1>3. CASE s.do = "wait"
  BY <1>3 DEF Moves, WaitMoves
<1>4. CASE s.do = "find"
  BY <1>4 DEF Moves, FindMoves
<1>5. CASE s.do = "reset"
  BY <1>5 DEF Moves, ResetMoves
<1>6. CASE s.do = "assert"
  BY <1>6 DEF Moves, AssertMoves
<1>7. CASE s.do \notin {"send", "rsp", "wait", "find", "reset", "assert"}
  BY <1>7 DEF Moves, LastPhase
<1>8. QED
  BY <1>1, <1>2, <1>3, <1>4, <1>5, <1>6, <1>7

\* The descriptor a test writes is that of some characteristic.
LEMMA DescriptorOfSome ==
    ASSUME TInv, HasDsc(phase)
    PROVE  ValueAbove(loc.dsc) # None
<1>1. server \in Server /\ loc.dsc \in OfKind(server, "dsc")
  BY DEF TInv, Typed, Locals
<1>2. PICK c \in OfKind(server, "chr") : server[c].last < loc.dsc
  BY <1>1, ServerIs DEF Ordered
<1>3. c \in Nat /\ server[c].last \in Nat /\ loc.dsc \in Nat /\ c < server[c].last
  BY <1>1, <1>2, ValueHandle, HandleIs
<1>4. c < loc.dsc
  BY <1>2, <1>3
<1>5. QED
  BY <1>1, <1>2, <1>4, ValueAboveIs

\* The report of a subscription leaves the central subscribed.
LEMMA SubscribedNow ==
    ASSUME TInv, FInv, Report, Mild, phase \in CfgPhase
    PROVE  subscribed' # None
<1>1. busy # NoRequest /\ Effect(busy)
  BY DEF Report
<1>2. busy = wanted /\ phase \in InFlight
  BY <1>1 DEF FInv, OneReport
<1>3. wanted.op \in {"cfg_notify", "cfg_indicate"} /\ wanted.lo = loc.dsc /\ test \in Subscribes
  BY <1>2, PhaseIs, FlightCommand
<1>4. AttStatus = "no_error"
  BY DEF Mild, AttStatus
<1>5. subscribed' = ValueAbove(loc.dsc)
  BY <1>1, <1>2, <1>3, <1>4 DEF Effect
<1>6. HasDsc(phase)
  BY <1>3 DEF HasDsc, Subscribes, Deep, CfgPhase, SvcPhase, ChrPhase
<1>7. QED
  BY <1>5, <1>6, DescriptorOfSome

NotingIn(statements) == \E s \in Elements(statements) : s.do = "notification"

\* A notification that was sent is on its way until the test can read it.
LEMMA NotedKept ==
    ASSUME TInv, FInv, Aside, cl, att # "empty", notified' > 0,
           notified > 0 => notes # <<>> \/ NotingIn(callback) \/ Under(Notifications)
    PROVE  notes' # <<>> \/ NotingIn(callback') \/ Under(Notifications)'
<1>1. Notifications' = Notifications
  BY DEF Notifications
<1>2. /\ callback \in Seq(AnyStatement) /\ notes \in Seq(Handle) /\ subscribed \in 0 .. MaxHandle
      /\ server \in Server
  BY DEF TInv, Typed, Channels
<1>3. CASE Answer \/ Report
  <2>1. notes' = notes /\ callback' = callback /\ notified' = notified
    BY <1>3, IutsKeep DEF Answer, Report
  <2>2. PICK f : stream' = Append(stream, f) /\ f \in Frame
    <3>1. CASE Report
      <4>1. busy \in Requests /\ stream' = Append(stream, Outcome("ev", busy))
        BY <3>1 DEF Report, TInv, Typed
      <4>2. QED
        BY <1>2, <4>1, OutcomeIs
    <3>2. CASE Answer
      <4>1. /\ request \in Requests
            /\ \/ stream' = Append(stream, Status("error"))
               \/ stream' = Append(stream, Status("success"))
               \/ stream' = Append(stream, Outcome("rsp", request))
        BY <3>2 DEF Answer, TInv, Typed
      <4>2. Status("error") \in Frame /\ Status("success") \in Frame
        BY <4>1, StatusIs DEF Statuses
      <4>3. Outcome("rsp", request) \in Frame
        BY <1>2, <4>1, OutcomeIs
      <4>4. QED
        BY <4>1, <4>2, <4>3
    <3>3. QED
      BY <1>3, <3>1, <3>2
  <2>3. Under(Notifications) => Under(Notifications)'
    BY <1>1, <2>2, FrameSent DEF TInv
  <2>4. QED
    BY <2>1, <2>3
<1>4. CASE Notify
  <2>1. PICK f : NotificationIs(f)
    BY <1>4, NotifyIs
  <2>2. f \in Notifications /\ f \in Frame /\ stream' = Append(stream, f)
    BY <2>1 DEF Notifications, NotificationIs
  <2>3. QED
    BY <1>1, <2>2, FrameSent DEF TInv
<1>5. CASE LoseLink("lost") \/ LoseLink("crashed") \/ PeripheralRx \/ UNCHANGED vars
  <2>1. notes' = notes /\ callback' = callback /\ notified' = notified /\ stream' = stream
    BY <1>5 DEF LoseLink, PeripheralRx, vars, iutsKeep, airVars, clVars, rxVars
  <2>2. Under(Notifications)' <=> Under(Notifications)
    BY <1>1, <2>1 DEF Under
  <2>3. QED
    BY <2>1, <2>2
<1>6. CASE RxFrame
  <2>1. PICK f : f = Head(stream)
    OBVIOUS
  <2>2. /\ callback = <<>> /\ stream # <<>> /\ stream' = Tail(stream) /\ notes' = notes /\ notified' = notified
        /\ \/ f.type = "rsp"
           \/ f.type = "ev" /\ callback' = Callback(f)
    BY <1>6, <2>1, RxKeeps DEF RxFrame, clVars
  <2>3. /\ f \in Frame /\ FrameOK(f) /\ \A X : Under(X) <=> (Under(X)' \/ f \in X)
    BY <2>1, <2>2, FrameTaken DEF TInv
  <2>4. ~NotingIn(callback)
    BY <2>2, ElementsEmpty DEF NotingIn
  <2>5. ASSUME f \in Notifications
        PROVE  NotingIn(callback')
    <3>1. f.op = "notification" /\ f.type = "ev" /\ f.found # <<>>
      <4>1. f \in Elements(stream)
        BY <2>1, <2>2, FrameTaken DEF TInv
      <4>2. QED
        BY <2>3, <2>5, <4>1 DEF Notifications, FrameOK, FInv, Subscribed
    <3>2. Statement("notification", "", f.found[1]) \in Elements(callback')
      <4>1. PICK e : e = Statement("notification", "", f.found[1])
        OBVIOUS
      <4>2. callback' = <<e>>
        BY <2>2, <2>3, <3>1, <4>1, CallbackNotification
      <4>3. QED
        BY <4>1, <4>2, ElementsOne
    <3>3. Statement("notification", "", f.found[1]).do = "notification"
      BY DEF Statement
    <3>4. QED
      BY <3>2, <3>3 DEF NotingIn
  <2>6. QED
    BY <1>1, <2>2, <2>3, <2>4, <2>5
<1>7. CASE RxStatement
  <2>1. PICK s : s = Head(callback)
    OBVIOUS
  <2>2. /\ callback # <<>> /\ notified' = notified /\ stream' = stream
        /\ notes' = IF s.do = "notification" THEN Append(notes, s.n) ELSE notes
    BY <1>7, <2>1, RxKeeps DEF RxStatement
  <2>3. s \in Elements(callback) /\ s = callback[1]
    BY <1>2, <2>1, <2>2, ElementsTail
  <2>4. Under(Notifications)' <=> Under(Notifications)
    BY <1>1, <2>2 DEF Under
  <2>5. NotingIn(callback) => s.do = "notification"
    <3>1. ASSUME NEW u \in Elements(callback), u.do = "notification"
          PROVE  u = s
      <4>1. Len(callback) = 1
        BY <3>1 DEF TInv, Channels
      <4>2. PICK k \in 1 .. Len(callback) : callback[k] = u
        BY <1>2, ElementsTyped
      <4>3. k = 1
        BY <4>1, <4>2
      <4>4. QED
        BY <2>3, <4>2, <4>3
    <3>2. QED
      BY <3>1 DEF NotingIn
  <2>6. s.do = "notification" \/ notes # <<>> => notes' # <<>>
    <3>1. CASE s.do = "notification"
      <4>1. s.n \in Handle /\ notes' = Append(notes, s.n)
        BY <2>2, <2>3, <3>1 DEF TInv, Channels, StatementOK
      <4>2. QED
        BY <1>2, <4>1, ElementsAppend
    <3>2. QED
      BY <2>2, <3>1
  <2>7. QED
    BY <2>2, <2>4, <2>5, <2>6
<1>8. QED
  BY <1>3, <1>4, <1>5, <1>6, <1>7 DEF Aside

LEMMA NotesStay ==
    ASSUME TInv, Aside, notes # <<>>
    PROVE  notes' # <<>>
<1>1. CASE RxStatement
  <2>1. PICK s : s = Head(callback)
    OBVIOUS
  <2>2. callback # <<>> /\ notes' = IF s.do = "notification" THEN Append(notes, s.n) ELSE notes
    BY <1>1, <2>1 DEF RxStatement
  <2>3. s \in Elements(callback) /\ StatementOK(s)
    BY <2>1, <2>2, ElementsTail DEF TInv, Channels
  <2>4. ASSUME s.do = "notification"
        PROVE  notes' # <<>>
    <3>1. s.n \in Handle /\ notes \in Seq(Handle) /\ notes' = Append(notes, s.n)
      BY <2>2, <2>3, <2>4 DEF TInv, Typed, StatementOK
    <3>2. QED
      BY <3>1, ElementsAppend
  <2>5. QED
    BY <2>2, <2>4
<1>2. CASE ~RxStatement
  BY <1>2 DEF Aside, Answer, Report, Notify, LoseLink, PeripheralRx, RxFrame, vars, iutsKeep, clVars
<1>3. QED
  BY <1>1, <1>2

\* When the test has waited for a notification, it has one.
LEMMA NotesWaited ==
    ASSUME TInv, FInv, ValuesCome, NotesCome, WaitEnds, step.op = "notifications", phase = "cfg_note",
           air = "linked", Mild, cl, att # "empty"
    PROVE  notes # <<>>
<1>1. CASE Complete("notifications")
  <2>1. Len(notes) = 1
    BY <1>1 DEF Complete, Lists
  <2>2. QED
    BY <2>1
<1>2. CASE Quiet
  <2>1. ~dead
    BY DEF ValuesCome, Mild
  <2>2. stream = <<>> /\ callback = <<>> /\ request = NoRequest /\ busy = NoRequest /\ ~CanNotify
    BY <1>2, <2>1 DEF Quiet
  <2>3. subscribed # None
    BY <2>2 DEF NotesCome, CfgPhase
  <2>4. notified > 0
    <3>1. ~(notified < MaxNotes)
      BY <2>2, <2>3 DEF CanNotify
    <3>2. notified \in 0 .. MaxNotes /\ MaxNotes \in Nat \ {0}
      BY MaxNotesAssumption DEF TInv, Typed
    <3>3. QED
      BY <3>1, <3>2
  <2>5. ~Under(Notifications) /\ ~(\E s \in Elements(callback) : s.do = "notification")
    BY <2>2, ElementsEmpty DEF Under
  <2>6. QED
    BY <2>4, <2>5 DEF NotesCome
<1>3. QED
  BY <1>1, <1>2 DEF WaitEnds

LEMMA GNotesCome ==
    ASSUME TInv, FInv, ValuesCome, NotesCome, [Next]_vars
    PROVE  NotesCome'
<1>1. CfgPhase' = CfgPhase /\ Notifications' = Notifications
  BY DEF CfgPhase, Notifications
<1>2. NotesCome <=>
      /\ air = "linked" /\ Mild /\ cl /\ phase \in CfgPhase =>
            request # NoRequest \/ busy # NoRequest \/ subscribed # None
      /\ cl /\ att # "empty" /\ notified > 0 => notes # <<>> \/ NotingIn(callback) \/ Under(Notifications)
      /\ air = "linked" /\ Mild /\ cl /\ att # "empty" /\ phase = "cfg_noted" => notes # <<>>
  BY DEF NotesCome, NotingIn
<1>3. NotesCome' <=>
      /\ air' = "linked" /\ Mild' /\ cl' /\ phase' \in CfgPhase =>
            request' # NoRequest \/ busy' # NoRequest \/ subscribed' # None
      /\ cl' /\ att' # "empty" /\ notified' > 0 => notes' # <<>> \/ NotingIn(callback') \/ Under(Notifications)'
      /\ air' = "linked" /\ Mild' /\ cl' /\ att' # "empty" /\ phase' = "cfg_noted" => notes' # <<>>
  BY <1>1 DEF NotesCome, NotingIn, Elements
<1>4. CASE RunTest
  <2>1. UNCHANGED mainKeeps /\ (Advances \/ GivesUp) /\ notes' = notes
    BY <1>4, TestStep
  <2>2. /\ test' = test /\ cl' = cl /\ att' = att /\ air' = air /\ busy' = busy /\ callback' = callback
        /\ subscribed' = subscribed /\ notified' = notified /\ (Under(Notifications)' <=> Under(Notifications))
    BY <1>1, <2>1, MainKeeps
  <2>3. Mild' <=> Mild
    BY <2>2 DEF Mild
  <2>4. CASE GivesUp
    BY <1>2, <1>3, <2>1, <2>2, <2>3, <2>4 DEF GivesUp
  <2>5. CASE Advances /\ ~cl
    BY <1>3, <2>2, <2>5
  <2>6. CASE Advances /\ cl
    <3>1. Moves(test, TRUE, phase, step, phase')
      BY <2>6 DEF Advances, TInv, Typed
    <3>2. phase' \in CfgPhase => request' # NoRequest \/ (phase \in CfgPhase /\ request' = request)
      BY <2>6, <3>1, MovesCfg DEF Advances
    <3>3. ASSUME phase' = "cfg_noted", air = "linked", Mild, att # "empty"
          PROVE  notes # <<>>
      <4>1. step.do = "wait" /\ step.op = "notifications" /\ phase = "cfg_note"
        BY <3>1, <3>3, MovesCfg
      <4>2. QED
        BY <1>4, <2>6, <3>3, <4>1, ActionWait, NotesWaited
    <3>4. QED
      BY <1>2, <1>3, <2>1, <2>2, <2>3, <3>2, <3>3
  <2>7. QED
    BY <2>1, <2>4, <2>5, <2>6
<1>5. CASE Aside
  <2>1. /\ phase' = phase /\ cl' = cl /\ att' = att /\ test' = test /\ (air' = "linked" => air = "linked")
    BY <1>5, AsideKeeps
  <2>2. Mild' <=> Mild
    BY <2>1 DEF Mild
  <2>3. cl' /\ att' # "empty" /\ notified' > 0 => notes' # <<>> \/ NotingIn(callback') \/ Under(Notifications)'
    BY <1>2, <1>5, <2>1, NotedKept
  <2>4. phase' = "cfg_noted" /\ air' = "linked" /\ Mild' /\ cl' /\ att' # "empty" => notes' # <<>>
    BY <1>2, <1>5, <2>1, <2>2, NotesStay
  <2>5. ASSUME air' = "linked", air = "linked", Mild, cl, phase \in CfgPhase
        PROVE  request' # NoRequest \/ busy' # NoRequest \/ subscribed' # None
    <3>1. CASE Answer
      BY <2>5, <3>1 DEF Answer
    <3>2. CASE Report
      BY <2>5, <3>2, SubscribedNow
    <3>3. CASE ~Answer /\ ~Report
      <4>1. request' = request /\ subscribed' = subscribed /\ (busy' = busy \/ air' # "linked")
        BY <1>5, <3>3 DEF Aside, Notify, LoseLink, PeripheralRx, RxFrame, RxStatement, vars, rxKeeps, airVars
      <4>2. QED
        BY <1>2, <2>5, <4>1
    <3>4. QED
      BY <3>1, <3>2, <3>3
  <2>6. QED
    BY <1>3, <2>1, <2>2, <2>3, <2>4, <2>5
<1>6. QED
  BY <1>4, <1>5, NextSteps

LEMMA GInvInit == Init => GInv
<1> SUFFICES ASSUME Init
             PROVE  GInv
  OBVIOUS
<1>1. /\ pc = 1 /\ future = "none" /\ ~dead /\ notified = 0
  BY DEF Init
<1>2. phase = "start"
  <2>1. test \in Tests /\ cl \in BOOLEAN /\ pc \in 1 .. Len(Program(test)) + 1
    BY TInvInit, TestAssumption DEF TInv, Typed
  <2>2. QED
    BY <1>1, <2>1, PhaseMoves
<1>3. ResponseOwed /\ IncludedSought /\ Heard
  BY <1>1, <1>2 DEF ResponseOwed, IncludedSought, Heard, Sent, WritePhase
<1>4. ~HasChr(phase) /\ ~HasDsc(phase) /\ ~Ended(phase)
  BY <1>2 DEF HasChr, HasDsc, Ended
<1>5. EndFar /\ ChosenRight
  BY <1>4 DEF EndFar, ChosenRight
<1>6. ValuesCome /\ NotesCome
  BY <1>1, <1>2 DEF ValuesCome, NotesCome, CfgPhase
<1>7. QED
  BY <1>3, <1>5, <1>6 DEF GInv

LEMMA GInvNext == TInv /\ FInv /\ PInv /\ GInv /\ [Next]_vars => GInv'
BY GResponseOwed, GIncludedSought, GEndFar, GChosenRight, GHeard, GValuesCome, GNotesCome DEF GInv

LEMMA GInvCorrect == Spec => [](TInv /\ FInv /\ PInv /\ GInv)
<1>1. Init => TInv /\ FInv /\ PInv /\ GInv
  BY TInvInit, FInvInit, PInvInit, GInvInit
<1>2. TInv /\ FInv /\ PInv /\ GInv /\ [Next]_vars => (TInv /\ FInv /\ PInv /\ GInv)'
  BY TInvNext, FInvNext, PInvNext, GInvNext
<1>3. QED
  BY <1>1, <1>2, PTL DEF Spec

-----------------------------------------------------------------------------
\* Nothing stands against the test but what its next step may come upon.
Clear ==
    /\ air = "linked" /\ Offered /\ att \in {"ok", "empty"} /\ ~missed
    /\ ~(cl /\ att = "empty" /\ test \in Reads)
    /\ ~(~cl /\ test \in Subscribes)

LEMMA ReadsResponse ==
    ASSUME TInv, FInv, GInv, Clear, ReadResponse
    PROVE  outcome' = "running"
<1>1. SUFFICES ASSUME outcome' # outcome
               PROVE  FALSE
  BY ResponseRead
<1>2. PICK f : f = Head(rspq)
  OBVIOUS
<1>3. rspq # <<>> /\ (f.status = "error" \/ (step.op = "value" /\ f.status = "unknown"))
  BY <1>1, <1>2, ResponseRead
<1>4. RspIs(f)
  BY <1>2, <1>3 DEF FInv, Results
<1>5. f.status = "success" \/ f = Outcome("rsp", wanted)
  BY <1>3, <1>4 DEF RspIs, Clear
<1>6. f = Outcome("rsp", wanted)
  BY <1>3, <1>5
<1>7. f.status \in {"no_error", AttStatus} /\ AttStatus = "no_error"
  BY <1>6 DEF Outcome, AttStatus, Clear
<1>8. QED
  BY <1>3, <1>7

LEMMA NoTimeout ==
    ASSUME TInv, FInv, GInv, Clear, ReadTimeout
    PROVE  FALSE
<1>1. outcome = "running" /\ step.do = "rsp" /\ rspq = <<>> /\ Quiet
  BY DEF ReadTimeout, At
<1>2. PICK next : RspMoves(test, cl, step.op, phase, next)
  BY <1>1, StepTakes, MovesRsp
<1>3. CASE phase = "cfg_late"
  <2>1. ~cl
    BY <1>2, <1>3 DEF RspMoves
  <2>2. test \in Subscribes
    BY <1>3, PhaseIs DEF PhasesOf
  <2>3. QED
    BY <2>1, <2>2 DEF Clear
<1>4. CASE phase # "cfg_late"
  <2>1. phase \in Sent
    BY <1>2, <1>4 DEF RspMoves, Sent
  <2>2. request # NoRequest \/ Under(Responses)
    BY <1>1, <2>1 DEF GInv, ResponseOwed, Clear
  <2>3. ~dead
    BY DEF GInv, ValuesCome, Clear
  <2>4. request = NoRequest /\ stream = <<>>
    BY <1>1, <2>3 DEF Quiet, Clear
  <2>5. QED
    BY <2>2, <2>4, ElementsEmpty DEF Under
<1>5. QED
  BY <1>3, <1>4

LEMMA HeardInTime ==
    ASSUME TInv, FInv, GInv, Clear, WaitFuture
    PROVE  outcome' = "running"
<1>1. SUFFICES ASSUME outcome' # "running"
               PROVE  FALSE
  OBVIOUS
<1>2. outcome = "running" /\ step.do = "future" /\ future # "done" /\ Quiet
  BY <1>1 DEF WaitFuture, At, GoOn
<1>3. \/ phase \in {"write_sure", "write_got"}
      \/ ~cl /\ phase = "cfg_future"
  BY <1>2, StepTakes DEF Moves
<1>4. CASE phase \in {"write_sure", "write_got"}
  <2>1. AttStatus = "no_error"
    BY DEF AttStatus, Clear
  <2>2. request # NoRequest \/ busy # NoRequest \/ changed
    BY <1>2, <1>4, <2>1 DEF GInv, Heard, WritePhase, Clear
  <2>3. QED
    BY <1>2, <2>2 DEF Quiet, Clear
<1>5. CASE ~cl /\ phase = "cfg_future"
  <2>1. test \in Subscribes
    BY <1>5, PhaseIs DEF PhasesOf
  <2>2. QED
    BY <1>5, <2>1 DEF Clear
<1>6. QED
  BY <1>3, <1>4, <1>5

\* Of the notifications, all without data, none was recorded.
Unrecorded == cl /\ att = "empty" /\ test \in Subscribes /\ notes = <<>>

LEMMA TakesFirst ==
    ASSUME TInv, FInv, GInv, Clear, TakeFirst, ~torn', ~Unrecorded
    PROVE  outcome' = "running"
<1>1. SUFFICES ASSUME outcome' # "running"
               PROVE  FALSE
  OBVIOUS
<1>2. /\ outcome = "running" /\ callback = <<>>
      /\ \/ step.do = "value" /\ values = <<>>
         \/ step.do = "notification" /\ notes = <<>>
  BY <1>1 DEF TakeFirst, At, GoOn, Look
<1>3. Mild /\ air = "linked"
  BY DEF Mild, Clear
<1>4. CASE step.do = "value" /\ values = <<>>
  <2>1. cl /\ phase \in {"read_in", "write_in", "cfg_in"}
    BY <1>2, <1>4, StepTakes DEF Moves
  <2>2. Arrived
    BY <1>3, <2>1 DEF GInv, ValuesCome
  <2>3. QED
    BY <1>2, <1>4, <2>2 DEF Arrived
<1>5. CASE step.do = "notification" /\ notes = <<>>
  <2>1. cl /\ phase = "cfg_noted"
    BY <1>2, <1>5, StepTakes DEF Moves
  <2>2. test \in Subscribes
    BY <2>1, PhaseIs DEF PhasesOf
  <2>3. QED
    BY <1>3, <1>5, <2>1, <2>2 DEF GInv, NotesCome, Unrecorded
<1>6. QED
  BY <1>2, <1>4, <1>5

LEMMA ChecksEqual ==
    ASSUME TInv, FInv, GInv, Clear, CheckEqual, ~torn
    PROVE  outcome' = "running"
<1>1. SUFFICES ASSUME outcome' # "running"
               PROVE  FALSE
  OBVIOUS
<1>2. /\ outcome = "running" /\ step.do = "assert"
      /\ IF step.op = "rsp" THEN loc.rsp # "no_error" ELSE loc.handle # loc.value
  BY <1>1 DEF CheckEqual, At, GoOn
<1>3. PICK next : AssertMoves(test, cl, step.op, phase, next)
  BY <1>2, StepTakes DEF Moves
<1>4. CASE step.op = "rsp"
  <2>1. phase \in {"read_got", "write_got", "cfg_got"}
    BY <1>3, <1>4 DEF AssertMoves
  <2>2. loc.rsp = AttStatus /\ AttStatus = "no_error"
    BY <2>1 DEF FInv, Taken, AttStatus, Clear
  <2>3. QED
    BY <1>2, <1>4, <2>2
<1>5. CASE step.op # "rsp"
  <2>1. phase = "cfg_verify"
    BY <1>3, <1>5 DEF AssertMoves
  <2>2. test \in Subscribes
    BY <2>1, PhaseIs DEF PhasesOf
  <2>3. HasDsc(phase)
    BY <2>1, <2>2 DEF HasDsc, Subscribes, Deep, SvcPhase, ChrPhase
  <2>4. loc.handle = ValueAbove(loc.dsc)
    BY <2>1, <2>2 DEF FInv, Taken
  <2>5. ValueAbove(loc.dsc) = loc.value
    BY <2>2, <2>3 DEF GInv, ChosenRight, Clear
  <2>6. QED
    BY <1>2, <1>5, <2>4, <2>5
<1>6. QED
  BY <1>4, <1>5

\* What the server offers, test by test.
LEMMA OfferedIs ==
    ASSUME TInv, Offered
    PROVE  /\ test \in Inside \cup {"GAD_1", "GAD_2"} =>
                 \E h \in OfKind(server, "svc") : 1 <= h /\ h <= MaxHandle /\ server[h].uuid = "SVC"
           /\ test = "GAD_3" =>
                 \E h \in OfKind(server, "inc") : 1 <= h /\ h <= MaxHandle /\ server[h].uuid = "INC_SVC"
           /\ test \in Inside => InService(ChrUuid(test)) # None
           /\ test \in Straight =>
                 \E h \in OfKind(server, "chr") : 1 <= h /\ h <= MaxHandle /\ server[h].uuid = ChrUuid(test)
<1>1. server \in Server
  BY DEF TInv, Typed
<1>2. ASSUME test \in Inside
      PROVE  InService(ChrUuid(test)) # None
  <2>1. ChrUuid(test) = "CHR_READ_WRITE"
    BY <1>2 DEF ChrUuid, Inside, Subscribes
  <2>2. InService("CHR_READ_WRITE") # None
    BY <1>2 DEF Offered, Inside
  <2>3. QED
    BY <2>1, <2>2
<1>3. ASSUME test \in Inside \cup {"GAD_1", "GAD_2"}
      PROVE  \E h \in OfKind(server, "svc") : 1 <= h /\ h <= MaxHandle /\ server[h].uuid = "SVC"
  <2>1. CASE test \in Inside
    <3>1. find_svc_by_uuid(server, "SVC") # None
      BY <1>2, <2>1 DEF InService
    <3>2. PICK S : S = {h \in OfKind(server, "svc") : server[h].uuid = "SVC"}
      OBVIOUS
    <3>3. S \in SUBSET Handle
      BY <1>1, <3>2, ServerIs DEF OfKind
    <3>4. S # {}
      BY <3>1, <3>2, <3>3, LowestOf DEF find_svc_by_uuid, find_by_uuid
    <3>5. PICK h \in S : TRUE
      BY <3>4
    <3>6. 1 <= h /\ h <= MaxHandle
      BY <3>3, <3>5, HandleIs
    <3>7. QED
      BY <3>2, <3>5, <3>6
  <2>2. CASE test \in {"GAD_1", "GAD_2"}
    BY <2>2 DEF Offered, Has
  <2>3. QED
    BY <1>3, <2>1, <2>2
<1>4. test = "GAD_3" =>
         \E h \in OfKind(server, "inc") : 1 <= h /\ h <= MaxHandle /\ server[h].uuid = "INC_SVC"
  BY DEF Offered, Has
<1>5. ASSUME test \in Straight
      PROVE  \E h \in OfKind(server, "chr") : 1 <= h /\ h <= MaxHandle /\ server[h].uuid = ChrUuid(test)
  <2>1. CASE test \in {"GAD_5", "GAR_1", "GAW_1"}
    BY <2>1 DEF Offered, Has, ChrUuid, Subscribes
  <2>2. CASE test \in {"GAR_2", "GAW_2"}
    BY <2>2 DEF Offered, Has, ChrUuid, Subscribes
  <2>3. CASE test \in {"GAN_1", "GAI_1"}
    BY <2>3 DEF Offered, Has, ChrUuid, Subscribes
  <2>4. QED
    BY <1>5, <2>1, <2>2, <2>3 DEF Straight
<1>6. QED
  BY <1>2, <1>3, <1>4, <1>5

\* The descriptor a test is about, in terms of the characteristic it has chosen.
LEMMA DescriptorOffered ==
    ASSUME TInv, PInv, ChosenRight, Offered, ~torn, air = "linked", HasChr(phase), test \in Deep
    PROVE  \E d \in OfKind(server, "dsc") : server[d].uuid = DscUuid(test) /\ Belongs(d, loc.chr)
<1>1. CASE test \in Subscribes
  <2>1. HasDescriptor("CCC", find_chr_by_uuid(server, "CHR_NOTIFY"))
    BY <1>1 DEF Offered, Subscribes
  <2>2. loc.chr = First
    BY <1>1 DEF PInv, Chosen, Subscribes, Straight
  <2>3. First = find_chr_by_uuid(server, "CHR_NOTIFY")
    BY <1>1 DEF First, ChrUuid, Subscribes, Inside
  <2>4. DscUuid(test) = "CCC"
    BY <1>1 DEF DscUuid, Subscribes
  <2>5. QED
    BY <2>1, <2>2, <2>3, <2>4 DEF HasDescriptor
<1>2. CASE test \in Inside
  <2>1. loc.chr = InService(ChrUuid(test)) /\ ChrUuid(test) = "CHR_READ_WRITE"
    BY <1>2 DEF ChosenRight, ChrUuid, Inside, Subscribes
  <2>2. CASE test \in {"GAR_4", "GAW_4"}
    BY <2>1, <2>2 DEF Offered, HasDescriptor, DscUuid, Subscribes
  <2>3. CASE test \in {"GAD_6", "GAR_3", "GAW_3"}
    BY <2>1, <2>3 DEF Offered, HasDescriptor, DscUuid, Subscribes
  <2>4. QED
    BY <1>2, <2>2, <2>3 DEF Deep, Inside
<1>3. QED
  BY <1>1, <1>2 DEF Deep, Subscribes, Inside

\* A look-up finds what the server offers, when its result is complete.
LEMMA FindsAttribute ==
    ASSUME TInv, FInv, PInv, GInv, Clear, FindAttribute, ~torn'
    PROVE  outcome' = "running"
<1>1. SUFFICES ASSUME outcome' # "running"
               PROVE  FALSE
  OBVIOUS
<1>2. /\ outcome = "running" /\ step.do = "find" /\ ~torn /\ callback = <<>> /\ air = "linked" /\ Offered
  BY FindLeads DEF Clear
<1>3. FindByUuid = None
  BY <1>1 DEF FindAttribute, At, GoOn
<1>4. PICK next : FindMoves(test, step.op, step.arg, phase, next)
  BY <1>2, StepTakes, MovesFind
<1>5. find_by_uuid(db, step.op, step.arg) = None
  BY <1>3, <1>4 DEF FindMoves, FindByUuid, find_svc_by_uuid, find_inc_svc_by_uuid, find_chr_by_uuid,
                    find_dsc_by_uuid
<1>6. \A g \in DOMAIN db : ~(server[g].kind = step.op /\ server[g].uuid = step.arg)
  BY <1>5, FoundInDb DEF TInv
<1>7. Known = DOMAIN db
  BY <1>2, ElementsEmpty DEF Known, AddsOf
<1>8. phase \in {"svc_in", "chr_in", "dsc_in"} => Within(wanted) \subseteq DOMAIN db
  BY <1>2, <1>7 DEF PInv, AllSought
<1>9. CASE step.op = "svc"
  <2>1. phase = "svc_in" /\ step.arg = "SVC" /\ test \in Inside \cup {"GAD_1", "GAD_2"}
    BY <1>4, <1>9 DEF FindMoves
  <2>2. PICK h \in OfKind(server, "svc") : 1 <= h /\ h <= MaxHandle /\ server[h].uuid = "SVC"
    BY <1>2, <2>1, OfferedIs
  <2>3. /\ wanted.lo = 1 /\ wanted.hi = MaxHandle /\ wanted.uuid \in {"any", "SVC"}
        /\ wanted.op \in {"disc_prim_svcs", "disc_prim_uuid"}
    BY <2>1 DEF wanted, CommandOf, SvcPhase
  <2>4. KindOf(wanted.op) = "svc"
    BY <2>3 DEF KindOf
  <2>5. h \in Within(wanted)
    BY <2>2, <2>3, <2>4 DEF Within
  <2>6. QED
    BY <1>6, <1>8, <1>9, <2>1, <2>2, <2>5 DEF OfKind
<1>10. CASE step.op = "inc"
  <2>1. phase = "inc_in" /\ step.arg = "INC_SVC" /\ test = "GAD_3"
    BY <1>4, <1>10 DEF FindMoves
  <2>2. PICK h \in OfKind(server, "inc") : 1 <= h /\ h <= MaxHandle /\ server[h].uuid = "INC_SVC"
    BY <1>2, <2>1, OfferedIs
  <2>3. CASE cl
    <3>1. wanted = [op |-> "find_included", lo |-> 1, hi |-> MaxHandle, uuid |-> "any"]
      BY <2>1, <2>3 DEF wanted, CommandOf, SvcPhase, IncPhase
    <3>2. KindOf(wanted.op) = "inc"
      BY <3>1 DEF KindOf
    <3>3. h \in Within(wanted)
      BY <2>2, <3>1, <3>2 DEF Within
    <3>4. Within(wanted) \subseteq DOMAIN db
      BY <1>2, <1>7, <2>1, <2>3 DEF PInv, AllSought
    <3>5. QED
      BY <1>6, <1>10, <2>1, <2>2, <3>3, <3>4 DEF OfKind
  <2>4. CASE ~cl
    <3>1. todo = <<>>
      BY <2>1 DEF TInv, Progress
    <3>2. h \in DOMAIN db
      BY <1>2, <2>1, <2>2, <2>4, <3>1, ElementsEmpty DEF GInv, IncludedSought
    <3>3. QED
      BY <1>6, <1>10, <2>1, <2>2, <3>2 DEF OfKind
  <2>5. QED
    BY <2>3, <2>4
<1>11. CASE step.op = "chr"
  <2>1. phase = "chr_in" /\ step.arg = ChrUuid(test) /\ test \in Inside \cup Straight
    BY <1>4, <1>11 DEF FindMoves
  <2>2. CASE test \in Inside
    <3>1. InService(ChrUuid(test)) = None
      BY <1>2, <1>5, <1>11, <2>1, <2>2, ChosenInService
    <3>2. QED
      BY <1>2, <2>2, <3>1, OfferedIs
  <2>3. CASE test \in Straight
    <3>1. PICK h \in OfKind(server, "chr") : server[h].uuid = ChrUuid(test)
      BY <1>2, <2>3, OfferedIs
    <3>2. h \in ChrSought
      BY <2>3, <3>1 DEF ChrSought, Inside, Straight
    <3>3. Within(wanted) = ChrSought
      BY <2>1, WithinChr DEF ChrPhase
    <3>4. QED
      BY <1>6, <1>8, <1>11, <2>1, <3>1, <3>2, <3>3 DEF OfKind
  <2>4. QED
    BY <2>1, <2>2, <2>3
<1>12. CASE step.op = "dsc"
  <2>1. phase = "dsc_in" /\ step.arg = DscUuid(test) /\ test \in Deep
    BY <1>4, <1>12 DEF FindMoves
  <2>2. HasChr(phase) /\ Ended(phase)
    BY <2>1 DEF HasChr, Ended, Deep, Inside, Straight, SvcPhase
  <2>3. PICK d \in OfKind(server, "dsc") : server[d].uuid = DscUuid(test) /\ Belongs(d, loc.chr)
    BY <1>2, <2>1, <2>2, DescriptorOffered DEF GInv
  <2>4. d \in DscSought
    BY <2>2, <2>3, SoughtDescriptor DEF GInv
  <2>5. Within(wanted) = DscSought
    BY <2>1, WithinDsc DEF DscPhase
  <2>6. QED
    BY <1>6, <1>8, <1>12, <2>1, <2>3, <2>4, <2>5 DEF OfKind
<1>13. QED
  BY <1>4, <1>9, <1>10, <1>11, <1>12 DEF FindMoves

\* A characteristic with a descriptor of its own has an end.
LEMMA FindsEnd ==
    ASSUME TInv, FInv, PInv, GInv, Clear, FindCharacteristicEnd, ~torn'
    PROVE  outcome' = "running"
<1>1. SUFFICES ASSUME outcome' # "running"
               PROVE  FALSE
  OBVIOUS
<1>2. /\ outcome = "running" /\ step.do = "end" /\ ~torn /\ callback = <<>> /\ air = "linked" /\ Offered
  BY DEF FindCharacteristicEnd, At, Look, Clear
<1>3. find_characteristic_end(db, loc.chr) = None
  BY <1>1 DEF FindCharacteristicEnd, At, GoOn
<1>4. phase = "chr" /\ test \in Deep
  BY <1>2, StepTakes DEF Moves
<1>5. HasChr(phase)
  BY <1>4 DEF HasChr, Deep, Inside, Straight, SvcPhase
<1>6. server \in Server /\ DOMAIN db \subseteq DOMAIN server /\ loc.chr \in OfKind(server, "chr")
  BY <1>5 DEF TInv, Typed, Locals
<1>7. loc.chr \in Nat /\ 1 <= loc.chr
  BY <1>6, ServerIs DEF OfKind
<1>8. loc.chr + 2 \in Stops(db, loc.chr)
  <2>1. loc.chr + 2 \in Stops(db, loc.chr) \/ 1 \in Stops(db, loc.chr)
    BY <1>3, <1>7, EndIs DEF TInv
  <2>2. 1 \in Stops(db, loc.chr) => 1 > loc.chr
    BY DEF Stops
  <2>3. QED
    BY <1>7, <2>1, <2>2
<1>9. loc.chr + 2 \in DOMAIN db
  BY <1>8 DEF Stops
<1>10. server[loc.chr + 2].kind \in {"chr", "svc"}
  <2>1. phase \in Before("dscs") /\ test # "GAD_3"
    BY <1>4 DEF Before, ChrPhase, Deep
  <2>2. server[loc.chr + 2].kind \notin {"inc", "dsc"}
    BY <1>9, <2>1 DEF PInv, OnlySought, Known
  <2>3. server[loc.chr + 2].kind \in Kind
    BY <1>6, <1>9, ServerIs
  <2>4. QED
    BY <2>2, <2>3 DEF Kind
<1>11. PICK d \in OfKind(server, "dsc") : Belongs(d, loc.chr)
  BY <1>2, <1>4, <1>5, DescriptorOffered DEF GInv
<1>12. d \in Nat /\ d \in 0 .. MaxHandle /\ d \in DOMAIN server /\ loc.chr < d
  BY <1>6, <1>11, ServerIs DEF OfKind, Belongs
<1>13. d < loc.chr + 2
  <2>1. loc.chr + 2 > loc.chr
    BY <1>7
  <2>2. QED
    BY <1>6, <1>7, <1>9, <1>10, <1>11, <1>12, <2>1, EndOfIs DEF Belongs
<1>14. /\ server[loc.chr].last \in Nat /\ loc.chr < server[loc.chr].last
       /\ \A g \in DOMAIN server : ~(loc.chr < g /\ g <= server[loc.chr].last)
  BY <1>6, ValueHandle, HandleIs, ServerIs DEF Ordered
<1>15. ~(d <= server[loc.chr].last)
  BY <1>12, <1>14
<1>16. QED
  BY <1>7, <1>12, <1>13, <1>14, <1>15

\* A cause stands.
Cause ==
    \/ air # "linked"
    \/ ~Offered
    \/ att \in {"refused", "unknown"}
    \/ torn
    \/ missed
    \/ cl /\ att = "empty" /\ test \in Reads
    \/ ~cl /\ test \in Subscribes

LEMMA CauseStays ==
    ASSUME TInv, FInv, [Next]_vars, Cause
    PROVE  Cause'
<1>1. /\ test' = test /\ cl' = cl /\ server' = server /\ att' = att
      /\ (air' = air \/ air' # "linked") /\ (torn => torn') /\ (missed => missed')
  <2>1. CASE RunTest
    <3>1. UNCHANGED mainKeeps /\ (torn => torn')
      BY <2>1, TestStep
    <3>2. QED
      BY <3>1, MainKeeps
  <2>2. CASE Aside
    BY <2>2, AsideKeeps
  <2>3. QED
    BY <2>1, <2>2, NextSteps
<1>2. Offered' <=> Offered
  BY <1>1, OfferedSame
<1>3. QED
  BY <1>1, <1>2 DEF Cause

\* A test that has ended rests.
LEMMA Rests ==
    ASSUME TInv, FInv, [Next]_vars, outcome # "running"
    PROVE  UNCHANGED <<outcome, test, cl, att, notes>>
<1>1. UNCHANGED vars
  BY TestStep, NextSteps DEF Aside, Answer, Report, Notify, LoseLink, PeripheralRx, RxFrame, RxStatement
<1>2. QED
  BY <1>1 DEF vars, fixed, testVars, clVars

LEMMA FailsForCause ==
    ASSUME TInv, FInv, PInv, GInv, [Next]_vars, outcome = "running", outcome' \notin {"running", "passed"}
    PROVE  Cause' \/ Unrecorded'
<1>1. SUFFICES ASSUME ~Cause', ~Unrecorded'
               PROVE  FALSE
  OBVIOUS
<1>2. ~Cause /\ ~torn'
  BY <1>1, CauseStays DEF Cause
<1>3. Clear /\ ~torn /\ air = "linked"
  <2>1. att \in {"ok", "empty"}
    BY <1>2 DEF Cause, TInv, Typed, Att
  <2>2. QED
    BY <1>2, <2>1 DEF Cause, Clear
<1>4. RunTest
  <2>1. ~Aside
    BY AsideKeeps
  <2>2. QED
    BY <2>1, NextSteps
<1>5. CASE ResetList \/ SendCommand \/ ListServices \/ WaitEnds \/ Listen
  BY <1>5 DEF ResetList, SendCommand, ListServices, WaitEnds, Listen, GoOn
<1>6. CASE ReadResponse
  BY <1>3, <1>6, ReadsResponse
<1>7. CASE ReadTimeout
  BY <1>3, <1>7, NoTimeout
<1>8. CASE FindAttribute
  BY <1>2, <1>3, <1>8, FindsAttribute
<1>9. CASE FindCharacteristicEnd
  BY <1>2, <1>3, <1>9, FindsEnd
<1>10. CASE WaitFuture
  BY <1>3, <1>10, HeardInTime
<1>11. CASE TakeFirst
  <2>1. test' = test /\ cl' = cl /\ att' = att /\ notes' = notes
    BY <1>4, TestStep, MainKeeps
  <2>2. ~Unrecorded
    BY <1>1, <2>1 DEF Unrecorded
  <2>3. QED
    BY <1>2, <1>3, <1>11, <2>2, TakesFirst
<1>12. CASE CheckEqual
  BY <1>3, <1>12, ChecksEqual
<1>13. CASE Disconnect
  BY <1>3, <1>13 DEF Disconnect
<1>14. QED
  BY <1>4, <1>5, <1>6, <1>7, <1>8, <1>9, <1>10, <1>11, <1>12, <1>13 DEF RunTest

\* A test fails only for a cause: the link or the central was lost, the server
\* does not have what is looked for or refuses the access, or one of the
\* weaknesses of the tester that FailureHasCause names has shown.  With none of
\* them, test_btp_GATT_CL_GAD_1() to test_btp_GATT_CL_GAI_1() pass or go on.
THEOREM FailureHasCauseCorrect == Spec => []FailureHasCause
<1>1. FailureHasCause <=> (outcome \notin {"running", "passed"} => Cause \/ Unrecorded)
  BY DEF FailureHasCause, Cause, Unrecorded
<1>2. Init => FailureHasCause
  BY DEF Init, FailureHasCause
<1>3. TInv /\ FInv /\ PInv /\ GInv /\ FailureHasCause /\ [Next]_vars => FailureHasCause'
  <2> SUFFICES ASSUME TInv, FInv, PInv, GInv, FailureHasCause, [Next]_vars
               PROVE  FailureHasCause'
    OBVIOUS
  <2>1. FailureHasCause' <=> (outcome' \notin {"running", "passed"} => Cause' \/ Unrecorded')
    BY DEF FailureHasCause, Cause, Unrecorded
  <2>2. CASE outcome = "running"
    BY <2>1, <2>2, FailsForCause
  <2>3. CASE outcome # "running"
    <3>1. UNCHANGED <<outcome, test, cl, att, notes>>
      BY <2>3, Rests
    <3>2. Unrecorded => Unrecorded'
      BY <3>1 DEF Unrecorded
    <3>3. QED
      BY <1>1, <2>1, <3>1, <3>2, CauseStays
  <2>4. QED
    BY <2>2, <2>3
<1>4. QED
  BY <1>2, <1>3, GInvCorrect, PTL DEF Spec

=============================================================================
