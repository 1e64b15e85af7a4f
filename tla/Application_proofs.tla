------------------------- MODULE Application_proofs -------------------------
(***************************************************************************)
(* Proofs about the two libraries of the application, one for each of its  *)
(* threads: the MQTT client, for any clock and keep-alive and any messages *)
(* that the broker publishes, and the CAN poll, for any number of          *)
(* requests, any width of a record, any size of the ring and any answers.  *)
(*                                                                         *)
(* Both are about sequences, and the MQTT client's properties about what   *)
(* recursive functions make of them, so the module begins with induction:  *)
(* over the naturals, as a fact about sets of numbers, and from it over    *)
(* the sequences, as a fact about sets of sequences.                       *)
(***************************************************************************)
EXTENDS MqttClient, CanPoll, SequenceTheorems, FiniteSetTheorems,
        WellFoundedInduction, TLAPS

-----------------------------------------------------------------------------
(* Induction.                                                              *)

(* A set of naturals with zero and, with each number, the next, is Nat.    *)
LEMMA InductionOnNat ==
  ASSUME NEW S \in SUBSET Nat, 0 \in S, \A n \in S : n + 1 \in S
  PROVE  S = Nat
<1> DEFINE Below(x) == 0 .. x - 1
           T == {Below(x) : x \in Nat \ S}
<1> SUFFICES ASSUME Nat \ S # {} PROVE FALSE
  <2> HIDE DEF T
  <2> QED
    OBVIOUS
<1>1. IsWellFoundedOn(StrictSubsetOrdering(Nat), FiniteSubsetsOf(Nat))
  BY FS_StrictSubsetOrderingWellFounded
<1>2. T \subseteq FiniteSubsetsOf(Nat) /\ T # {}
  <2>1. ASSUME NEW x \in Nat PROVE IsFiniteSet(Below(x)) /\ Below(x) \in SUBSET Nat
    BY FS_Interval
  <2> QED
    BY <2>1 DEF FiniteSubsetsOf
<1>3. PICK U \in T : \A V \in T : ~(<<V, U>> \in StrictSubsetOrdering(Nat))
  <2> HIDE DEF T
  <2> QED
    BY <1>1, <1>2, WFMin
<1>4. PICK x \in Nat \ S : U = Below(x)
  BY <1>3
<1>5. x - 1 \in Nat \ S
  <2>1. x # 0 /\ x \in Nat
    OBVIOUS
  <2>2. x - 1 \in Nat /\ (x - 1) + 1 = x
    BY <2>1
  <2> QED
    BY <2>2
<1>6. Below(x - 1) \in T
  BY <1>5
<1>7. <<Below(x - 1), Below(x)>> \in StrictSubsetOrdering(Nat)
  <2>1. Below(x - 1) \subseteq Below(x) /\ x - 1 \in Below(x) /\ x - 1 \notin Below(x - 1)
    BY <1>5
  <2> QED
    BY <2>1 DEF StrictSubsetOrdering
<1> HIDE DEF T, Below
<1> QED
  BY <1>3, <1>4, <1>6, <1>7

(* A set of sequences with the empty one and, with each, all that have one *)
(* element more, has them all.                                             *)
LEMMA SeqInduction ==
  ASSUME NEW T, NEW Q, <<>> \in Q,
         \A s \in Seq(T), x \in T : s \in Q => Append(s, x) \in Q
  PROVE  Seq(T) \subseteq Q
<1> DEFINE S == {n \in Nat : \A s \in Seq(T) : Len(s) = n => s \in Q}
<1>1. 0 \in S
  <2>1. \A s \in Seq(T) : Len(s) = 0 => s = <<>>
    BY EmptySeq
  <2> QED
    BY <2>1
<1>2. ASSUME NEW n \in S PROVE n + 1 \in S
  <2>1. ASSUME NEW s \in Seq(T), Len(s) = n + 1 PROVE s \in Q
    <3>1. s # <<>>
      BY <2>1, EmptySeq
    <3>2. PICK r \in Seq(T), x \in T : s = Append(r, x)
      BY <3>1, SequenceEmptyOrAppend
    <3>3. Len(r) = n
      BY <2>1, <3>2, AppendProperties, LenProperties
    <3> QED
      BY <3>2, <3>3
  <2> QED
    BY <2>1
<1>3. S = Nat
  <2> HIDE DEF S
  <2>1. S \in SUBSET Nat
    BY DEF S
  <2> QED
    BY <1>1, <1>2, <2>1, InductionOnNat
<1> QED
  BY <1>3, LenProperties

\* What the filter's function is, for the first m elements.
Filters(f, S, s, m) ==
  f = [n \in 0 .. m |-> IF n = 0 THEN <<>>
                        ELSE IF s[n] \in S THEN Append(f[n - 1], s[n]) ELSE f[n - 1]]

(* Only is written with a recursive function: it exists, ...               *)
LEMMA FilterExists ==
  ASSUME NEW S, NEW s, NEW m \in Nat
  PROVE  \E f : Filters(f, S, s, m)
<1> DEFINE N == {k \in Nat : \E f : Filters(f, S, s, k)}
<1>1. 0 \in N
  <2> DEFINE f == [n \in 0 .. 0 |-> <<>>]
  <2>1. Filters(f, S, s, 0)
    BY DEF Filters
  <2> QED
    BY <2>1
<1>2. ASSUME NEW k \in N PROVE k + 1 \in N
  <2>1. PICK f : Filters(f, S, s, k)
    OBVIOUS
  <2> DEFINE last == IF s[k + 1] \in S THEN Append(f[k], s[k + 1]) ELSE f[k]
             g == [n \in 0 .. k + 1 |-> IF n = k + 1 THEN last ELSE f[n]]
  <2>2. \A n \in 0 .. k : f[n] = IF n = 0 THEN <<>>
                                 ELSE IF s[n] \in S THEN Append(f[n - 1], s[n]) ELSE f[n - 1]
    BY <2>1 DEF Filters
  <2>3. ASSUME NEW n \in 0 .. k + 1
        PROVE  g[n] = IF n = 0 THEN <<>>
                      ELSE IF s[n] \in S THEN Append(g[n - 1], s[n]) ELSE g[n - 1]
    <3>1. CASE n = k + 1
      <4>1. g[n - 1] = f[k] /\ n # 0
        BY <3>1
      <4> QED
        BY <3>1, <4>1
    <3>2. CASE n \in 0 .. k
      <4>1. g[n] = f[n] /\ (n # 0 => g[n - 1] = f[n - 1])
        BY <3>2
      <4> HIDE DEF g
      <4> QED
        BY <2>2, <3>2, <4>1
    <3> QED
      BY <3>1, <3>2
  <2>4. Filters(g, S, s, k + 1)
    <3>1. DOMAIN g = 0 .. k + 1 /\ g = [n \in 0 .. k + 1 |-> g[n]]
      OBVIOUS
    <3> HIDE DEF g
    <3> QED
      BY <2>3, <3>1 DEF Filters
  <2> QED
    BY <2>4
<1>3. N = Nat
  <2> HIDE DEF N
  <2>1. N \in SUBSET Nat
    BY DEF N
  <2> QED
    BY <1>1, <1>2, <2>1, InductionOnNat
<1> QED
  BY <1>3

(* ... and depends on the elements it has been through alone.              *)
LEMMA FilterUnique ==
  ASSUME NEW S, NEW s, NEW r, NEW m \in Nat, NEW k \in Nat, NEW f, NEW g,
         Filters(f, S, s, m), Filters(g, S, r, k), m <= k,
         \A n \in 1 .. m : s[n] = r[n]
  PROVE  f[m] = g[m]
<1> DEFINE N == {n \in Nat : n <= m => f[n] = g[n]}
<1>0. /\ \A n \in 0 .. m : f[n] = IF n = 0 THEN <<>>
                                  ELSE IF s[n] \in S THEN Append(f[n - 1], s[n]) ELSE f[n - 1]
      /\ \A n \in 0 .. k : g[n] = IF n = 0 THEN <<>>
                                  ELSE IF r[n] \in S THEN Append(g[n - 1], r[n]) ELSE g[n - 1]
  BY DEF Filters
<1>1. 0 \in N
  BY <1>0
<1>2. ASSUME NEW n \in N PROVE n + 1 \in N
  <2>1. SUFFICES ASSUME n + 1 <= m PROVE f[n + 1] = g[n + 1]
    OBVIOUS
  <2>2. f[n] = g[n] /\ n + 1 \in 1 .. m /\ (n + 1) - 1 = n /\ s[n + 1] = r[n + 1] /\ n + 1 \in 0 .. m
        /\ n + 1 \in 0 .. k /\ n + 1 # 0
    BY <2>1
  <2> HIDE DEF N
  <2>3. f[n + 1] = IF s[n + 1] \in S THEN Append(f[n], s[n + 1]) ELSE f[n]
    BY <1>0, <2>2
  <2>4. g[n + 1] = IF r[n + 1] \in S THEN Append(g[n], r[n + 1]) ELSE g[n]
    BY <1>0, <2>2
  <2> QED
    BY <2>2, <2>3, <2>4
<1>3. N = Nat
  <2> HIDE DEF N
  <2>1. N \in SUBSET Nat
    BY DEF N
  <2> QED
    BY <1>1, <1>2, <2>1, InductionOnNat
<1> QED
  BY <1>3

(* Only is the last value of that function.                                *)
LEMMA OnlyFilters ==
  ASSUME NEW S, NEW s, Len(s) \in Nat
  PROVE  \E f : Filters(f, S, s, Len(s)) /\ Only(S, s) = f[Len(s)]
<1> DEFINE f == CHOOSE h : Filters(h, S, s, Len(s))
<1>1. Filters(f, S, s, Len(s))
  BY FilterExists
<1>2. Only(S, s) = f[Len(s)]
  BY DEF Only, Filters
<1> QED
  BY <1>1, <1>2

(* An element after the second of two sequences is one after both.         *)
LEMMA ConcatAppend ==
  ASSUME NEW T, NEW s \in Seq(T), NEW u \in Seq(T), NEW x \in T
  PROVE  s \o Append(u, x) = Append(s \o u, x)
<1>1. Append(u, x) = u \o <<x>> /\ <<x>> \in Seq(T)
  BY AppendIsConcat
<1>2. s \o u \in Seq(T)
  BY ConcatProperties
<1>3. Append(s \o u, x) = (s \o u) \o <<x>>
  BY <1>2, AppendIsConcat
<1> QED
  BY <1>1, <1>3, ConcatAssociative

(* Of an empty sequence nothing is kept, ...                               *)
LEMMA OnlyEmpty == ASSUME NEW S PROVE Only(S, <<>>) = <<>>
<1>1. Len(<<>>) = 0
  OBVIOUS
<1>2. PICK f : Filters(f, S, <<>>, 0) /\ Only(S, <<>>) = f[0]
  BY <1>1, OnlyFilters
<1> QED
  BY <1>2 DEF Filters

(* ... and of one element more, that element if it is a member.            *)
LEMMA OnlyAppend ==
  ASSUME NEW S, NEW T, NEW s \in Seq(T), NEW x \in T
  PROVE  Only(S, Append(s, x)) = IF x \in S THEN Append(Only(S, s), x) ELSE Only(S, s)
<1> DEFINE r == Append(s, x)
           k == Len(s)
<1>1. /\ k \in Nat /\ Len(r) = k + 1 /\ r[k + 1] = x
      /\ \A n \in 1 .. k : s[n] = r[n]
  BY AppendProperties, LenProperties
<1> HIDE DEF r, k
<1>2. PICK f : Filters(f, S, s, k) /\ Only(S, s) = f[k]
  BY <1>1, OnlyFilters DEF k
<1>3. PICK g : Filters(g, S, r, k + 1) /\ Only(S, r) = g[k + 1]
  BY <1>1, OnlyFilters
<1>4. f[k] = g[k]
  <2>1. k + 1 \in Nat /\ k <= k + 1
    BY <1>1
  <2> QED
    BY <1>1, <1>2, <1>3, <2>1, FilterUnique
<1>5. g[k + 1] = IF r[k + 1] \in S THEN Append(g[k], r[k + 1]) ELSE g[k]
  <2>1. k + 1 \in 0 .. k + 1 /\ k + 1 # 0 /\ (k + 1) - 1 = k
    BY <1>1
  <2> QED
    BY <1>3, <2>1 DEF Filters
<1> QED
  BY <1>1, <1>2, <1>3, <1>4, <1>5 DEF r

(* What is kept are members.                                               *)
LEMMA OnlyType ==
  ASSUME NEW S, NEW T, NEW s \in Seq(T)
  PROVE  Only(S, s) \in Seq(T \cap S)
<1> DEFINE Q == {r \in Seq(T) : Only(S, r) \in Seq(T \cap S)}
<1>1. <<>> \in Q
  BY OnlyEmpty, EmptySeq
<1>2. ASSUME NEW r \in Seq(T), NEW x \in T, r \in Q PROVE Append(r, x) \in Q
  <2>1. Append(r, x) \in Seq(T)
    BY AppendProperties
  <2>2. Only(S, Append(r, x)) = IF x \in S THEN Append(Only(S, r), x) ELSE Only(S, r)
    BY OnlyAppend
  <2>3. x \in S => Append(Only(S, r), x) \in Seq(T \cap S)
    BY <1>2, AppendProperties
  <2> QED
    BY <1>2, <2>1, <2>2, <2>3
<1> HIDE DEF Q
<1>3. Seq(T) \subseteq Q
  BY <1>1, <1>2, SeqInduction
<1> QED
  BY <1>3 DEF Q

(* What is kept of two sequences, one after the other.                     *)
LEMMA OnlyConcat ==
  ASSUME NEW S, NEW T, NEW s \in Seq(T), NEW r \in Seq(T)
  PROVE  Only(S, s \o r) = Only(S, s) \o Only(S, r)
<1> DEFINE Q == {u \in Seq(T) : Only(S, s \o u) = Only(S, s) \o Only(S, u)}
<1>0. \A u \in Seq(T) : Only(S, u) \in Seq(T)
  <2> TAKE u \in Seq(T)
  <2>1. Only(S, u) \in Seq(T \cap S) /\ (T \cap S) \subseteq T
    BY OnlyType
  <2> QED
    BY <2>1, SeqMonotonic
<1>1. <<>> \in Q
  BY <1>0, OnlyEmpty, EmptySeq, ConcatEmptySeq
<1>2. ASSUME NEW u \in Seq(T), NEW x \in T, u \in Q PROVE Append(u, x) \in Q
  <2>1. Append(u, x) \in Seq(T) /\ s \o u \in Seq(T)
    BY AppendProperties, ConcatProperties
  <2>2. s \o Append(u, x) = Append(s \o u, x)
    BY ConcatAppend
  <2>3. Only(S, Append(u, x)) = IF x \in S THEN Append(Only(S, u), x) ELSE Only(S, u)
    BY OnlyAppend
  <2>6. Only(S, Append(s \o u, x)) = IF x \in S THEN Append(Only(S, s \o u), x) ELSE Only(S, s \o u)
    <3> DEFINE v == s \o u
    <3>1. v \in Seq(T)
      BY <2>1
    <3> HIDE DEF v
    <3>2. Only(S, Append(v, x)) = IF x \in S THEN Append(Only(S, v), x) ELSE Only(S, v)
      BY <3>1, OnlyAppend
    <3> QED
      BY <3>2 DEF v
  <2>4. Only(S, s \o u) = Only(S, s) \o Only(S, u)
    BY <1>2
  <2>5. Only(S, s) \o Append(Only(S, u), x) = Append(Only(S, s) \o Only(S, u), x)
    BY <1>0, ConcatAppend
  <2> QED
    BY <2>1, <2>2, <2>3, <2>4, <2>5, <2>6
<1> HIDE DEF Q
<1>3. Seq(T) \subseteq Q
  BY <1>1, <1>2, SeqInduction
<1> QED
  BY <1>3 DEF Q

\* What the function of FlattenSeq is, for the first m sequences.
Flattens(f, q, m) == f = [n \in 1 .. m |-> IF n = 1 THEN q[n] ELSE f[n - 1] \o q[n]]

(* The same for the function of FlattenSeq: it exists, ...                 *)
LEMMA FlattenExists ==
  ASSUME NEW q, NEW m \in Nat
  PROVE  \E f : Flattens(f, q, m)
<1> DEFINE N == {k \in Nat : \E f : Flattens(f, q, k)}
<1>1. 0 \in N
  <2> DEFINE f == [n \in 1 .. 0 |-> q[n]]
  <2>1. Flattens(f, q, 0)
    BY DEF Flattens
  <2> QED
    BY <2>1
<1>2. ASSUME NEW k \in N PROVE k + 1 \in N
  <2>1. PICK f : Flattens(f, q, k)
    OBVIOUS
  <2> DEFINE last == IF k + 1 = 1 THEN q[k + 1] ELSE f[k] \o q[k + 1]
             g == [n \in 1 .. k + 1 |-> IF n = k + 1 THEN last ELSE f[n]]
  <2>2. \A n \in 1 .. k : f[n] = IF n = 1 THEN q[n] ELSE f[n - 1] \o q[n]
    BY <2>1 DEF Flattens
  <2>3. ASSUME NEW n \in 1 .. k + 1
        PROVE  g[n] = IF n = 1 THEN q[n] ELSE g[n - 1] \o q[n]
    <3>1. CASE n = k + 1
      <4>1. n # 1 => g[n - 1] = f[k]
        BY <3>1
      <4> QED
        BY <3>1, <4>1
    <3>2. CASE n \in 1 .. k
      <4>1. g[n] = f[n] /\ (n # 1 => g[n - 1] = f[n - 1])
        BY <3>2
      <4> HIDE DEF g
      <4> QED
        BY <2>2, <3>2, <4>1
    <3> QED
      BY <3>1, <3>2
  <2>4. Flattens(g, q, k + 1)
    <3>1. DOMAIN g = 1 .. k + 1 /\ g = [n \in 1 .. k + 1 |-> g[n]]
      OBVIOUS
    <3> HIDE DEF g
    <3> QED
      BY <2>3, <3>1 DEF Flattens
  <2> QED
    BY <2>4
<1>3. N = Nat
  <2> HIDE DEF N
  <2>1. N \in SUBSET Nat
    BY DEF N
  <2> QED
    BY <1>1, <1>2, <2>1, InductionOnNat
<1> QED
  BY <1>3

(* ... depends on the sequences it has been through alone, ...             *)
LEMMA FlattenUnique ==
  ASSUME NEW q, NEW r, NEW m \in Nat, NEW k \in Nat, NEW f, NEW g,
         Flattens(f, q, m), Flattens(g, r, k), m <= k, m # 0,
         \A n \in 1 .. m : q[n] = r[n]
  PROVE  f[m] = g[m]
<1> DEFINE N == {n \in Nat : n + 1 <= m => f[n + 1] = g[n + 1]}
<1>0. /\ \A n \in 1 .. m : f[n] = IF n = 1 THEN q[n] ELSE f[n - 1] \o q[n]
      /\ \A n \in 1 .. k : g[n] = IF n = 1 THEN r[n] ELSE g[n - 1] \o r[n]
  BY DEF Flattens
<1>1. 0 \in N
  BY <1>0
<1>2. ASSUME NEW n \in N PROVE n + 1 \in N
  <2> DEFINE l == n + 2
  <2>1. SUFFICES ASSUME l <= m PROVE f[l] = g[l]
    OBVIOUS
  <2>2. /\ f[n + 1] = g[n + 1] /\ l - 1 = n + 1 /\ l # 1
        /\ l \in 1 .. m /\ l \in 1 .. k
    BY <2>1
  <2> HIDE DEF N, l
  <2>3. f[l] = f[n + 1] \o q[l]
    BY <1>0, <2>2
  <2>4. g[l] = g[n + 1] \o r[l]
    BY <1>0, <2>2
  <2> QED
    BY <2>2, <2>3, <2>4
<1>3. N = Nat
  <2> HIDE DEF N
  <2>1. N \in SUBSET Nat
    BY DEF N
  <2> QED
    BY <1>1, <1>2, <2>1, InductionOnNat
<1>4. m - 1 \in N /\ (m - 1) + 1 = m
  <2>1. m - 1 \in Nat /\ (m - 1) + 1 = m
    OBVIOUS
  <2> HIDE DEF N
  <2> QED
    BY <1>3, <2>1
<1> QED
  BY <1>4

(* ... and gives FlattenSeq.                                               *)
LEMMA FlattenFunction ==
  ASSUME NEW q, Len(q) \in Nat, Len(q) # 0
  PROVE  \E f : Flattens(f, q, Len(q)) /\ FlattenSeq(q) = f[Len(q)]
<1> DEFINE f == CHOOSE h : Flattens(h, q, Len(q))
<1>1. Flattens(f, q, Len(q))
  BY FlattenExists
<1>2. FlattenSeq(q) = f[Len(q)]
  BY DEF FlattenSeq, Flattens
<1> QED
  BY <1>1, <1>2

(* No records, no packets.                                                 *)
LEMMA FlattenEmpty == FlattenSeq(<<>>) = <<>>
BY DEF FlattenSeq

(* A record more at the end adds its packets at the end.                   *)
LEMMA FlattenAppend ==
  ASSUME NEW T, NEW q \in Seq(Seq(T)), NEW r \in Seq(T)
  PROVE  FlattenSeq(Append(q, r)) = FlattenSeq(q) \o r
<1> DEFINE p == Append(q, r)
           k == Len(q)
<1>1. /\ k \in Nat /\ Len(p) = k + 1 /\ p[k + 1] = r
      /\ \A n \in 1 .. k : q[n] = p[n]
  BY AppendProperties, LenProperties
<1> HIDE DEF p, k
<1>2. PICK g : Flattens(g, p, k + 1) /\ FlattenSeq(p) = g[k + 1]
  BY <1>1, FlattenFunction
<1>3. CASE k = 0
  <2>1. q = <<>>
    BY <1>3, EmptySeq DEF k
  <2>2. g[1] = r
    BY <1>1, <1>2, <1>3 DEF Flattens
  <2> QED
    BY <1>2, <1>3, <2>1, <2>2, FlattenEmpty, ConcatEmptySeq DEF p
<1>4. CASE k # 0
  <2>1. PICK f : Flattens(f, q, k) /\ FlattenSeq(q) = f[k]
    BY <1>1, <1>4, FlattenFunction DEF k
  <2>2. f[k] = g[k]
    <3>1. k + 1 \in Nat /\ k <= k + 1
      BY <1>1
    <3> QED
      BY <1>1, <1>2, <1>4, <2>1, <3>1, FlattenUnique
  <2>3. g[k + 1] = g[k] \o p[k + 1]
    <3>1. k + 1 \in 1 .. k + 1 /\ k + 1 # 1 /\ (k + 1) - 1 = k
      BY <1>1, <1>4
    <3> QED
      BY <1>2, <3>1 DEF Flattens
  <2> QED
    BY <1>1, <1>2, <2>1, <2>2, <2>3 DEF p
<1> QED
  BY <1>3, <1>4

(* The packets of some records are packets.                                *)
LEMMA FlattenType ==
  ASSUME NEW T, NEW q \in Seq(Seq(T))
  PROVE  FlattenSeq(q) \in Seq(T)
<1> DEFINE Q == {p \in Seq(Seq(T)) : FlattenSeq(p) \in Seq(T)}
<1>1. <<>> \in Q
  BY FlattenEmpty, EmptySeq
<1>2. ASSUME NEW p \in Seq(Seq(T)), NEW r \in Seq(T), p \in Q PROVE Append(p, r) \in Q
  BY <1>2, FlattenAppend, AppendProperties, ConcatProperties
<1> HIDE DEF Q
<1>3. Seq(Seq(T)) \subseteq Q
  BY <1>1, <1>2, SeqInduction
<1> QED
  BY <1>3 DEF Q

(* The packets of the first record come first.                             *)
LEMMA FlattenFirst ==
  ASSUME NEW T, NEW q \in Seq(Seq(T)), q # <<>>
  PROVE  FlattenSeq(q) = Head(q) \o FlattenSeq(Tail(q))
<1> DEFINE Q == {p \in Seq(Seq(T)) : p = <<>> \/ FlattenSeq(p) = Head(p) \o FlattenSeq(Tail(p))}
<1>1. <<>> \in Q
  BY EmptySeq
<1>2. ASSUME NEW p \in Seq(Seq(T)), NEW r \in Seq(T), p \in Q PROVE Append(p, r) \in Q
  <2>1. Append(p, r) \in Seq(Seq(T)) /\ FlattenSeq(Append(p, r)) = FlattenSeq(p) \o r
    BY FlattenAppend, AppendProperties
  <2>2. CASE p = <<>>
    <3>1. Head(Append(p, r)) = r /\ Tail(Append(p, r)) = <<>>
      BY <2>2, HeadTailAppend
    <3> QED
      BY <2>1, <2>2, <3>1, FlattenEmpty, ConcatEmptySeq
  <2>3. CASE p # <<>>
    <3>1. Head(Append(p, r)) = Head(p) /\ Tail(Append(p, r)) = Append(Tail(p), r)
      BY <2>3, HeadTailAppend
    <3>2. Head(p) \in Seq(T) /\ Tail(p) \in Seq(Seq(T))
      BY <2>3, HeadTailProperties
    <3>3. FlattenSeq(Append(Tail(p), r)) = FlattenSeq(Tail(p)) \o r /\ FlattenSeq(Tail(p)) \in Seq(T)
      BY <3>2, FlattenAppend, FlattenType
    <3>4. FlattenSeq(p) = Head(p) \o FlattenSeq(Tail(p))
      BY <1>2, <2>3
    <3>5. (Head(p) \o FlattenSeq(Tail(p))) \o r = Head(p) \o (FlattenSeq(Tail(p)) \o r)
      <4> DEFINE a == Head(p)
                 b == FlattenSeq(Tail(p))
      <4>1. a \in Seq(T) /\ b \in Seq(T)
        BY <3>2, <3>3
      <4> HIDE DEF a, b
      <4>2. (a \o b) \o r = a \o (b \o r)
        BY <4>1, ConcatAssociative
      <4> QED
        BY <4>2 DEF a, b
    <3> QED
      BY <2>1, <3>1, <3>3, <3>4, <3>5
  <2> QED
    BY <2>2, <2>3
<1> HIDE DEF Q
<1>3. Seq(Seq(T)) \subseteq Q
  BY <1>1, <1>2, SeqInduction
<1> QED
  BY <1>3 DEF Q

(* A sequence is its head and its tail.                                    *)
LEMMA Take ==
  ASSUME NEW S, NEW s \in Seq(S), s # <<>>
  PROVE  /\ Head(s) \in S /\ Tail(s) \in Seq(S)
         /\ s = <<Head(s)>> \o Tail(s) /\ Head(s) = s[1]
<1>1. Head(s) \in S /\ Tail(s) \in Seq(S)
  BY HeadTailProperties
<1>2. 1 \in 1 .. Len(s) /\ Len(s) \in 1 .. Len(s)
  BY EmptySeq
<1>3. SubSeq(s, 1, Len(s)) = <<s[1]>> \o SubSeq(s, 1 + 1, Len(s))
  BY <1>2, SubSeqRecursiveFirst
<1>4. SubSeq(s, 1, Len(s)) = s /\ SubSeq(s, 1 + 1, Len(s)) = Tail(s)
  BY SubSeqFull, TailIsSubSeq
<1> QED
  BY <1>1, <1>3, <1>4

(* A sequence of one element.                                              *)
LEMMA OneElement == ASSUME NEW S, NEW x \in S PROVE <<x>> \in Seq(S)
BY AppendProperties, EmptySeq

(* The first of two sequences is a prefix of both together.               *)
LEMMA PrefixOfConcat ==
  ASSUME NEW S, NEW s \in Seq(S), NEW r \in Seq(S)
  PROVE  IsPrefix(s, s \o r)
<1>1. Len(s) \in Nat /\ Len(r) \in Nat /\ Len(s \o r) = Len(s) + Len(r)
  BY LenProperties, ConcatProperties
<1>2. CASE Len(s) = 0
  BY <1>1, <1>2, SubSeqEmpty DEF IsPrefix
<1>3. CASE Len(s) # 0
  <2>1. SubSeq(s \o r, 1, Len(s)) = SubSeq(s, 1, Len(s))
    <3>1. 1 \in 1 .. Len(s) /\ Len(s) \in 1 .. Len(s)
      BY <1>1, <1>3
    <3> QED
      BY <3>1, SubSeqOfConcat1
  <2> QED
    BY <1>1, <2>1 DEF IsPrefix
<1> QED
  BY <1>2, <1>3

(* After a prefix comes a rest.                                            *)
LEMMA RestOfPrefix ==
  ASSUME NEW S, NEW s \in Seq(S), NEW r \in Seq(S), IsPrefix(s, r)
  PROVE  \E rest \in Seq(S) : r = s \o rest
<1> DEFINE rest == SubSeq(r, Len(s) + 1, Len(r))
<1>1. Len(s) \in Nat /\ Len(r) \in Nat /\ Len(s) <= Len(r)
  BY LenProperties DEF IsPrefix
<1>2. rest \in Seq(S)
  <2>1. \A k \in Len(s) + 1 .. Len(r) : r[k] \in S
    BY <1>1, ElementOfSeq
  <2> QED
    BY <1>1, <2>1, SubSeqProperties
<1>3. SubSeq(r, 1, Len(s)) \o rest = SubSeq(r, 1, Len(r))
  <2>1. 1 \in 1 .. Len(r) + 1 /\ Len(s) \in 1 - 1 .. Len(r) /\ Len(r) \in Len(s) .. Len(r)
    BY <1>1
  <2> QED
    BY <2>1, ConcatAdjacentSubSeq
<1>4. SubSeq(r, 1, Len(s)) = s /\ SubSeq(r, 1, Len(r)) = r
  BY SubSeqFull DEF IsPrefix
<1> QED
  BY <1>2, <1>3, <1>4

(* A prefix stays one when the sequence grows, ...                         *)
LEMMA PrefixLonger ==
  ASSUME NEW S, NEW s \in Seq(S), NEW r \in Seq(S), NEW v \in Seq(S), IsPrefix(s, r)
  PROVE  IsPrefix(s, r \o v)
<1>1. PICK rest \in Seq(S) : r = s \o rest
  BY RestOfPrefix
<1>2. r \o v = s \o (rest \o v) /\ rest \o v \in Seq(S)
  BY <1>1, ConcatAssociative, ConcatProperties
<1> QED
  BY <1>2, PrefixOfConcat

(* ... and when it is cut short itself.                                    *)
LEMMA PrefixShorter ==
  ASSUME NEW S, NEW s \in Seq(S), NEW r \in Seq(S), NEW v \in Seq(S), IsPrefix(s \o r, v)
  PROVE  IsPrefix(s, v)
<1>1. s \o r \in Seq(S)
  BY ConcatProperties
<1>2. PICK rest \in Seq(S) : v = (s \o r) \o rest
  BY <1>1, RestOfPrefix
<1>3. v = s \o (r \o rest) /\ r \o rest \in Seq(S)
  BY <1>2, ConcatAssociative, ConcatProperties
<1> QED
  BY <1>3, PrefixOfConcat

-----------------------------------------------------------------------------
(* How often a packet occurs.                                             *)

(* Packets of two sequences are counted together.                          *)
LEMMA CountConcat ==
  ASSUME NEW S, NEW s \in Seq(S), NEW r \in Seq(S), NEW p
  PROVE  /\ Count(p, s) \in Nat /\ Count(p, r) \in Nat
         /\ Count(p, s \o r) = Count(p, s) + Count(p, r)
<1>1. /\ Only({p}, s) \in Seq(S \cap {p}) /\ Only({p}, r) \in Seq(S \cap {p})
      /\ Only({p}, s \o r) = Only({p}, s) \o Only({p}, r)
  BY OnlyType, OnlyConcat
<1> QED
  BY <1>1, ConcatProperties, LenProperties DEF Count

(* One packet is counted if it is of the kind.                             *)
LEMMA CountOne ==
  ASSUME NEW x, NEW p
  PROVE  Count(p, <<x>>) = IF x = p THEN 1 ELSE 0
<1>1. Append(<<>>, x) = <<x>> /\ <<>> \in Seq({x})
  BY EmptySeq
<1>2. Only({p}, Append(<<>>, x)) = IF x \in {p} THEN Append(Only({p}, <<>>), x)
                                               ELSE Only({p}, <<>>)
  <2>1. x \in {x}
    OBVIOUS
  <2> QED
    BY <1>1, <2>1, OnlyAppend
<1>3. Only({p}, <<>>) = <<>>
  BY OnlyEmpty
<1> QED
  BY <1>1, <1>2, <1>3 DEF Count

(* Where there is no packet none is counted.                               *)
LEMMA CountEmpty == ASSUME NEW p PROVE Count(p, <<>>) = 0
BY OnlyEmpty, EmptySeq DEF Count

-----------------------------------------------------------------------------
(* The MQTT client: its inductive invariant.                               *)

\* The packets that the client has but has not handled, in order.
Arrived == InHand \o tlsIn \o FlattenSeq(tcpIn)

\* Those it has not read.
Stored == tlsIn \o FlattenSeq(tcpIn)

\* The pings and answers to pings under way; and whether one was spoilt.
Pings  == Count("pingreq", toBroker) + Count("pingresp", Unread)
Spoilt == IF pingSpoilt THEN 1 ELSE 0

(* Where the thread is tells how far the connection is, and what is in the *)
(* buffer there: a ping is built only when none is outstanding, and an     *)
(* oversized message does not stay.                                        *)
PlaceInv ==
  /\ pc = "dial" => link = "none"
  /\ pc \in {"connack", "verdict"} => link = "tls"
  /\ pc \in {"timers", "receive", "dispatch"} => link = "up"
  /\ pc = "idle" => link \in {"up", "closed"}
  /\ pc = "send" => link = IF buffer = "connect" THEN "tls" ELSE "up"
  /\ pc = "send" /\ buffer = "pingreq" => ~pingOutstanding
  /\ pc = "dispatch" => ~Oversized(buffer)

(* The broker publishes nothing to a client that is not accepted, for that *)
(* has not subscribed.                                                     *)
NewInv ==
  link \in {"none", "tls"} =>
    /\ published = 0 /\ served # "subscribed"
    /\ Count("subscribe", toBroker) = 0

(* PingAccounted speaks of a session that is up.  That connect() may clear *)
(* pingOutstanding rests on there being no ping under way before that.     *)
PingInv ==
  net = "open" =>
    /\ link \in {"none", "tls"} => Pings + Spoilt = 0
    /\ link = "up" => Pings + Spoilt = IF pingOutstanding THEN 1 ELSE 0

(* The messages that have arrived are the next that loop() is to handle,   *)
(* also when the network is lost or the client thread is stuck; with those *)
(* under way they are all of them as long as nothing has been cut off.     *)
StreamInv ==
  /\ IsPrefix(dispatched \o Only(Fitting, Arrived), Expected)
  /\ net = "open" /\ link # "closed" => dispatched \o Only(Fitting, Unread) = Expected

(* No message is expected twice, for none is published twice.              *)
OnceInv ==
  /\ \A k \in 1 .. Len(Expected) : \E n \in 1 .. published : Expected[k] = Messages[n]
  /\ \A k, n \in 1 .. Len(Expected) : Expected[k] = Expected[n] => k = n

(* callback() got those handled that were not spoilt, as they came.        *)
CallbackInv ==
  /\ callbacks = Only(Publish \ spoilt, dispatched)
  /\ \A m \in spoilt : \E k \in 1 .. Len(dispatched) : m = dispatched[k]

ClientInv ==
  TypeOK /\ PlaceInv /\ NewInv /\ PingInv /\ StreamInv /\ OnceInv /\ CallbackInv

\* A TLS record carries a packet at least.
Record == Seq(Packets) \ {<<>>}

-----------------------------------------------------------------------------
(* Types.                                                                  *)

(* What the client writes the broker can read.                             *)
LEMMA WriteType ==
  ASSUME TypeOK, NEW p \in Control, Write(p)
  PROVE  toBroker' \in Seq(Control)
BY AppendProperties DEF TypeOK, Write

(* A disconnect leaves a state of the right types.                         *)
LEMMA DisconnectType ==
  ASSUME TypeOK, Disconnect
  PROVE  /\ toBroker' \in Seq(Control) /\ tcpIn' \in Seq(Record) /\ tlsIn' \in Seq(Packets)
         /\ cut' \in BOOLEAN /\ link' \in {"none", "tls", "up", "closed"}
         /\ {lastInActivity', lastOutActivity'} \subseteq Clock
         /\ buffer' = "none" /\ torn' \in BOOLEAN
<1>1. "disconnect" \in Control
  BY DEF Control
<1>2. toBroker' \in Seq(Control)
  BY <1>1, AppendProperties DEF Disconnect, TypeOK
<1> QED
  BY <1>2, EmptySeq DEF Disconnect, TypeOK, Done, Fill

(* readPacket() takes the first of the packets that are stored, whether it *)
(* is in the TLS layer or in the socket, and no other.                     *)
LEMMA Reads ==
  ASSUME TypeOK, NEW packet, ReadPacket(packet)
  PROVE  /\ packet \in Packets
         /\ tcpIn' \in Seq(Record) /\ tlsIn' \in Seq(Packets)
         /\ Stored = <<packet>> \o Stored'
         /\ Stored' \in Seq(Packets)
<1> USE DEF Record
<1>1. tlsIn \in Seq(Packets) /\ tcpIn \in Seq(Record)
  BY DEF TypeOK
<1>2. tcpIn \in Seq(Seq(Packets))
  BY <1>1, SeqMonotonic
<1>3. CASE tlsIn # <<>> /\ packet = Head(tlsIn) /\ tlsIn' = Tail(tlsIn) /\ UNCHANGED tcpIn
  <2>1. packet \in Packets /\ tlsIn' \in Seq(Packets) /\ tlsIn = <<packet>> \o tlsIn'
    BY <1>1, <1>3, Take
  <2>2. FlattenSeq(tcpIn') = FlattenSeq(tcpIn) /\ FlattenSeq(tcpIn) \in Seq(Packets)
    BY <1>2, <1>3, FlattenType
  <2>3. <<packet>> \in Seq(Packets)
    BY <2>1, OneElement
  <2>4. Stored = <<packet>> \o (tlsIn' \o FlattenSeq(tcpIn))
    BY <2>1, <2>2, <2>3, ConcatAssociative DEF Stored
  <2>5. Stored' = tlsIn' \o FlattenSeq(tcpIn)
    BY <2>2 DEF Stored
  <2> QED
    BY <1>1, <1>3, <2>1, <2>2, <2>4, <2>5, ConcatProperties
<1>4. CASE /\ tlsIn = <<>> /\ tcpIn # <<>>
           /\ packet = Head(Head(tcpIn))
           /\ tlsIn' = Tail(Head(tcpIn)) /\ tcpIn' = Tail(tcpIn)
  <2>1. PICK h : h = Head(tcpIn)
    OBVIOUS
  <2>2. h \in Record /\ tcpIn' \in Seq(Record)
    BY <1>1, <1>4, <2>1, Take
  <2>3. packet \in Packets /\ tlsIn' \in Seq(Packets) /\ h = <<packet>> \o tlsIn'
    BY <1>4, <2>1, <2>2, Take
  <2>4. FlattenSeq(tcpIn) = h \o FlattenSeq(Tail(tcpIn))
    BY <1>2, <1>4, <2>1, FlattenFirst
  <2>5. PICK f : f = FlattenSeq(Tail(tcpIn))
    OBVIOUS
  <2>6. f \in Seq(Packets)
    <3>1. Tail(tcpIn) \in Seq(Seq(Packets))
      BY <1>2, <1>4, Take
    <3> QED
      BY <2>5, <3>1, FlattenType
  <2>7. <<packet>> \in Seq(Packets)
    BY <2>3, OneElement
  <2>8. h \o f = <<packet>> \o (tlsIn' \o f)
    BY <2>3, <2>6, <2>7, ConcatAssociative
  <2>9. FlattenSeq(tcpIn) \in Seq(Packets)
    BY <1>2, FlattenType
  <2>10. Stored = h \o f
    BY <1>4, <2>4, <2>5, <2>9, ConcatEmptySeq DEF Stored
  <2>11. Stored' = tlsIn' \o f
    BY <1>4, <2>5 DEF Stored
  <2> QED
    BY <2>2, <2>3, <2>6, <2>8, <2>10, <2>11, ConcatProperties
<1> QED
  BY <1>3, <1>4 DEF ReadPacket

(* The types are right before the connection, ...                          *)
LEMMA TypeInit == Init => TypeOK
<1> SUFFICES ASSUME Init PROVE TypeOK
  OBVIOUS
<1>1. 0 \in 0 .. Len(Messages)
  BY MessagesAssumption, LenProperties
<1>2. /\ <<>> \in Seq(Packets) /\ <<>> \in Seq(Seq(Packets) \ {<<>>})
      /\ <<>> \in Seq(Publish) /\ <<>> \in Seq(Control)
  BY EmptySeq
<1> QED
  BY <1>1, <1>2 DEF Init, TypeOK

(* ... and every step keeps them: one of connect(), ...                    *)
LEMMA TypeConnect == TypeOK /\ Connect => TypeOK'
<1> SUFFICES ASSUME TypeOK, Connect PROVE TypeOK'
  OBVIOUS
<1> USE DEF Record, history, broker
<1>1. CASE Dial
  BY <1>1 DEF Dial, TypeOK, inbound, held, Fill, Control
<1>2. CASE SendConnect
  <2>1. toBroker' \in Seq(Control)
    BY <1>2, WriteType DEF SendConnect
  <2> QED
    BY <1>2, <2>1 DEF SendConnect, Sending, Done, Fill, TypeOK, inbound
<1>3. CASE Connack
  <2>1. PICK p \in Packets : ReadPacket(p) /\ Fill(p)
    BY <1>3 DEF Connack
  <2>2. tcpIn' \in Seq(Record) /\ tlsIn' \in Seq(Packets)
    BY <2>1, Reads
  <2> QED
    BY <1>3, <2>1, <2>2 DEF Connack, Fill, TypeOK, timers
<1>4. CASE Accept
  BY <1>4 DEF Accept, Fill, TypeOK, inbound, Control
<1>5. CASE Refuse
  <2>1. Disconnect
    BY <1>5 DEF Refuse
  <2> QED
    BY <1>5, <2>1, DisconnectType DEF Refuse, TypeOK
<1>6. CASE SendSubscribe
  <2>1. toBroker' \in Seq(Control)
    BY <1>6, WriteType DEF SendSubscribe
  <2> QED
    BY <1>6, <2>1 DEF SendSubscribe, Sending, Done, Fill, TypeOK, inbound
<1>7. CASE ConnackTimeout
  <2>1. Disconnect
    BY <1>7 DEF ConnackTimeout
  <2> QED
    BY <1>7, <2>1, DisconnectType DEF ConnackTimeout, TypeOK
<1> QED
  BY <1>1, <1>2, <1>3, <1>4, <1>5, <1>6, <1>7 DEF Connect

(* ... one of loop(), ...                                                  *)
LEMMA TypeLoop == TypeOK /\ Loop => TypeOK'
<1> SUFFICES ASSUME TypeOK, Loop PROVE TypeOK'
  OBVIOUS
<1> USE DEF Record, broker
<1>1. CASE LoopBegin \/ NotExpired \/ NothingAvailable
  BY <1>1 DEF LoopBegin, NotExpired, NothingAvailable, TypeOK, timers, inbound, held, history
<1>2. CASE Ping
  BY <1>2 DEF Ping, Fill, TypeOK, timers, inbound, history, Control
<1>3. CASE SendPing
  <2>1. toBroker' \in Seq(Control) /\ pingSpoilt' \in BOOLEAN
    BY <1>3, WriteType DEF SendPing
  <2> QED
    BY <1>3, <2>1 DEF SendPing, Sending, Done, Fill, TypeOK, inbound
<1>4. CASE GiveUp
  <2>1. Disconnect
    BY <1>4 DEF GiveUp
  <2> QED
    BY <1>4, <2>1, DisconnectType DEF GiveUp, TypeOK, history
<1>5. CASE Receive
  <2>1. PICK p \in Packets :
          /\ ReadPacket(p)
          /\ IF Oversized(p) THEN pc' = "idle" /\ UNCHANGED held
                             ELSE pc' = "dispatch" /\ Fill(p)
    BY <1>5 DEF Receive
  <2>2. tcpIn' \in Seq(Record) /\ tlsIn' \in Seq(Packets)
    BY <2>1, Reads
  <2> QED
    BY <1>5, <2>1, <2>2 DEF Receive, Fill, TypeOK, timers, held, history
<1>6. CASE DispatchMessage
  <2>1. buffer \in Publish /\ dispatched \in Seq(Publish) /\ callbacks \in Seq(Publish)
    BY <1>6 DEF DispatchMessage, TypeOK
  <2>2. Append(dispatched, buffer) \in Seq(Publish) /\ Append(callbacks, buffer) \in Seq(Publish)
    BY <2>1, AppendProperties
  <2>3. /\ dispatched' \in Seq(Publish) /\ callbacks' \in Seq(Publish)
        /\ spoilt' \subseteq Publish
    BY <1>6, <2>1, <2>2 DEF DispatchMessage, TypeOK
  <2>4. /\ pc' \in {"send", "idle"} /\ torn' \in BOOLEAN
        /\ buffer' \in {"puback", "none"}
    BY <1>6 DEF DispatchMessage, Done, Fill
  <2> QED
    BY <1>6, <2>3, <2>4 DEF DispatchMessage, TypeOK, inbound, Control
<1>7. CASE SendPuback
  <2>1. toBroker' \in Seq(Control)
    BY <1>7, WriteType DEF SendPuback
  <2> QED
    BY <1>7, <2>1 DEF SendPuback, Sending, Done, Fill, TypeOK, inbound, history
<1>8. CASE DispatchAnswer
  <2>1. pingOutstanding' \in BOOLEAN /\ pingSpoilt' \in BOOLEAN
    BY <1>8 DEF DispatchAnswer, TypeOK
  <2> QED
    BY <1>8, <2>1 DEF DispatchAnswer, Done, Fill, TypeOK, inbound
<1>9. CASE ReceiveCut
  <2>1. CASE Disconnect
    BY <1>9, <2>1, DisconnectType DEF ReceiveCut, TypeOK, history
  <2>2. CASE UNCHANGED <<toBroker, link, held, inbound, lastInActivity, lastOutActivity>>
    BY <1>9, <2>2 DEF ReceiveCut, TypeOK, inbound, held, history
  <2> QED
    BY <1>9, <2>1, <2>2 DEF ReceiveCut
<1>10. CASE PollClosed \/ Spin
  BY <1>10 DEF PollClosed, Spin, TypeOK, vars, timers, held, inbound, history
<1> QED
  BY <1>1, <1>2, <1>3, <1>4, <1>5, <1>6, <1>7, <1>8, <1>9, <1>10 DEF Loop

(* ... or one of the others.                                               *)
LEMMA TypeNext == TypeOK /\ [Next]_vars => TypeOK'
<1> SUFFICES ASSUME TypeOK, [Next]_vars PROVE TypeOK'
  OBVIOUS
<1> USE DEF Record, history, broker
<1>1. CASE MainPublish
  BY <1>1 DEF MainPublish, TypeOK, inbound
<1>2. CASE Tick
  <2>1. (now + 1) % ClockSize \in Clock
    <3>1. ClockSize \in Nat \ {0} /\ now + 1 \in Nat
      BY ClockAssumption DEF TypeOK, Clock
    <3> QED
      BY <3>1 DEF Clock
  <2> QED
    BY <1>2, <2>1 DEF Tick, TypeOK, timers, held, inbound
<1>3. CASE Deliver
  <2>1. PICK n \in 1 .. 2 : /\ n <= Len(fromBroker)
                            /\ tcpIn' = Append(tcpIn, SubSeq(fromBroker, 1, n))
                            /\ fromBroker' = SubSeq(fromBroker, n + 1, Len(fromBroker))
    BY <1>3 DEF Deliver
  <2>2. fromBroker \in Seq(Packets) /\ Len(fromBroker) \in Nat
    BY LenProperties DEF TypeOK
  <2>3. SubSeq(fromBroker, 1, n) \in Record
    <3>1. \A k \in 1 .. n : fromBroker[k] \in Packets
      BY <2>1, <2>2, ElementOfSeq
    <3>2. SubSeq(fromBroker, 1, n) \in Seq(Packets) /\ Len(SubSeq(fromBroker, 1, n)) = n
      BY <3>1, SubSeqProperties
    <3>3. Len(<<>>) = 0 /\ n # 0
      BY EmptySeq
    <3> QED
      BY <3>2, <3>3
  <2>4. fromBroker' \in Seq(Packets)
    <3>1. \A k \in n + 1 .. Len(fromBroker) : fromBroker[k] \in Packets
      BY <2>1, <2>2, ElementOfSeq
    <3> QED
      BY <2>1, <2>2, <3>1, SubSeqProperties
  <2>5. tcpIn' \in Seq(Record)
    BY <2>1, <2>3, AppendProperties DEF TypeOK
  <2> QED
    BY <1>3, <2>4, <2>5 DEF Deliver, TypeOK, timers, held
<1>4. CASE Lose
  <2>1. <<>> \in Seq(Control) /\ <<>> \in Seq(Packets)
    BY EmptySeq
  <2> QED
    BY <1>4, <2>1 DEF Lose, TypeOK, timers, held
<1>5. CASE BrokerReply
  <2>1. PICK reply \in Reply(Head(toBroker)) : fromBroker' = fromBroker \o reply
    BY <1>5 DEF BrokerReply
  <2>2. reply \in Seq(Packets)
    <3>1. \A a \in Answer : <<a>> \in Seq(Packets)
      BY OneElement DEF Packets
    <3> QED
      BY <2>1, <3>1, EmptySeq DEF Reply, Answer
  <2>3. fromBroker' \in Seq(Packets)
    BY <2>1, <2>2, ConcatProperties DEF TypeOK
  <2>4. toBroker' \in Seq(Control)
    BY <1>5, Take DEF BrokerReply, TypeOK
  <2> QED
    BY <1>5, <2>3, <2>4 DEF BrokerReply, TypeOK, timers, held, inbound
<1>6. CASE BrokerPublish
  <2>1. published' \in 1 .. Len(Messages) /\ Len(Messages) \in Nat
    BY <1>6, MessagesAssumption, LenProperties DEF BrokerPublish, TypeOK
  <2>2. Messages[published'] \in Packets
    BY <2>1, MessagesAssumption, ElementOfSeq DEF Packets
  <2>3. fromBroker' \in Seq(Packets)
    BY <1>6, <2>2, AppendProperties DEF BrokerPublish, TypeOK
  <2> QED
    BY <1>6, <2>1, <2>3 DEF BrokerPublish, TypeOK, timers, held, inbound
<1>7. CASE UNCHANGED vars
  BY <1>7 DEF TypeOK, vars, timers, held, inbound
<1> QED
  BY <1>1, <1>2, <1>3, <1>4, <1>5, <1>6, <1>7, TypeConnect, TypeLoop DEF Next, Client, Network

-----------------------------------------------------------------------------
(* Where the thread is, and the connection.                                *)

(* Every step keeps place, connection and buffer together.                 *)
LEMMA PlaceNext == TypeOK /\ PlaceInv /\ [Next]_vars => PlaceInv'
<1> SUFFICES ASSUME TypeOK, PlaceInv, [Next]_vars PROVE PlaceInv'
  OBVIOUS
<1> USE DEF PlaceInv, Done, Fill
<1>1. CASE Dial \/ SendConnect \/ Connack
  BY <1>1 DEF Dial, SendConnect, Sending, Connack
<1>2. CASE Accept \/ Refuse \/ SendSubscribe \/ ConnackTimeout
  BY <1>2 DEF Accept, Refuse, SendSubscribe, Sending, ConnackTimeout, Disconnect
<1>3. CASE LoopBegin \/ Ping \/ GiveUp \/ NotExpired \/ NothingAvailable
  BY <1>3 DEF LoopBegin, IsConnected, Ping, GiveUp, NotExpired, NothingAvailable, Disconnect,
              timers
<1>4. CASE Receive \/ ReceiveCut
  BY <1>4 DEF Receive, ReceiveCut, Disconnect
<1>5. CASE DispatchMessage \/ DispatchAnswer \/ SendPing \/ SendPuback
  BY <1>5 DEF DispatchMessage, DispatchAnswer, SendPing, SendPuback, Sending
<1>6. CASE MainPublish \/ Tick \/ Deliver \/ Lose \/ BrokerReply \/ BrokerPublish
  <2>1. UNCHANGED <<pc, link, buffer, pingOutstanding>>
    BY <1>6 DEF MainPublish, Tick, Deliver, Lose, BrokerReply, BrokerPublish, timers, held
  <2> QED
    BY <2>1
<1>7. CASE UNCHANGED vars
  BY <1>7 DEF vars, timers, held
<1> QED
  BY <1>1, <1>2, <1>3, <1>4, <1>5, <1>6, <1>7
     DEF Next, Client, Connect, Loop, Network, PollClosed, Spin

(* What is written adds to what the broker has to read.                    *)
LEMMA CountWritten ==
  ASSUME TypeOK, NEW p \in Control, Write(p), NEW x
  PROVE  /\ Count(x, toBroker') \in Nat
         /\ Count(x, toBroker') =
              Count(x, toBroker) + IF net = "open" /\ x = p THEN 1 ELSE 0
<1>1. toBroker \in Seq(Control) /\ <<p>> \in Seq(Control)
  BY OneElement DEF TypeOK
<1>2. toBroker' = IF net = "open" THEN toBroker \o <<p>> ELSE toBroker
  BY <1>1, AppendIsConcat DEF Write
<1>3. /\ Count(x, toBroker) \in Nat
      /\ Count(x, toBroker \o <<p>>) = Count(x, toBroker) + Count(x, <<p>>)
  BY <1>1, CountConcat
<1>4. Count(x, <<p>>) = IF x = p THEN 1 ELSE 0
  BY CountOne
<1> QED
  BY <1>2, <1>3, <1>4

(* What the broker reads is the first.                                     *)
LEMMA CountTaken ==
  ASSUME TypeOK, BrokerReply, NEW x
  PROVE  /\ Head(toBroker) \in Control
         /\ Count(x, toBroker') \in Nat
         /\ Count(x, toBroker) =
              (IF Head(toBroker) = x THEN 1 ELSE 0) + Count(x, toBroker')
<1>1. PICK b, b2, h : b = toBroker /\ b2 = toBroker' /\ h = Head(toBroker)
  OBVIOUS
<1>2. h \in Control /\ b2 \in Seq(Control) /\ b = <<h>> \o b2
  <2>1. b \in Seq(Control) /\ b # <<>> /\ h = Head(b) /\ b2 = Tail(b)
    BY <1>1 DEF TypeOK, BrokerReply
  <2> QED
    BY <2>1, Take
<1>3. <<h>> \in Seq(Control)
  BY <1>2, OneElement
<1>4. Count(x, b) = Count(x, <<h>>) + Count(x, b2) /\ Count(x, b2) \in Nat
  BY <1>2, <1>3, CountConcat
<1>5. Count(x, <<h>>) = IF h = x THEN 1 ELSE 0
  BY CountOne
<1> QED
  BY <1>1, <1>2, <1>4, <1>5

(* Every step keeps the broker silent towards a client not accepted yet.   *)
LEMMA NewNext == TypeOK /\ PlaceInv /\ NewInv /\ [Next]_vars => NewInv'
<1> SUFFICES ASSUME TypeOK, PlaceInv, NewInv, [Next]_vars, link' \in {"none", "tls"}
             PROVE  /\ published' = 0 /\ served' # "subscribed"
                    /\ Count("subscribe", toBroker') = 0
  BY DEF NewInv
<1> USE DEF broker
<1>a. link \in {"none", "tls"} =>
        published = 0 /\ served # "subscribed" /\ Count("subscribe", toBroker) = 0
  BY DEF NewInv
<1>1. CASE UNCHANGED <<link, published, served, toBroker>>
  BY <1>1, <1>a
<1>2. CASE SendConnect
  <2>1. PICK p \in Control : Write(p)
    BY <1>2 DEF SendConnect
  <2>2. p # "subscribe"
    BY <1>2, <2>1 DEF SendConnect, Sending, Write
  <2>3. Count("subscribe", toBroker') = Count("subscribe", toBroker) + 0
    BY <2>1, <2>2, CountWritten
  <2> QED
    BY <1>2, <1>a, <2>3 DEF SendConnect
<1>3. CASE BrokerReply
  <2>1. PICK reply \in Reply(Head(toBroker)) :
          served' = CASE reply = <<"refused">> -> "refused"
                      [] reply = <<"suback">>  -> "subscribed"
                      [] OTHER                 -> served
    BY <1>3 DEF BrokerReply
  <2>2. /\ Count("subscribe", toBroker') \in Nat
        /\ Count("subscribe", toBroker) =
             (IF Head(toBroker) = "subscribe" THEN 1 ELSE 0) + Count("subscribe", toBroker')
    BY <1>3, CountTaken
  <2>3. link' = link /\ published' = published
    BY <1>3 DEF BrokerReply
  <2>4. Head(toBroker) # "subscribe" /\ Count("subscribe", toBroker') = 0
    BY <1>a, <2>2, <2>3
  <2>5. reply # <<"suback">>
    BY <2>1, <2>4 DEF Reply
  <2> QED
    BY <1>a, <2>1, <2>3, <2>4, <2>5
<1>4. CASE BrokerPublish
  BY <1>4, <1>a DEF BrokerPublish
<1>5. CASE Dial
  BY <1>5, <1>a DEF Dial, PlaceInv
<1>6. CASE Connack \/ Accept \/ Refuse \/ SendSubscribe \/ ConnackTimeout
  BY <1>6, <1>1 DEF Connack, Accept, Refuse, SendSubscribe, Sending, ConnackTimeout, Disconnect,
                    PlaceInv
<1>7. CASE Loop
  <2>1. CASE LoopBegin \/ NotExpired \/ NothingAvailable \/ Ping \/ GiveUp \/ Receive
    BY <1>1, <2>1 DEF LoopBegin, NotExpired, NothingAvailable, Ping, GiveUp, Receive, Disconnect
  <2>2. CASE SendPing \/ SendPuback
    BY <2>2 DEF SendPing, SendPuback, Sending, PlaceInv
  <2>3. CASE DispatchMessage \/ DispatchAnswer
    BY <1>1, <2>3 DEF DispatchMessage, DispatchAnswer
  <2>4. CASE ReceiveCut
    BY <1>1, <2>4 DEF ReceiveCut, Disconnect
  <2>5. CASE PollClosed \/ Spin
    BY <1>1, <2>5 DEF PollClosed, Spin, vars
  <2> QED
    BY <1>7, <2>1, <2>2, <2>3, <2>4, <2>5 DEF Loop
<1>8. CASE MainPublish \/ Tick \/ Deliver
  BY <1>1, <1>8 DEF MainPublish, Tick, Deliver
<1>9. CASE Lose
  <2>1. Count("subscribe", <<>>) = 0
    BY CountEmpty
  <2> QED
    BY <1>9, <1>a, <2>1 DEF Lose
<1>10. CASE UNCHANGED vars
  BY <1>1, <1>10 DEF vars
<1> QED
  BY <1>2, <1>3, <1>4, <1>5, <1>6, <1>7, <1>8, <1>9, <1>10 DEF Next, Client, Connect, Network

-----------------------------------------------------------------------------
(* What has arrived.                                                       *)

(* A packet in hand comes before those that are stored.                    *)
LEMMA ArrivedIs ==
  TypeOK => /\ InHand \in Seq(Packets) /\ Stored \in Seq(Packets) /\ Arrived \in Seq(Packets)
            /\ Arrived = InHand \o Stored
<1> SUFFICES ASSUME TypeOK
             PROVE  /\ InHand \in Seq(Packets) /\ Stored \in Seq(Packets)
                    /\ Arrived \in Seq(Packets) /\ Arrived = InHand \o Stored
  OBVIOUS
<1>1. PICK h, s, f : h = InHand /\ s = tlsIn /\ f = FlattenSeq(tcpIn)
  OBVIOUS
<1>2. h \in Seq(Packets)
  <2>1. pc \in {"verdict", "dispatch"} => buffer \in Packets
    BY DEF TypeOK
  <2>2. pc \in {"verdict", "dispatch"} => <<buffer>> \in Seq(Packets)
    BY <2>1, OneElement
  <2> QED
    BY <1>1, <2>2, EmptySeq DEF InHand
<1>3. s \in Seq(Packets) /\ f \in Seq(Packets)
  <2>1. tcpIn \in Seq(Seq(Packets))
    BY SeqMonotonic DEF TypeOK
  <2> QED
    BY <1>1, <2>1, FlattenType DEF TypeOK
<1>4. Stored = s \o f /\ Arrived = (h \o s) \o f
  BY <1>1 DEF Stored, Arrived
<1>5. (h \o s) \o f = h \o (s \o f)
  BY <1>2, <1>3, ConcatAssociative
<1>6. s \o f \in Seq(Packets)
  BY <1>3, ConcatProperties
<1>7. h \o (s \o f) \in Seq(Packets)
  BY <1>2, <1>6, ConcatProperties
<1> QED
  BY <1>1, <1>2, <1>4, <1>5, <1>6, <1>7

(* The same after a step.                                                  *)
LEMMA ArrivedThen ==
  TypeOK' => /\ Arrived' \in Seq(Packets) /\ Stored' \in Seq(Packets)
             /\ Arrived' = InHand' \o Stored'
<1>1. TypeOK' => (/\ InHand \in Seq(Packets) /\ Stored \in Seq(Packets)
                  /\ Arrived \in Seq(Packets) /\ Arrived = InHand \o Stored)'
  BY ArrivedIs, PTL
<1> QED
  BY <1>1

(* A step that reads nothing and handles nothing changes nothing of it.    *)
LEMMA ArrivedSame ==
  ASSUME InHand' = InHand, UNCHANGED inbound
  PROVE  Arrived' = Arrived
BY DEF Arrived, inbound

(* A packet that is read is in hand, unless it is forgotten at once.       *)
LEMMA ArrivedRead ==
  ASSUME TypeOK, TypeOK', NEW p, ReadPacket(p), InHand = <<>>
  PROVE  /\ p \in Packets
         /\ InHand' = <<p>> => Arrived' = Arrived
         /\ InHand' = <<>> => Arrived = <<p>> \o Arrived'
<1>1. p \in Packets /\ Stored = <<p>> \o Stored' /\ Stored' \in Seq(Packets)
  BY Reads
<1>2. Arrived = InHand \o Stored /\ Arrived' = InHand' \o Stored'
  BY ArrivedIs, ArrivedThen
<1>3. Stored \in Seq(Packets)
  BY ArrivedIs
<1>4. Arrived = Stored
  BY <1>2, <1>3, ConcatEmptySeq
<1>5. InHand' = <<>> => Arrived' = Stored'
  BY <1>1, <1>2, ConcatEmptySeq
<1> QED
  BY <1>1, <1>2, <1>4, <1>5

(* A packet that is handled has arrived first.                             *)
LEMMA ArrivedHandled ==
  ASSUME TypeOK, TypeOK', NEW p, InHand = <<p>>, InHand' = <<>>, UNCHANGED inbound
  PROVE  Arrived = <<p>> \o Arrived'
<1>1. Stored' = Stored
  BY DEF Stored, inbound
<1>2. Arrived = <<p>> \o Stored /\ Arrived' = <<>> \o Stored /\ Stored \in Seq(Packets)
  BY <1>1, ArrivedIs, ArrivedThen
<1> QED
  BY <1>2, ConcatEmptySeq

(* After a disconnect there is nothing.                                    *)
LEMMA ArrivedGone ==
  ASSUME Disconnect, pc' \notin {"verdict", "dispatch"}
  PROVE  Arrived' = <<>>
<1>1. InHand' = <<>> /\ tlsIn' = <<>> /\ tcpIn' = <<>>
  BY DEF InHand, Disconnect
<1>2. <<>> \o <<>> = <<>>
  BY EmptySeq, ConcatEmptySeq
<1> QED
  BY <1>1, <1>2, FlattenEmpty DEF Arrived

(* A delivery moves the first of the packets under way behind those that   *)
(* have arrived.                                                           *)
LEMMA Delivers ==
  ASSUME TypeOK, Deliver
  PROVE  \E part \in Seq(Packets), rest \in Seq(Packets) :
           /\ fromBroker = part \o rest /\ fromBroker' = rest
           /\ Arrived' = Arrived \o part
<1>1. PICK n \in 1 .. 2 : /\ n <= Len(fromBroker)
                          /\ tcpIn' = Append(tcpIn, SubSeq(fromBroker, 1, n))
                          /\ fromBroker' = SubSeq(fromBroker, n + 1, Len(fromBroker))
  BY DEF Deliver
<1>2. PICK u, part, rest : /\ u = fromBroker /\ part = SubSeq(u, 1, n)
                           /\ rest = SubSeq(u, n + 1, Len(u))
  OBVIOUS
<1>3. u \in Seq(Packets) /\ Len(u) \in Nat
  BY <1>2, LenProperties DEF TypeOK
<1>4. part \in Seq(Packets) /\ rest \in Seq(Packets)
  <2>1. \A k \in 1 .. Len(u) : u[k] \in Packets
    BY <1>3, ElementOfSeq
  <2>2. n <= Len(u)
    BY <1>1, <1>2
  <2> QED
    BY <1>2, <1>3, <2>1, <2>2, SubSeqProperties
<1>5. part \o rest = u
  <2>1. 1 \in 1 .. Len(u) + 1 /\ n \in 1 - 1 .. Len(u) /\ Len(u) \in n .. Len(u)
    BY <1>1, <1>2, <1>3
  <2>2. SubSeq(u, 1, n) \o SubSeq(u, n + 1, Len(u)) = SubSeq(u, 1, Len(u))
    BY <1>3, <2>1, ConcatAdjacentSubSeq
  <2> QED
    BY <1>2, <1>3, <2>2, SubSeqFull
<1>6. PICK q, f : q = tcpIn /\ f = FlattenSeq(q)
  OBVIOUS
<1>7. q \in Seq(Seq(Packets))
  BY <1>6, SeqMonotonic DEF TypeOK
<1>8. f \in Seq(Packets) /\ FlattenSeq(Append(q, part)) = f \o part
  BY <1>4, <1>6, <1>7, FlattenType, FlattenAppend
<1>9. PICK w : w = InHand \o tlsIn
  OBVIOUS
<1>10. w \o (f \o part) = (w \o f) \o part
  <2>1. w \in Seq(Packets) /\ f \in Seq(Packets) /\ part \in Seq(Packets)
    <3>1. tlsIn \in Seq(Packets) /\ InHand \in Seq(Packets)
      BY ArrivedIs DEF TypeOK
    <3>2. w \in Seq(Packets)
      BY <1>9, <3>1, ConcatProperties
    <3> QED
      BY <1>4, <1>8, <3>2
  <2>2. (w \o f) \o part = w \o (f \o part)
    BY <2>1, ConcatAssociative
  <2> QED
    BY <2>2
<1>11. Arrived' = w \o (f \o part)
  <2>1. tcpIn' = Append(q, part) /\ (InHand \o tlsIn)' = w
    BY <1>1, <1>2, <1>6, <1>9 DEF Deliver, held, InHand
  <2> QED
    BY <1>8, <2>1 DEF Arrived
<1>12. Arrived = w \o f
  BY <1>6, <1>9 DEF Arrived
<1>13. fromBroker = part \o rest /\ fromBroker' = rest
  BY <1>1, <1>2, <1>5
<1> QED
  BY <1>4, <1>10, <1>11, <1>12, <1>13

-----------------------------------------------------------------------------
(* The pings.                                                              *)

(* They are counted in three parts.                                        *)
LEMMA PingParts ==
  TypeOK => /\ Count("pingreq", toBroker) \in Nat /\ Count("pingresp", Arrived) \in Nat
            /\ Count("pingresp", fromBroker) \in Nat /\ Spoilt \in {0, 1}
            /\ Pings = Count("pingreq", toBroker) + Count("pingresp", Arrived)
                         + Count("pingresp", fromBroker)
<1> SUFFICES ASSUME TypeOK
             PROVE  /\ Count("pingreq", toBroker) \in Nat /\ Count("pingresp", Arrived) \in Nat
                    /\ Count("pingresp", fromBroker) \in Nat /\ Spoilt \in {0, 1}
                    /\ Pings = Count("pingreq", toBroker) + Count("pingresp", Arrived)
                                 + Count("pingresp", fromBroker)
  OBVIOUS
<1>1. toBroker \in Seq(Control) /\ fromBroker \in Seq(Packets) /\ Arrived \in Seq(Packets)
  BY ArrivedIs DEF TypeOK
<1>2. /\ Count("pingresp", Arrived) \in Nat /\ Count("pingresp", fromBroker) \in Nat
      /\ Count("pingresp", Arrived \o fromBroker)
           = Count("pingresp", Arrived) + Count("pingresp", fromBroker)
  BY <1>1, CountConcat
<1>3. Count("pingreq", toBroker) \in Nat
  BY <1>1, CountConcat
<1>4. Unread = Arrived \o fromBroker
  BY DEF Unread, Arrived
<1> QED
  BY <1>2, <1>3, <1>4 DEF Pings, Spoilt

(* The same after a step.                                                  *)
LEMMA PingPartsThen ==
  TypeOK' => /\ Count("pingreq", toBroker') \in Nat /\ Count("pingresp", Arrived') \in Nat
             /\ Count("pingresp", fromBroker') \in Nat /\ Spoilt' \in {0, 1}
             /\ Pings' = Count("pingreq", toBroker') + Count("pingresp", Arrived')
                          + Count("pingresp", fromBroker')
<1>1. TypeOK' =>
        (/\ Count("pingreq", toBroker) \in Nat /\ Count("pingresp", Arrived) \in Nat
         /\ Count("pingresp", fromBroker) \in Nat /\ Spoilt \in {0, 1}
         /\ Pings = Count("pingreq", toBroker) + Count("pingresp", Arrived)
                      + Count("pingresp", fromBroker))'
  BY PingParts, PTL
<1> QED
  BY <1>1

(* A packet that leaves what has arrived is counted no longer.             *)
LEMMA PingLeaves ==
  ASSUME TypeOK, TypeOK', NEW p \in Packets, Arrived = <<p>> \o Arrived'
  PROVE  Count("pingresp", Arrived)
           = (IF p = "pingresp" THEN 1 ELSE 0) + Count("pingresp", Arrived')
<1>1. PICK a, a2 : a = Arrived /\ a2 = Arrived'
  OBVIOUS
<1>2. a2 \in Seq(Packets) /\ <<p>> \in Seq(Packets) /\ a = <<p>> \o a2
  BY <1>1, ArrivedThen, OneElement
<1>3. Count("pingresp", a) = Count("pingresp", <<p>>) + Count("pingresp", a2)
  BY <1>2, CountConcat
<1> QED
  BY <1>1, <1>3, CountOne

(* The account of a step that the network survives and the session too.    *)
PingKept ==
  /\ link' \in {"none", "tls"} => Pings' + Spoilt' = 0
  /\ link' = "up" => Pings' + Spoilt' = IF pingOutstanding' THEN 1 ELSE 0

(* Steps that change nothing of it.                                        *)
LEMMA PingSame ==
  ASSUME TypeOK, TypeOK', PingInv, net = "open", link' = link, Arrived' = Arrived,
         Count("pingresp", fromBroker') + Count("pingreq", toBroker')
           = Count("pingresp", fromBroker) + Count("pingreq", toBroker),
         UNCHANGED <<pingOutstanding, pingSpoilt>>
  PROVE  PingKept
<1>1. Pings' = Pings
  BY PingParts, PingPartsThen
<1>2. Spoilt' = Spoilt
  BY DEF Spoilt
<1> QED
  BY <1>1, <1>2 DEF PingInv, PingKept

(* connect() keeps the account, ...                                        *)
LEMMA PingConnect ==
  ASSUME TypeOK, TypeOK', PlaceInv, PingInv, Connect, net = "open", link' # "closed"
  PROVE  PingKept
<1> USE DEF broker, history
<1>1. CASE Dial
  <2>1. link = "none" /\ link' \in {"none", "tls"} /\ InHand' = InHand
    BY <1>1 DEF Dial, PlaceInv, InHand
  <2>2. Arrived' = Arrived
    BY <1>1, <2>1, ArrivedSame DEF Dial
  <2>3. Pings' = Pings /\ Spoilt' = Spoilt
    BY <1>1, <2>2, PingParts, PingPartsThen DEF Dial, Spoilt
  <2> QED
    BY <2>1, <2>3 DEF PingInv, PingKept
<1>2. CASE SendConnect
  <2>1. PICK p \in Control : Write(p)
    BY <1>2 DEF SendConnect
  <2>2. p # "pingreq"
    BY <1>2, <2>1 DEF SendConnect, Sending, Write
  <2>3. Count("pingreq", toBroker') = Count("pingreq", toBroker)
    BY <2>1, <2>2, CountWritten, PingParts
  <2>4. InHand' = InHand
    BY <1>2 DEF SendConnect, Sending, InHand
  <2> QED
    BY <1>2, <2>3, <2>4, PingSame, ArrivedSame DEF SendConnect
<1>3. CASE Connack
  <2>1. PICK p \in Packets : ReadPacket(p) /\ Fill(p)
    BY <1>3 DEF Connack
  <2>2. InHand = <<>> /\ InHand' = <<p>>
    BY <1>3, <2>1 DEF Connack, InHand, Fill
  <2>3. Arrived' = Arrived
    BY <2>1, <2>2, ArrivedRead
  <2> QED
    BY <1>3, <2>3, PingSame DEF Connack, timers
<1>4. CASE Accept
  <2>1. /\ link = "tls" /\ link' = "up" /\ pingOutstanding' = FALSE
        /\ InHand = <<buffer>> /\ InHand' = <<>> /\ buffer \in Packets
    BY <1>4 DEF Accept, PlaceInv, InHand, TypeOK
  <2>2. Arrived = <<buffer>> \o Arrived'
    BY <1>4, <2>1, ArrivedHandled DEF Accept
  <2>3. Count("pingresp", Arrived)
          = (IF buffer = "pingresp" THEN 1 ELSE 0) + Count("pingresp", Arrived')
    BY <2>1, <2>2, PingLeaves
  <2>4. Pings + Spoilt = 0
    BY <2>1 DEF PingInv
  <2>5. Spoilt' = Spoilt /\ toBroker' = toBroker /\ fromBroker' = fromBroker
    BY <1>4 DEF Accept, Spoilt
  <2>6. Pings' + Spoilt' = 0
    BY <2>3, <2>4, <2>5, PingParts, PingPartsThen
  <2> QED
    BY <2>1, <2>6 DEF PingKept
<1>5. CASE Refuse \/ ConnackTimeout
  BY <1>5 DEF Refuse, ConnackTimeout, Disconnect
<1>6. CASE SendSubscribe
  <2>1. PICK p \in Control : Write(p)
    BY <1>6 DEF SendSubscribe
  <2>2. p # "pingreq"
    BY <1>6, <2>1 DEF SendSubscribe, Sending, Write
  <2>3. Count("pingreq", toBroker') = Count("pingreq", toBroker)
    BY <2>1, <2>2, CountWritten, PingParts
  <2>4. InHand' = InHand
    BY <1>6 DEF SendSubscribe, Sending, InHand
  <2> QED
    BY <1>6, <2>3, <2>4, PingSame, ArrivedSame DEF SendSubscribe
<1> QED
  BY <1>1, <1>2, <1>3, <1>4, <1>5, <1>6 DEF Connect

(* ... so does loop(), ...                                                 *)
LEMMA PingLoop ==
  ASSUME TypeOK, TypeOK', PlaceInv, PingInv, Loop, net = "open", link' # "closed"
  PROVE  PingKept
<1> USE DEF broker
<1>1. CASE LoopBegin \/ NotExpired \/ NothingAvailable \/ Ping
  <2>1. InHand' = InHand /\ UNCHANGED inbound
    BY <1>1 DEF LoopBegin, NotExpired, NothingAvailable, Ping, InHand
  <2>2. UNCHANGED <<link, fromBroker, toBroker, pingOutstanding, pingSpoilt>>
    BY <1>1 DEF LoopBegin, NotExpired, NothingAvailable, Ping, timers, history
  <2> QED
    BY <2>1, <2>2, PingSame, ArrivedSame
<1>2. CASE SendPing
  <2>1. PICK p \in Control : Write(p) /\ pingSpoilt' = (p # "pingreq")
    BY <1>2 DEF SendPing
  <2>2. link = "up" /\ link' = "up" /\ pingOutstanding = FALSE /\ pingOutstanding' = TRUE
    BY <1>2 DEF SendPing, Sending, PlaceInv, TypeOK
  <2>3. Count("pingreq", toBroker')
          = Count("pingreq", toBroker) + IF p = "pingreq" THEN 1 ELSE 0
    BY <2>1, CountWritten
  <2>4. Arrived' = Arrived /\ fromBroker' = fromBroker
    <3>1. InHand' = InHand
      BY <1>2 DEF SendPing, Sending, InHand
    <3> QED
      BY <1>2, <3>1, ArrivedSame DEF SendPing
  <2>5. Pings + Spoilt = 0
    BY <2>2 DEF PingInv
  <2>6. Spoilt' = IF p = "pingreq" THEN 0 ELSE 1
    BY <2>1 DEF Spoilt
  <2>7. Pings' + Spoilt' = 1
    BY <2>3, <2>4, <2>5, <2>6, PingParts, PingPartsThen
  <2> QED
    BY <2>2, <2>7 DEF PingKept
<1>3. CASE GiveUp
  BY <1>3 DEF GiveUp, Disconnect
<1>4. CASE Receive
  <2>1. PICK p \in Packets :
          /\ ReadPacket(p)
          /\ IF Oversized(p) THEN pc' = "idle" /\ UNCHANGED held
                             ELSE pc' = "dispatch" /\ Fill(p)
    BY <1>4 DEF Receive
  <2>2. UNCHANGED <<link, fromBroker, toBroker, pingOutstanding, pingSpoilt>>
    BY <1>4 DEF Receive, timers, history
  <2>3. CASE Oversized(p)
    <3>1. InHand = <<>> /\ InHand' = <<>>
      BY <1>4, <2>1, <2>3 DEF Receive, InHand
    <3>2. Arrived = <<p>> \o Arrived'
      BY <2>1, <3>1, ArrivedRead
    <3>3. p # "pingresp"
      BY <2>3, MessagesAssumption DEF Oversized, Answer
    <3>4. Count("pingresp", Arrived) = 0 + Count("pingresp", Arrived')
      BY <3>2, <3>3, PingLeaves
    <3>5. Pings' = Pings /\ Spoilt' = Spoilt
      BY <2>2, <3>4, PingParts, PingPartsThen DEF Spoilt
    <3> QED
      BY <2>2, <3>5 DEF PingInv, PingKept
  <2>4. CASE ~Oversized(p)
    <3>1. InHand = <<>> /\ InHand' = <<p>>
      BY <1>4, <2>1, <2>4 DEF Receive, InHand, Fill
    <3>2. Arrived' = Arrived
      BY <2>1, <3>1, ArrivedRead
    <3> QED
      BY <2>2, <3>2, PingSame
  <2> QED
    BY <2>3, <2>4
<1>5. CASE DispatchMessage \/ DispatchAnswer
  <2>1. /\ link = "up" /\ link' = "up" /\ buffer \in Packets
        /\ InHand = <<buffer>> /\ InHand' = <<>> /\ UNCHANGED inbound
    BY <1>5 DEF DispatchMessage, DispatchAnswer, PlaceInv, InHand, TypeOK
  <2>2. Arrived = <<buffer>> \o Arrived'
    BY <2>1, ArrivedHandled
  <2>3. Count("pingresp", Arrived)
          = (IF buffer = "pingresp" THEN 1 ELSE 0) + Count("pingresp", Arrived')
    BY <2>1, <2>2, PingLeaves
  <2>4. Pings + Spoilt = IF pingOutstanding THEN 1 ELSE 0
    BY <2>1 DEF PingInv
  <2>5. toBroker' = toBroker /\ fromBroker' = fromBroker
    BY <1>5 DEF DispatchMessage, DispatchAnswer
  <2>6. /\ Pings \in Nat /\ Pings' \in Nat
        /\ buffer = "pingresp" => Pings = Pings' + 1
        /\ buffer # "pingresp" => Pings = Pings'
    BY <2>3, <2>5, PingParts, PingPartsThen
  <2>7. CASE UNCHANGED <<pingOutstanding, pingSpoilt>> /\ buffer # "pingresp"
    <3>1. Pings' = Pings /\ Spoilt' = Spoilt
      <4>1. Pings' = Pings
        BY <2>6, <2>7
      <4>2. Spoilt' = Spoilt
        BY <2>7 DEF Spoilt
      <4> QED
        BY <4>1, <4>2
    <3> QED
      BY <2>1, <2>4, <2>7, <3>1 DEF PingKept
  <2>8. CASE DispatchAnswer /\ buffer = "pingresp"
    <3>1. pingOutstanding = TRUE /\ Pings' = 0 /\ Spoilt = 0
      <4>1. Spoilt \in {0, 1} /\ Pings = Pings' + 1
        BY <2>6, <2>8, PingParts
      <4>2. pingOutstanding \in BOOLEAN
        BY DEF TypeOK
      <4>3. PICK v : v = IF pingOutstanding THEN 1 ELSE 0
        OBVIOUS
      <4>4. v \in {0, 1} /\ (v = 1 => pingOutstanding = TRUE)
        BY <4>2, <4>3
      <4>5. Pings + Spoilt = v
        BY <2>4, <4>3
      <4>6. v = 1 /\ Pings' = 0 /\ Spoilt = 0
        <5>1. PICK x, y, z : x = Pings /\ y = Spoilt /\ z = Pings'
          OBVIOUS
        <5>2. x = z + 1 /\ z \in Nat /\ (y = 0 \/ y = 1) /\ x + y = v /\ (v = 0 \/ v = 1)
          BY <2>6, <4>1, <4>4, <4>5, <5>1
        <5>3. v = 1 /\ z = 0 /\ y = 0
          BY <5>2
        <5> QED
          BY <5>1, <5>3
      <4> QED
        BY <4>4, <4>6
    <3>2. pingSpoilt = FALSE
      BY <3>1 DEF Spoilt, TypeOK
    <3>3. \/ pingOutstanding' = FALSE /\ pingSpoilt' = FALSE
          \/ pingOutstanding' = TRUE /\ pingSpoilt' = TRUE
      BY <2>8, <3>1, <3>2 DEF DispatchAnswer
    <3> QED
      BY <2>1, <3>1, <3>3 DEF PingKept, Spoilt
  <2>9. CASE DispatchMessage
    <3>1. buffer # "pingresp"
      BY <2>9, MessagesAssumption DEF DispatchMessage, Answer
    <3> QED
      BY <2>7, <2>9, <3>1 DEF DispatchMessage
  <2>10. CASE DispatchAnswer /\ buffer # "pingresp"
    <3>1. UNCHANGED <<pingOutstanding, pingSpoilt>>
      BY <2>10 DEF DispatchAnswer, TypeOK
    <3> QED
      BY <2>7, <2>10, <3>1
  <2> QED
    BY <1>5, <2>8, <2>9, <2>10
<1>6. CASE SendPuback
  <2>1. PICK p \in Control : Write(p)
    BY <1>6 DEF SendPuback
  <2>2. p # "pingreq"
    BY <1>6, <2>1 DEF SendPuback, Sending, Write
  <2>3. Count("pingreq", toBroker') = Count("pingreq", toBroker)
    BY <2>1, <2>2, CountWritten, PingParts
  <2>4. InHand' = InHand
    BY <1>6 DEF SendPuback, Sending, InHand
  <2> QED
    BY <1>6, <2>3, <2>4, PingSame, ArrivedSame DEF SendPuback, history
<1>7. CASE ReceiveCut
  <2>1. CASE Disconnect
    BY <2>1 DEF Disconnect
  <2>2. CASE UNCHANGED <<toBroker, link, held, inbound, lastInActivity, lastOutActivity>>
    <3>1. InHand' = InHand
      BY <1>7 DEF ReceiveCut, InHand
    <3> QED
      BY <1>7, <2>2, <3>1, PingSame, ArrivedSame DEF ReceiveCut, history
  <2> QED
    BY <1>7, <2>1, <2>2 DEF ReceiveCut
<1>8. CASE PollClosed \/ Spin
  <2>1. UNCHANGED vars
    BY <1>8 DEF PollClosed, Spin
  <2>2. InHand' = InHand
    BY <2>1 DEF vars, held, InHand
  <2> QED
    BY <2>1, <2>2, PingSame, ArrivedSame DEF vars, timers, history
<1> QED
  BY <1>1, <1>2, <1>3, <1>4, <1>5, <1>6, <1>7, <1>8 DEF Loop

(* ... and the others.                                                     *)
LEMMA PingNext == TypeOK /\ TypeOK' /\ PlaceInv /\ PingInv /\ [Next]_vars => PingInv'
<1> SUFFICES ASSUME TypeOK, TypeOK', PlaceInv, PingInv, [Next]_vars, net' = "open",
                    link' # "closed"
             PROVE  PingKept
  BY DEF PingInv, PingKept
<1>1. CASE Client
  <2>1. net = "open"
    BY <1>1 DEF Client, Connect, Loop, Dial, SendConnect, Connack, Accept, Refuse,
                SendSubscribe, ConnackTimeout, LoopBegin, PollClosed, Ping, SendPing, GiveUp,
                NotExpired, NothingAvailable, Receive, DispatchMessage, SendPuback,
                DispatchAnswer, ReceiveCut, Spin, vars
  <2> QED
    BY <1>1, <2>1, PingConnect, PingLoop DEF Client
<1>2. CASE MainPublish \/ Tick \/ UNCHANGED vars
  <2>1. /\ InHand' = InHand /\ net = "open"
        /\ UNCHANGED <<link, inbound, fromBroker, toBroker, pingOutstanding, pingSpoilt>>
    BY <1>2 DEF MainPublish, Tick, vars, timers, held, history, broker, InHand
  <2> QED
    BY <2>1, PingSame, ArrivedSame
<1>3. CASE Deliver
  <2>1. PICK part \in Seq(Packets), rest \in Seq(Packets) :
          /\ fromBroker = part \o rest /\ fromBroker' = rest
          /\ Arrived' = Arrived \o part
    BY <1>3, Delivers
  <2>2. /\ Count("pingresp", part \o rest) = Count("pingresp", part) + Count("pingresp", rest)
        /\ Count("pingresp", part) \in Nat /\ Count("pingresp", rest) \in Nat
    BY CountConcat
  <2>3. Count("pingresp", Arrived \o part) = Count("pingresp", Arrived) + Count("pingresp", part)
    BY ArrivedIs, CountConcat
  <2>4. UNCHANGED <<toBroker, link, pingOutstanding, pingSpoilt>> /\ net = "open"
    BY <1>3 DEF Deliver, timers, history
  <2>5. Pings' = Pings
    BY <2>1, <2>2, <2>3, <2>4, PingParts, PingPartsThen
  <2>6. Spoilt' = Spoilt
    BY <2>4 DEF Spoilt
  <2> QED
    BY <2>4, <2>5, <2>6 DEF PingInv, PingKept
<1>4. CASE BrokerReply
  <2>1. PICK reply \in Reply(Head(toBroker)) : fromBroker' = fromBroker \o reply
    BY <1>4 DEF BrokerReply
  <2>2. PICK h : h = Head(toBroker)
    OBVIOUS
  <2>3. /\ Count("pingreq", toBroker') \in Nat
        /\ Count("pingreq", toBroker) = (IF h = "pingreq" THEN 1 ELSE 0) + Count("pingreq", toBroker')
    BY <1>4, <2>2, CountTaken
  <2>4. reply \in Seq(Packets) /\ Count("pingresp", reply) = IF h = "pingreq" THEN 1 ELSE 0
    <3>1. /\ h = "connect" => reply \in {<<"connack">>, <<"refused">>}
          /\ h = "subscribe" => reply = <<"suback">>
          /\ h = "pingreq" => reply = <<"pingresp">>
          /\ h \notin {"connect", "subscribe", "pingreq"} => reply = <<>>
      BY <2>1, <2>2 DEF Reply
    <3>2. \A x \in Answer : <<x>> \in Seq(Packets)
      BY OneElement DEF Packets
    <3>3. \A x \in Answer : Count("pingresp", <<x>>) = IF x = "pingresp" THEN 1 ELSE 0
      BY CountOne
    <3>4. <<>> \in Seq(Packets) /\ Count("pingresp", <<>>) = 0
      BY EmptySeq, CountEmpty
    <3> QED
      BY <3>1, <3>2, <3>3, <3>4 DEF Answer
  <2>5. Count("pingresp", fromBroker \o reply) = Count("pingresp", fromBroker) + Count("pingresp", reply)
    <3>1. fromBroker \in Seq(Packets)
      BY DEF TypeOK
    <3> QED
      BY <2>4, <3>1, CountConcat
  <2>6. InHand' = InHand /\ net = "open"
        /\ UNCHANGED <<link, inbound, pingOutstanding, pingSpoilt>>
    BY <1>4 DEF BrokerReply, timers, held, history, InHand
  <2>7. Count("pingresp", fromBroker') + Count("pingreq", toBroker')
          = Count("pingresp", fromBroker) + Count("pingreq", toBroker)
    BY <2>1, <2>3, <2>4, <2>5, PingParts
  <2> QED
    BY <2>6, <2>7, PingSame, ArrivedSame
<1>5. CASE BrokerPublish
  <2>1. PICK m : m = Messages[published']
    OBVIOUS
  <2>2. m \in Publish
    <3>1. published' \in 1 .. Len(Messages)
      BY <1>5, MessagesAssumption, LenProperties DEF BrokerPublish, TypeOK
    <3> QED
      BY <2>1, <3>1, MessagesAssumption, ElementOfSeq
  <2>3. fromBroker' = fromBroker \o <<m>> /\ <<m>> \in Seq(Packets) /\ fromBroker \in Seq(Packets)
    <3>1. m \in Packets /\ fromBroker \in Seq(Packets) /\ fromBroker' = Append(fromBroker, m)
      BY <1>5, <2>1, <2>2 DEF BrokerPublish, Packets, TypeOK
    <3> QED
      BY <3>1, OneElement, AppendIsConcat
  <2>4. Count("pingresp", fromBroker \o <<m>>)
          = Count("pingresp", fromBroker) + Count("pingresp", <<m>>)
    BY <2>3, CountConcat
  <2>5. Count("pingresp", <<m>>) = 0
    <3>1. m # "pingresp"
      BY <2>2, MessagesAssumption DEF Answer
    <3> QED
      BY <3>1, CountOne
  <2>6. /\ InHand' = InHand /\ net = "open"
        /\ UNCHANGED <<link, inbound, toBroker, pingOutstanding, pingSpoilt>>
    BY <1>5 DEF BrokerPublish, timers, held, history, InHand
  <2>7. Count("pingresp", fromBroker') = Count("pingresp", fromBroker)
    BY <2>3, <2>4, <2>5, PingParts
  <2> QED
    BY <2>6, <2>7, PingSame, ArrivedSame
<1>6. CASE Lose
  BY <1>6 DEF Lose
<1> QED
  BY <1>1, <1>2, <1>3, <1>4, <1>5, <1>6 DEF Next, Network

-----------------------------------------------------------------------------
(* The messages.                                                           *)

(* What loop() is to handle are messages.                                  *)
LEMMA FittingType ==
  ASSUME NEW s \in Seq(Packets)
  PROVE  Only(Fitting, s) \in Seq(Publish)
<1>1. Only(Fitting, s) \in Seq(Packets \cap Fitting) /\ Packets \cap Fitting \subseteq Publish
  BY OnlyType DEF Fitting
<1> QED
  BY <1>1, SeqMonotonic

(* So is what it is to handle of all that was published.                   *)
LEMMA ExpectedType == TypeOK => Expected \in Seq(Publish)
<1> SUFFICES ASSUME TypeOK PROVE Expected \in Seq(Publish)
  OBVIOUS
<1>1. Messages \in Seq(Publish) /\ Len(Messages) \in Nat /\ published \in 0 .. Len(Messages)
  BY MessagesAssumption, LenProperties DEF TypeOK
<1>2. SubSeq(Messages, 1, published) \in Seq(Publish)
  <2>1. \A k \in 1 .. published : Messages[k] \in Publish
    BY <1>1, ElementOfSeq
  <2> QED
    BY <1>1, <2>1, SubSeqProperties
<1>3. SubSeq(Messages, 1, published) \in Seq(Packets)
  BY <1>2, SeqMonotonic DEF Packets
<1> QED
  BY <1>3, FittingType DEF Expected

(* A publication adds the same message to what is under way and to what    *)
(* is to come, or to neither if it does not fit.                           *)
LEMMA Publishes ==
  ASSUME TypeOK, BrokerPublish
  PROVE  \E m \in Publish : /\ m = Messages[published + 1] /\ published' = published + 1
                            /\ fromBroker' = fromBroker \o <<m>>
                            /\ Expected' = Expected \o Only(Fitting, <<m>>)
<1>1. PICK p : p = published
  OBVIOUS
<1>2. /\ Messages \in Seq(Publish) /\ Len(Messages) \in Nat
      /\ p \in 0 .. Len(Messages) - 1 /\ published' = p + 1
  BY <1>1, MessagesAssumption, LenProperties DEF BrokerPublish, TypeOK
<1> DEFINE m == Messages[p + 1]
           s == SubSeq(Messages, 1, p)
<1>3. m \in Publish /\ m \in Packets
  BY <1>2, ElementOfSeq DEF Packets
<1>4. fromBroker' = fromBroker \o <<m>>
  BY <1>2, <1>3, AppendIsConcat DEF BrokerPublish, TypeOK
<1>5. SubSeq(Messages, 1, p + 1) = s \o <<m>>
  <2>1. 1 \in 1 .. Len(Messages) /\ p + 1 \in 1 .. Len(Messages) /\ (p + 1) - 1 = p
    BY <1>2
  <2> QED
    BY <1>2, <2>1, SubSeqRecursiveSecond
<1>6. s \in Seq(Packets) /\ <<m>> \in Seq(Packets)
  <2>1. \A k \in 1 .. p : Messages[k] \in Packets
    BY <1>2, ElementOfSeq DEF Packets
  <2> QED
    BY <1>2, <1>3, <2>1, SubSeqProperties, OneElement
<1>m. m = Messages[published + 1] /\ published' = published + 1
  BY <1>1, <1>2
<1> HIDE DEF m, s
<1>7. Only(Fitting, s \o <<m>>) = Only(Fitting, s) \o Only(Fitting, <<m>>)
  BY <1>6, OnlyConcat
<1>8. Expected = Only(Fitting, s) /\ Expected' = Only(Fitting, s \o <<m>>)
  BY <1>1, <1>2, <1>5 DEF Expected, s
<1> QED
  BY <1>3, <1>4, <1>7, <1>8, <1>m

(* The answers of the broker are none, nor are oversized messages.         *)
LEMMA OnlyOne ==
  ASSUME NEW x
  PROVE  Only(Fitting, <<x>>) = IF x \in Fitting THEN <<x>> ELSE <<>>
<1>1. Only(Fitting, Append(<<>>, x)) = IF x \in Fitting THEN Append(Only(Fitting, <<>>), x)
                                                       ELSE Only(Fitting, <<>>)
  <2>1. <<>> \in Seq({x}) /\ x \in {x}
    BY EmptySeq
  <2> QED
    BY <2>1, OnlyAppend
<1> QED
  BY <1>1, OnlyEmpty

(* Parts of a sequence of packets, grouped otherwise.                      *)
LEMMA RegroupPackets ==
  ASSUME NEW s \in Seq(Packets), NEW r \in Seq(Packets), NEW v \in Seq(Packets)
  PROVE  s \o (r \o v) = (s \o r) \o v
BY ConcatAssociative

(* The same for messages.                                                  *)
LEMMA RegroupMessages ==
  ASSUME NEW s \in Seq(Publish), NEW r \in Seq(Publish), NEW v \in Seq(Publish)
  PROVE  s \o (r \o v) = (s \o r) \o v
BY ConcatAssociative

(* A concatenation is empty only if both parts are.                        *)
LEMMA EmptyParts ==
  ASSUME NEW S, NEW s \in Seq(S), NEW r \in Seq(S), s \o r = <<>>
  PROVE  s = <<>> /\ r = <<>>
<1>1. /\ Len(s) \in Nat /\ Len(r) \in Nat /\ Len(s) + Len(r) = Len(<<>>)
  BY LenProperties, ConcatProperties
<1>2. Len(s) = 0 /\ Len(r) = 0
  BY <1>1, EmptySeq
<1> QED
  BY <1>2, EmptySeq

(* The state of the messages, in the parts it is kept by.                  *)
LEMMA StreamParts ==
  TypeOK =>
    /\ Unread = Arrived \o fromBroker
    /\ Arrived \in Seq(Packets) /\ fromBroker \in Seq(Packets) /\ Unread \in Seq(Packets)
    /\ Only(Fitting, Arrived) \in Seq(Publish) /\ Only(Fitting, fromBroker) \in Seq(Publish)
    /\ Only(Fitting, Unread) = Only(Fitting, Arrived) \o Only(Fitting, fromBroker)
    /\ dispatched \in Seq(Publish) /\ Expected \in Seq(Publish)
<1> SUFFICES ASSUME TypeOK
             PROVE  /\ Unread = Arrived \o fromBroker
                    /\ Arrived \in Seq(Packets) /\ fromBroker \in Seq(Packets)
                    /\ Unread \in Seq(Packets)
                    /\ Only(Fitting, Arrived) \in Seq(Publish)
                    /\ Only(Fitting, fromBroker) \in Seq(Publish)
                    /\ Only(Fitting, Unread)
                         = Only(Fitting, Arrived) \o Only(Fitting, fromBroker)
                    /\ dispatched \in Seq(Publish) /\ Expected \in Seq(Publish)
  OBVIOUS
<1>1. Unread = Arrived \o fromBroker
  BY DEF Unread, Arrived
<1>2. Arrived \in Seq(Packets) /\ fromBroker \in Seq(Packets)
  BY ArrivedIs DEF TypeOK
<1>3. Arrived \o fromBroker \in Seq(Packets)
  BY <1>2, ConcatProperties
<1>4. Only(Fitting, Arrived \o fromBroker) = Only(Fitting, Arrived) \o Only(Fitting, fromBroker)
  BY <1>2, OnlyConcat
<1>5. Only(Fitting, Arrived) \in Seq(Publish) /\ Only(Fitting, fromBroker) \in Seq(Publish)
  BY <1>2, FittingType
<1> QED
  BY <1>1, <1>2, <1>3, <1>4, <1>5, ExpectedType DEF TypeOK

(* The same after a step.                                                  *)
LEMMA StreamPartsThen ==
  TypeOK' =>
    /\ Unread' = Arrived' \o fromBroker'
    /\ Arrived' \in Seq(Packets) /\ fromBroker' \in Seq(Packets) /\ Unread' \in Seq(Packets)
    /\ Only(Fitting, Arrived') \in Seq(Publish) /\ Only(Fitting, fromBroker') \in Seq(Publish)
    /\ Only(Fitting, Unread') = Only(Fitting, Arrived') \o Only(Fitting, fromBroker')
    /\ dispatched' \in Seq(Publish) /\ Expected' \in Seq(Publish)
<1>1. TypeOK' =>
    (/\ Unread = Arrived \o fromBroker
     /\ Arrived \in Seq(Packets) /\ fromBroker \in Seq(Packets) /\ Unread \in Seq(Packets)
     /\ Only(Fitting, Arrived) \in Seq(Publish) /\ Only(Fitting, fromBroker) \in Seq(Publish)
     /\ Only(Fitting, Unread) = Only(Fitting, Arrived) \o Only(Fitting, fromBroker)
     /\ dispatched \in Seq(Publish) /\ Expected \in Seq(Publish))'
  BY StreamParts, PTL
<1> QED
  BY <1>1

(* What a step keeps open was open before, ...                             *)
Opened == net' = "open" /\ link' # "closed" => net = "open" /\ link # "closed"

(* ... and then a step that neither reads nor handles nor publishes keeps  *)
(* the messages together, ...                                              *)
LEMMA StreamSame ==
  ASSUME TypeOK, TypeOK', StreamInv, Opened, Arrived' = Arrived,
         UNCHANGED <<fromBroker, dispatched, published>>
  PROVE  StreamInv'
<1>1. Unread' = Unread
  BY StreamParts, StreamPartsThen
<1>2. Expected' = Expected
  BY DEF Expected
<1> QED
  BY <1>1, <1>2 DEF StreamInv, Opened

(* ... so does one that handles the packet that has arrived first, if it   *)
(* does so exactly with a message that fits, ...                           *)
LEMMA StreamHandled ==
  ASSUME TypeOK, TypeOK', StreamInv, Opened, NEW p \in Packets, Arrived = <<p>> \o Arrived',
         dispatched' = dispatched \o Only(Fitting, <<p>>), UNCHANGED <<fromBroker, published>>
  PROVE  StreamInv'
<1>1. PICK a, a2, u, c, h, v : /\ a = Arrived /\ a2 = Arrived' /\ u = fromBroker /\ c = dispatched
                               /\ h = <<p>> /\ v = Only(Fitting, h)
  OBVIOUS
<1>2. /\ a2 \in Seq(Packets) /\ u \in Seq(Packets) /\ c \in Seq(Publish) /\ h \in Seq(Packets)
      /\ a = h \o a2 /\ v \in Seq(Publish)
  BY <1>1, ArrivedThen, OneElement, FittingType DEF TypeOK
<1>3. PICK w, x : w = Only(Fitting, a2) /\ x = Only(Fitting, u)
  OBVIOUS
<1>4. w \in Seq(Publish) /\ x \in Seq(Publish)
  BY <1>2, <1>3, FittingType
<1>5. Only(Fitting, a) = v \o w
  BY <1>1, <1>2, <1>3, OnlyConcat
<1>6. (c \o v) \o w = c \o (v \o w)
  BY <1>2, <1>4, RegroupMessages
<1>7. (c \o v) \o (w \o x) = c \o ((v \o w) \o x)
  <2>1. w \o x \in Seq(Publish)
    BY <1>4, ConcatProperties
  <2>2. (c \o v) \o (w \o x) = c \o (v \o (w \o x))
    BY <1>2, <2>1, RegroupMessages
  <2>3. v \o (w \o x) = (v \o w) \o x
    BY <1>2, <1>4, RegroupMessages
  <2> QED
    BY <2>2, <2>3
<1>8. Only(Fitting, Unread) = (v \o w) \o x /\ Only(Fitting, Unread') = w \o x
  BY <1>1, <1>3, <1>5, StreamParts, StreamPartsThen
<1>9. Expected' = Expected /\ dispatched' = c \o v
  BY <1>1 DEF Expected
<1> QED
  BY <1>1, <1>3, <1>5, <1>6, <1>7, <1>8, <1>9 DEF StreamInv, Opened

(* ... and a disconnect.                                                   *)
LEMMA StreamGone ==
  ASSUME TypeOK, TypeOK', StreamInv, Disconnect, pc' \notin {"verdict", "dispatch"},
         UNCHANGED <<dispatched, published>>
  PROVE  StreamInv'
<1>1. Arrived' = <<>> /\ Only(Fitting, <<>>) = <<>>
  BY ArrivedGone, OnlyEmpty
<1>2. Expected' = Expected /\ dispatched' = dispatched /\ link' = "closed"
  BY DEF Expected, Disconnect
<1>3. IsPrefix(dispatched, Expected)
  BY StreamParts, PrefixShorter DEF StreamInv
<1>4. dispatched \o <<>> = dispatched
  BY ConcatEmptySeq DEF TypeOK
<1> QED
  BY <1>1, <1>2, <1>3, <1>4 DEF StreamInv

(* connect() keeps the messages together: before the session is up there   *)
(* are none.                                                               *)
LEMMA StreamConnect ==
  ASSUME TypeOK, TypeOK', PlaceInv, NewInv, StreamInv, Connect
  PROVE  StreamInv'
<1> USE DEF broker, history
<1>1. CASE Dial \/ SendConnect \/ SendSubscribe
  <2>1. InHand' = InHand
    BY <1>1 DEF Dial, SendConnect, SendSubscribe, Sending, InHand
  <2>2. Opened /\ UNCHANGED <<inbound, fromBroker, dispatched, published>>
    BY <1>1 DEF Dial, SendConnect, SendSubscribe, Opened, PlaceInv
  <2> QED
    BY <2>1, <2>2, ArrivedSame, StreamSame
<1>2. CASE Connack
  <2>1. PICK p \in Packets : ReadPacket(p) /\ Fill(p)
    BY <1>2 DEF Connack
  <2>2. InHand = <<>> /\ InHand' = <<p>>
    BY <1>2, <2>1 DEF Connack, InHand, Fill
  <2>3. Arrived' = Arrived
    BY <2>1, <2>2, ArrivedRead
  <2>4. Opened /\ UNCHANGED <<fromBroker, dispatched, published>>
    BY <1>2 DEF Connack, Opened
  <2> QED
    BY <2>3, <2>4, StreamSame
<1>3. CASE Accept
  <2>1. /\ link = "tls" /\ InHand = <<buffer>> /\ InHand' = <<>> /\ buffer \in Packets
        /\ UNCHANGED <<inbound, fromBroker, dispatched, published>> /\ Opened
    BY <1>3 DEF Accept, PlaceInv, InHand, TypeOK, Opened
  <2>2. Arrived = <<buffer>> \o Arrived'
    BY <2>1, ArrivedHandled
  <2>3. Expected = <<>>
    <3>1. published = 0
      BY <2>1 DEF NewInv
    <3>2. SubSeq(Messages, 1, 0) = <<>>
      BY SubSeqEmpty
    <3> QED
      BY <3>1, <3>2, OnlyEmpty DEF Expected
  <2>4. Only(Fitting, Arrived) = <<>>
    <3>1. PICK d, f : d = dispatched /\ f = Only(Fitting, Arrived)
      OBVIOUS
    <3>2. d \in Seq(Publish) /\ f \in Seq(Publish) /\ IsPrefix(d \o f, <<>>)
      BY <2>3, <3>1, StreamParts DEF StreamInv
    <3>3. d \o f \in Seq(Publish)
      BY <3>2, ConcatProperties
    <3>4. <<>> \in Seq(Publish)
      BY EmptySeq
    <3>5. PICK rest \in Seq(Publish) : <<>> = (d \o f) \o rest
      BY <3>2, <3>3, <3>4, RestOfPrefix
    <3>6. d \o f = <<>>
      BY <3>3, <3>5, EmptyParts
    <3> QED
      BY <3>1, <3>2, <3>6, EmptyParts
  <2>5. Only(Fitting, <<buffer>>) = <<>>
    <3>1. PICK h, r : h = <<buffer>> /\ r = Arrived'
      OBVIOUS
    <3>2. h \in Seq(Packets) /\ r \in Seq(Packets) /\ Arrived = h \o r
      BY <2>1, <2>2, <3>1, OneElement, ArrivedThen
    <3>3. Only(Fitting, h) \o Only(Fitting, r) = <<>>
      BY <2>4, <3>2, OnlyConcat
    <3>4. Only(Fitting, h) \in Seq(Publish) /\ Only(Fitting, r) \in Seq(Publish)
      BY <3>2, FittingType
    <3> QED
      BY <3>1, <3>3, <3>4, EmptyParts
  <2>6. dispatched' = dispatched \o Only(Fitting, <<buffer>>)
    BY <2>1, <2>5, ConcatEmptySeq DEF TypeOK
  <2> QED
    BY <2>1, <2>2, <2>6, StreamHandled
<1>4. CASE Refuse \/ ConnackTimeout
  BY <1>4, StreamGone DEF Refuse, ConnackTimeout
<1> QED
  BY <1>1, <1>2, <1>3, <1>4 DEF Connect

(* So does loop(), ...                                                     *)
LEMMA StreamLoop ==
  ASSUME TypeOK, TypeOK', PlaceInv, StreamInv, Loop
  PROVE  StreamInv'
<1> USE DEF broker
<1>1. CASE LoopBegin \/ NotExpired \/ NothingAvailable \/ Ping
  <2>1. InHand' = InHand
    BY <1>1 DEF LoopBegin, NotExpired, NothingAvailable, Ping, InHand
  <2>2. Opened /\ UNCHANGED <<inbound, fromBroker, dispatched, published>>
    BY <1>1 DEF LoopBegin, NotExpired, NothingAvailable, Ping, history, Opened
  <2> QED
    BY <2>1, <2>2, ArrivedSame, StreamSame
<1>2. CASE SendPing \/ SendPuback
  <2>1. InHand' = InHand
    BY <1>2 DEF SendPing, SendPuback, Sending, InHand
  <2>2. Opened /\ UNCHANGED <<inbound, fromBroker, dispatched, published>>
    BY <1>2 DEF SendPing, SendPuback, history, Opened
  <2> QED
    BY <2>1, <2>2, ArrivedSame, StreamSame
<1>3. CASE GiveUp
  BY <1>3, StreamGone DEF GiveUp, history
<1>4. CASE Receive
  <2>1. PICK p \in Packets :
          /\ ReadPacket(p)
          /\ IF Oversized(p) THEN pc' = "idle" /\ UNCHANGED held
                             ELSE pc' = "dispatch" /\ Fill(p)
    BY <1>4 DEF Receive
  <2>2. Opened /\ UNCHANGED <<fromBroker, dispatched, published>>
    BY <1>4 DEF Receive, history, Opened
  <2>3. CASE Oversized(p)
    <3>1. InHand = <<>> /\ InHand' = <<>>
      BY <1>4, <2>1, <2>3 DEF Receive, InHand
    <3>2. Arrived = <<p>> \o Arrived'
      BY <2>1, <3>1, ArrivedRead
    <3>3. Only(Fitting, <<p>>) = <<>>
      <4>1. p \notin Fitting
        BY <2>3 DEF Oversized, Fitting
      <4> QED
        BY <4>1, OnlyOne
    <3>4. dispatched' = dispatched \o Only(Fitting, <<p>>)
      BY <2>2, <3>3, ConcatEmptySeq DEF TypeOK
    <3> QED
      BY <2>2, <3>2, <3>4, StreamHandled
  <2>4. CASE ~Oversized(p)
    <3>1. InHand = <<>> /\ InHand' = <<p>>
      BY <1>4, <2>1, <2>4 DEF Receive, InHand, Fill
    <3>2. Arrived' = Arrived
      BY <2>1, <3>1, ArrivedRead
    <3> QED
      BY <2>2, <3>2, StreamSame
  <2> QED
    BY <2>3, <2>4
<1>5. CASE DispatchMessage \/ DispatchAnswer
  <2>1. /\ buffer \in Packets /\ ~Oversized(buffer) /\ InHand = <<buffer>> /\ InHand' = <<>>
        /\ UNCHANGED <<inbound, fromBroker, published>> /\ Opened
    BY <1>5 DEF DispatchMessage, DispatchAnswer, PlaceInv, InHand, TypeOK, Opened
  <2>2. Arrived = <<buffer>> \o Arrived'
    BY <2>1, ArrivedHandled
  <2>3. dispatched' = dispatched \o Only(Fitting, <<buffer>>)
    <3>1. CASE DispatchMessage
      <4>1. buffer \in Fitting /\ buffer \in Publish /\ dispatched' = Append(dispatched, buffer)
        BY <2>1, <3>1 DEF DispatchMessage, Fitting, Oversized
      <4>2. Append(dispatched, buffer) = dispatched \o <<buffer>>
        BY <4>1, AppendIsConcat DEF TypeOK
      <4> QED
        BY <4>1, <4>2, OnlyOne
    <3>2. CASE DispatchAnswer
      <4>1. buffer \notin Fitting /\ dispatched' = dispatched
        BY <3>2 DEF DispatchAnswer, Fitting
      <4>2. dispatched \o <<>> = dispatched
        BY ConcatEmptySeq DEF TypeOK
      <4> QED
        BY <4>1, <4>2, OnlyOne
    <3> QED
      BY <1>5, <3>1, <3>2
  <2> QED
    BY <2>1, <2>2, <2>3, StreamHandled
<1>6. CASE ReceiveCut
  <2>1. CASE Disconnect
    BY <1>6, <2>1, StreamGone DEF ReceiveCut, history
  <2>2. CASE UNCHANGED <<toBroker, link, held, inbound, lastInActivity, lastOutActivity>>
    <3>1. InHand' = InHand
      BY <1>6 DEF ReceiveCut, InHand
    <3>2. Opened /\ UNCHANGED <<inbound, fromBroker, dispatched, published>>
      BY <1>6, <2>2 DEF ReceiveCut, history, Opened
    <3> QED
      BY <3>1, <3>2, ArrivedSame, StreamSame
  <2> QED
    BY <1>6, <2>1, <2>2 DEF ReceiveCut
<1>7. CASE PollClosed \/ Spin
  <2>1. UNCHANGED vars
    BY <1>7 DEF PollClosed, Spin
  <2>2. InHand' = InHand
    BY <2>1 DEF vars, held, InHand
  <2>3. Opened /\ UNCHANGED <<inbound, fromBroker, dispatched, published>>
    BY <2>1 DEF vars, history, Opened
  <2> QED
    BY <2>2, <2>3, ArrivedSame, StreamSame
<1> QED
  BY <1>1, <1>2, <1>3, <1>4, <1>5, <1>6, <1>7 DEF Loop

(* ... and the others.                                                     *)
LEMMA StreamNext ==
  TypeOK /\ TypeOK' /\ PlaceInv /\ NewInv /\ StreamInv /\ [Next]_vars => StreamInv'
<1> SUFFICES ASSUME TypeOK, TypeOK', PlaceInv, NewInv, StreamInv, [Next]_vars
             PROVE  StreamInv'
  OBVIOUS
<1> USE DEF broker, history
<1>1. CASE MainPublish \/ Tick \/ UNCHANGED vars
  <2>1. InHand' = InHand
    BY <1>1 DEF MainPublish, Tick, vars, held, InHand
  <2>2. Opened /\ UNCHANGED <<inbound, fromBroker, dispatched, published>>
    BY <1>1 DEF MainPublish, Tick, vars, Opened
  <2> QED
    BY <2>1, <2>2, ArrivedSame, StreamSame
<1>2. CASE Deliver
  <2>1. PICK part \in Seq(Packets), rest \in Seq(Packets) :
          /\ fromBroker = part \o rest /\ fromBroker' = rest
          /\ Arrived' = Arrived \o part
    BY <1>2, Delivers
  <2>2. net = "open" /\ link # "closed" /\ UNCHANGED <<dispatched, published>>
    BY <1>2 DEF Deliver
  <2>3. Unread' = Unread
    <3>1. Arrived \o (part \o rest) = (Arrived \o part) \o rest
      BY ArrivedIs, RegroupPackets
    <3> QED
      BY <2>1, <3>1, StreamParts, StreamPartsThen
  <2>4. Expected' = Expected /\ dispatched' = dispatched
    BY <2>2 DEF Expected
  <2>5. dispatched \o Only(Fitting, Unread) = Expected
    BY <2>2 DEF StreamInv
  <2>6. IsPrefix(dispatched' \o Only(Fitting, Arrived'), Expected')
    <3>1. PICK d, f, u : d = dispatched' /\ f = Only(Fitting, Arrived')
                         /\ u = Only(Fitting, fromBroker')
      OBVIOUS
    <3>2. /\ d \in Seq(Publish) /\ f \in Seq(Publish) /\ u \in Seq(Publish)
          /\ Only(Fitting, Unread') = f \o u
      BY <3>1, StreamPartsThen
    <3>3. d \o (f \o u) = (d \o f) \o u
      BY <3>2, RegroupMessages
    <3>4. d \o f \in Seq(Publish)
      BY <3>2, ConcatProperties
    <3>5. IsPrefix(d \o f, (d \o f) \o u)
      BY <3>2, <3>4, PrefixOfConcat
    <3> QED
      BY <2>3, <2>4, <2>5, <3>1, <3>2, <3>3, <3>5
  <2> QED
    BY <2>3, <2>4, <2>5, <2>6 DEF StreamInv
<1>3. CASE Lose
  <2>1. InHand' = InHand /\ tlsIn' = tlsIn /\ tcpIn' = tcpIn
    BY <1>3 DEF Lose, held, InHand
  <2>2. Arrived' = Arrived
    BY <2>1 DEF Arrived
  <2>3. dispatched' = dispatched /\ Expected' = Expected /\ net' = "lost"
    BY <1>3 DEF Lose, Expected
  <2> QED
    BY <2>2, <2>3 DEF StreamInv
<1>4. CASE BrokerReply
  <2>1. PICK reply \in Reply(Head(toBroker)) : fromBroker' = fromBroker \o reply
    BY <1>4 DEF BrokerReply
  <2>2. reply \in Seq(Packets) /\ Only(Fitting, reply) = <<>>
    <3>1. reply = <<>> \/ \E x \in Answer : reply = <<x>>
      BY <2>1 DEF Reply, Answer
    <3>2. \A x \in Answer : <<x>> \in Seq(Packets) /\ Only(Fitting, <<x>>) = <<>>
      <4>1. \A x \in Answer : x \in Packets /\ x \notin Fitting
        BY MessagesAssumption DEF Packets, Fitting
      <4> QED
        BY <4>1, OneElement, OnlyOne
    <3>3. <<>> \in Seq(Packets) /\ Only(Fitting, <<>>) = <<>>
      BY EmptySeq, OnlyEmpty
    <3> QED
      BY <3>1, <3>2, <3>3
  <2>3. InHand' = InHand
    BY <1>4 DEF BrokerReply, held, InHand
  <2>4. Opened /\ UNCHANGED <<inbound, dispatched, published>>
    BY <1>4 DEF BrokerReply, Opened
  <2>5. Arrived' = Arrived /\ Expected' = Expected
    BY <2>3, <2>4, ArrivedSame DEF Expected
  <2>6. Only(Fitting, fromBroker') = Only(Fitting, fromBroker)
    <3>1. PICK u : u = fromBroker
      OBVIOUS
    <3>2. u \in Seq(Packets) /\ fromBroker' = u \o reply
      BY <2>1, <3>1 DEF TypeOK
    <3>3. Only(Fitting, u \o reply) = Only(Fitting, u) \o Only(Fitting, reply)
      BY <2>2, <3>2, OnlyConcat
    <3>4. Only(Fitting, u) \in Seq(Publish)
      BY <3>2, FittingType
    <3> QED
      BY <2>2, <3>1, <3>2, <3>3, <3>4, ConcatEmptySeq
  <2>7. Only(Fitting, Unread') = Only(Fitting, Unread)
    BY <2>5, <2>6, StreamParts, StreamPartsThen
  <2> QED
    BY <2>4, <2>5, <2>7 DEF StreamInv, Opened
<1>5. CASE BrokerPublish
  <2>1. PICK m \in Publish : /\ fromBroker' = fromBroker \o <<m>>
                             /\ Expected' = Expected \o Only(Fitting, <<m>>)
    BY <1>5, Publishes
  <2>2. InHand' = InHand
    BY <1>5 DEF BrokerPublish, held, InHand
  <2>3. net = "open" /\ link # "closed" /\ UNCHANGED <<inbound, dispatched>>
    BY <1>5 DEF BrokerPublish
  <2>4. PICK d, e, f, u, h, v : /\ d = dispatched /\ e = Expected /\ f = Only(Fitting, Arrived)
                                /\ u = Only(Fitting, fromBroker) /\ h = <<m>>
                                /\ v = Only(Fitting, h)
    OBVIOUS
  <2>5. /\ d \in Seq(Publish) /\ e \in Seq(Publish) /\ f \in Seq(Publish) /\ u \in Seq(Publish)
        /\ h \in Seq(Packets) /\ v \in Seq(Publish)
    BY <2>4, StreamParts, OneElement, FittingType DEF Packets
  <2>6. Arrived' = Arrived /\ dispatched' = d /\ Expected' = e \o v
    BY <2>1, <2>2, <2>3, <2>4, ArrivedSame
  <2>7. Only(Fitting, fromBroker') = u \o v
    <3>1. PICK b : b = fromBroker
      OBVIOUS
    <3>2. b \in Seq(Packets) /\ fromBroker' = b \o h
      BY <2>1, <2>4, <3>1 DEF TypeOK
    <3>3. Only(Fitting, b \o h) = Only(Fitting, b) \o Only(Fitting, h)
      BY <2>5, <3>2, OnlyConcat
    <3> QED
      BY <2>4, <3>1, <3>2, <3>3
  <2>8. d \o (f \o u) = e
    BY <2>3, <2>4, StreamParts DEF StreamInv
  <2>9. d \o (f \o (u \o v)) = e \o v
    <3>1. f \o (u \o v) = (f \o u) \o v
      BY <2>5, RegroupMessages
    <3>2. f \o u \in Seq(Publish)
      BY <2>5, ConcatProperties
    <3>3. d \o ((f \o u) \o v) = (d \o (f \o u)) \o v
      BY <2>5, <3>2, RegroupMessages
    <3> QED
      BY <2>8, <3>1, <3>3
  <2>10. IsPrefix(d \o f, e \o v)
    <3>1. d \o f \in Seq(Publish) /\ IsPrefix(d \o f, e)
      BY <2>4, <2>5, ConcatProperties DEF StreamInv
    <3> QED
      BY <2>5, <3>1, PrefixLonger
  <2> QED
    BY <2>4, <2>6, <2>7, <2>9, <2>10, StreamPartsThen DEF StreamInv
<1> QED
  BY <1>1, <1>2, <1>3, <1>4, <1>5, StreamConnect, StreamLoop DEF Next, Client, Network

-----------------------------------------------------------------------------
(* What callback() gets.                                                   *)

(* Of two sets that agree on the elements of a sequence the same is kept.  *)
LEMMA OnlyAgrees ==
  ASSUME NEW T, NEW s \in Seq(T), NEW R, NEW V, \A x \in T : x \in R <=> x \in V
  PROVE  Only(R, s) = Only(V, s)
<1> DEFINE Q == {r \in Seq(T) : Only(R, r) = Only(V, r)}
<1>1. <<>> \in Q
  BY OnlyEmpty, EmptySeq
<1>2. ASSUME NEW r \in Seq(T), NEW x \in T, r \in Q PROVE Append(r, x) \in Q
  <2>1. Append(r, x) \in Seq(T)
    BY AppendProperties
  <2>2. Only(R, Append(r, x)) = IF x \in R THEN Append(Only(R, r), x) ELSE Only(R, r)
    BY OnlyAppend
  <2>3. Only(V, Append(r, x)) = IF x \in V THEN Append(Only(V, r), x) ELSE Only(V, r)
    BY OnlyAppend
  <2>4. x \in R <=> x \in V
    OBVIOUS
  <2>5. Only(R, r) = Only(V, r)
    BY <1>2
  <2>6. Only(R, Append(r, x)) = Only(V, Append(r, x))
    BY <2>2, <2>3, <2>4, <2>5
  <2> QED
    BY <2>1, <2>6
<1> HIDE DEF Q
<1>3. Seq(T) \subseteq Q
  BY <1>1, <1>2, SeqInduction
<1> QED
  BY <1>3 DEF Q

(* Every step keeps the messages to be handled different.                  *)
LEMMA OnceNext == TypeOK /\ TypeOK' /\ OnceInv /\ [Next]_vars => OnceInv'
<1> SUFFICES ASSUME TypeOK, TypeOK', OnceInv, [Next]_vars PROVE OnceInv'
  OBVIOUS
<1>1. CASE published' = published
  <2>1. Expected' = Expected
    BY <1>1 DEF Expected
  <2> QED
    BY <1>1, <2>1 DEF OnceInv
<1>2. CASE BrokerPublish
  <2>1. PICK m \in Publish : /\ m = Messages[published + 1] /\ published' = published + 1
                             /\ Expected' = Expected \o Only(Fitting, <<m>>)
    BY <1>2, Publishes
  <2>2. /\ published \in Nat /\ published + 1 \in 1 .. Len(Messages)
        /\ 1 .. Len(Messages) = DOMAIN Messages
    <3>1. Messages \in Seq(Publish) /\ Len(Messages) \in Nat
      BY MessagesAssumption, LenProperties
    <3>2. published \in 0 .. Len(Messages) /\ published < Len(Messages)
      BY <1>2 DEF TypeOK, BrokerPublish
    <3> QED
      BY <3>1, <3>2, LenProperties
  <2>3. PICK e, e2, p : e = Expected /\ e2 = Expected' /\ p = published
    OBVIOUS
  <2>4. e \in Seq(Publish) /\ Len(e) \in Nat
    BY <2>3, ExpectedType, LenProperties
  <2>5. /\ \A k \in 1 .. Len(e) : \E n \in 1 .. p : e[k] = Messages[n]
        /\ \A k, n \in 1 .. Len(e) : e[k] = e[n] => k = n
    BY <2>3 DEF OnceInv
  <2>6. CASE m \notin Fitting
    <3>1. e2 = e
      BY <2>1, <2>3, <2>4, <2>6, OnlyOne, ConcatEmptySeq
    <3> QED
      <4>1. \A k \in 1 .. Len(e) : \E n \in 1 .. p + 1 : e[k] = Messages[n]
        <5>1. \A n \in 1 .. p : n \in 1 .. p + 1
          BY <2>2, <2>3
        <5> QED
          BY <2>5, <5>1
      <4>2. published' = p + 1 /\ Expected' = e
        BY <2>1, <2>3, <3>1
      <4> QED
        BY <2>5, <4>1, <4>2 DEF OnceInv
  <2>7. CASE m \in Fitting
    <3>1. e2 = Append(e, m)
      BY <2>1, <2>3, <2>4, <2>7, OnlyOne, AppendIsConcat
    <3>2. /\ Len(e2) = Len(e) + 1 /\ e2[Len(e) + 1] = m
          /\ \A k \in 1 .. Len(e) : e2[k] = e[k]
      BY <2>4, <3>1, AppendProperties
    <3>3. \A k \in 1 .. Len(e) : e[k] # m
      <4> SUFFICES ASSUME NEW k \in 1 .. Len(e), e[k] = m PROVE FALSE
        OBVIOUS
      <4>1. PICK n \in 1 .. p : e[k] = Messages[n]
        BY <2>5
      <4>2. n \in 1 .. Len(Messages) /\ n # p + 1
        BY <2>2, <2>3, <4>1
      <4>3. Messages[n] = Messages[p + 1]
        BY <2>1, <2>3, <4>1
      <4>4. \A k1, k2 \in DOMAIN Messages : Messages[k1] = Messages[k2] => k1 = k2
        BY MessagesAssumption DEF IsInjective
      <4> QED
        BY <2>2, <2>3, <4>2, <4>3, <4>4
    <3>4. \A k \in 1 .. Len(e2) : \E n \in 1 .. p + 1 : e2[k] = Messages[n]
      <4> SUFFICES ASSUME NEW k \in 1 .. Len(e2)
                   PROVE  \E n \in 1 .. p + 1 : e2[k] = Messages[n]
        OBVIOUS
      <4>1. CASE k = Len(e) + 1
        <5>1. e2[k] = Messages[p + 1] /\ p + 1 \in 1 .. p + 1
          BY <2>1, <2>2, <2>3, <3>2, <4>1
        <5> QED
          BY <5>1
      <4>2. CASE k # Len(e) + 1
        <5>1. k \in 1 .. Len(e)
          BY <2>4, <3>2, <4>2
        <5>2. PICK n \in 1 .. p : e[k] = Messages[n]
          BY <2>5, <5>1
        <5>3. n \in 1 .. p + 1 /\ e2[k] = Messages[n]
          BY <2>2, <2>3, <3>2, <5>1, <5>2
        <5> QED
          BY <5>3
      <4> QED
        BY <4>1, <4>2
    <3>5. \A k, n \in 1 .. Len(e2) : e2[k] = e2[n] => k = n
      BY <2>4, <2>5, <3>2, <3>3
    <3> QED
      BY <2>1, <2>3, <3>4, <3>5 DEF OnceInv
  <2> QED
    BY <2>6, <2>7
<1>3. Next /\ ~BrokerPublish => published' = published
  BY DEF Next, Client, Connect, Loop, Network, Dial, SendConnect, Connack, Accept, Refuse,
         SendSubscribe, ConnackTimeout, LoopBegin, PollClosed, Ping, SendPing, GiveUp,
         NotExpired, NothingAvailable, Receive, DispatchMessage, SendPuback, DispatchAnswer,
         ReceiveCut, Spin, MainPublish, Tick, Deliver, Lose, BrokerReply, broker, vars
<1>4. CASE UNCHANGED vars
  BY <1>1, <1>4 DEF vars, broker
<1> QED
  BY <1>1, <1>2, <1>3, <1>4

(* A message that comes to be handled was not handled before.              *)
LEMMA HandledOnce ==
  ASSUME TypeOK, PlaceInv, StreamInv, OnceInv, DispatchMessage
  PROVE  \A k \in 1 .. Len(dispatched) : dispatched[k] # buffer
<1>1. PICK d, e, h, r : /\ d = dispatched /\ e = Expected /\ h = <<buffer>> /\ r = Stored
  OBVIOUS
<1>2. buffer \in Publish /\ buffer \in Fitting /\ InHand = h /\ buffer \in Packets
  BY <1>1 DEF DispatchMessage, PlaceInv, Oversized, Fitting, InHand, TypeOK
<1>3. /\ d \in Seq(Publish) /\ e \in Seq(Publish) /\ h \in Seq(Publish) /\ h \in Seq(Packets)
      /\ r \in Seq(Packets) /\ Arrived = h \o r
  BY <1>1, <1>2, ArrivedIs, StreamParts, OneElement
<1>4. PICK w : w = Only(Fitting, r)
  OBVIOUS
<1>5. w \in Seq(Publish) /\ Only(Fitting, Arrived) = h \o w
  <2>1. Only(Fitting, h \o r) = Only(Fitting, h) \o Only(Fitting, r)
    BY <1>3, OnlyConcat
  <2>2. Only(Fitting, h) = h
    BY <1>1, <1>2, OnlyOne
  <2> QED
    BY <1>3, <1>4, <2>1, <2>2, FittingType
<1>6. d \o (h \o w) = (d \o h) \o w /\ d \o h = Append(d, buffer)
  BY <1>1, <1>2, <1>3, <1>5, RegroupMessages, AppendIsConcat
<1>7. PICK c : c = Append(d, buffer)
  OBVIOUS
<1>8. /\ c \in Seq(Publish) /\ Len(c) = Len(d) + 1 /\ c[Len(d) + 1] = buffer
      /\ \A k \in 1 .. Len(d) : c[k] = d[k]
  BY <1>2, <1>3, <1>7, AppendProperties
<1>9. IsPrefix(c, e)
  <2>1. IsPrefix(c \o w, e)
    BY <1>1, <1>5, <1>6, <1>7 DEF StreamInv
  <2> QED
    BY <1>3, <1>5, <1>8, <2>1, PrefixShorter
<1>10. PICK rest \in Seq(Publish) : e = c \o rest
  BY <1>3, <1>8, <1>9, RestOfPrefix
<1>11. Len(d) \in Nat /\ Len(rest) \in Nat
  BY <1>3, LenProperties
<1>12. /\ Len(e) = Len(c) + Len(rest)
       /\ \A k \in 1 .. Len(c) : e[k] = c[k]
  <2>1. /\ Len(e) = Len(c) + Len(rest)
        /\ \A k \in 1 .. Len(c) + Len(rest) :
             e[k] = IF k <= Len(c) THEN c[k] ELSE rest[k - Len(c)]
    <3>1. c \in Seq(Publish) /\ rest \in Seq(Publish)
      BY <1>8
    <3>2. /\ Len(c \o rest) = Len(c) + Len(rest)
          /\ \A k \in 1 .. Len(c) + Len(rest) :
               (c \o rest)[k] = IF k <= Len(c) THEN c[k] ELSE rest[k - Len(c)]
      BY <3>1, ConcatProperties
    <3> QED
      BY <1>10, <3>2
  <2>2. \A k \in 1 .. Len(c) : k \in 1 .. Len(c) + Len(rest) /\ k <= Len(c)
    BY <1>8, <1>11
  <2> QED
    BY <2>1, <2>2
<1> SUFFICES ASSUME NEW k \in 1 .. Len(d), d[k] = buffer PROVE FALSE
  BY <1>1
<1>13. k \in 1 .. Len(c) /\ Len(d) + 1 \in 1 .. Len(c) /\ k # Len(d) + 1
  BY <1>8, <1>11
<1>14. e[k] = e[Len(d) + 1] /\ k \in 1 .. Len(e) /\ Len(d) + 1 \in 1 .. Len(e)
  BY <1>8, <1>11, <1>12, <1>13
<1> QED
  BY <1>1, <1>13, <1>14 DEF OnceInv

(* Every step keeps callback() to what was handled as it came.             *)
LEMMA CallbackNext ==
  TypeOK /\ PlaceInv /\ StreamInv /\ OnceInv /\ CallbackInv /\ [Next]_vars => CallbackInv'
<1> SUFFICES ASSUME TypeOK, PlaceInv, StreamInv, OnceInv, CallbackInv, [Next]_vars
             PROVE  CallbackInv'
  OBVIOUS
<1>1. CASE DispatchMessage
  <2>1. PICK d, c, m : d = dispatched /\ c = callbacks /\ m = buffer
    OBVIOUS
  <2>2. m \in Publish /\ d \in Seq(Publish) /\ dispatched' = Append(d, m) /\ Len(d) \in Nat
    BY <1>1, <2>1, LenProperties DEF DispatchMessage, TypeOK
  <2>3. /\ Len(Append(d, m)) = Len(d) + 1 /\ Append(d, m)[Len(d) + 1] = m
        /\ \A k \in 1 .. Len(d) : Append(d, m)[k] = d[k]
    BY <2>2, AppendProperties
  <2>4. \A k \in 1 .. Len(d) : d[k] # m
    BY <1>1, <2>1, HandledOnce
  <2>5. \A x \in spoilt' : \E k \in 1 .. Len(dispatched') : x = dispatched'[k]
    <3> SUFFICES ASSUME NEW x \in spoilt'
                 PROVE  \E k \in 1 .. Len(dispatched') : x = dispatched'[k]
      OBVIOUS
    <3>1. x \in spoilt \/ x = m
      BY <1>1, <2>1 DEF DispatchMessage
    <3>2. CASE x \in spoilt
      <4>1. PICK k \in 1 .. Len(d) : x = d[k]
        BY <2>1, <3>2 DEF CallbackInv
      <4>2. k \in 1 .. Len(dispatched') /\ x = dispatched'[k]
        BY <2>2, <2>3, <4>1
      <4> QED
        BY <4>2
    <3>3. CASE x = m
      <4>1. Len(d) + 1 \in 1 .. Len(dispatched') /\ x = dispatched'[Len(d) + 1]
        BY <2>2, <2>3, <3>3
      <4> QED
        BY <4>1
    <3> QED
      BY <3>1, <3>2, <3>3
  <2>6. Only(Publish \ spoilt', Append(d, m))
          = IF m \in Publish \ spoilt' THEN Append(Only(Publish \ spoilt', d), m)
                                       ELSE Only(Publish \ spoilt', d)
    BY <2>2, OnlyAppend
  <2>7. Only(Publish \ spoilt', d) = c
    <3>1. d \in Seq(Publish \ {m})
      <4>1. \A k \in 1 .. Len(d) : d[k] \in Publish \ {m}
        BY <2>2, <2>4, ElementOfSeq
      <4>2. d = [k \in 1 .. Len(d) |-> d[k]]
        BY <2>2, LenProperties
      <4> QED
        BY <2>2, <4>1, <4>2
    <3>2. \A x \in Publish \ {m} : x \in Publish \ spoilt' <=> x \in Publish \ spoilt
      BY <1>1, <2>1 DEF DispatchMessage
    <3>3. Only(Publish \ spoilt', d) = Only(Publish \ spoilt, d)
      BY <3>1, <3>2, OnlyAgrees
    <3> QED
      BY <2>1, <3>3 DEF CallbackInv
  <2>8. m \notin spoilt
    <3>1. m \in spoilt => \E k \in 1 .. Len(d) : m = d[k]
      BY <2>1 DEF CallbackInv
    <3> QED
      BY <2>4, <3>1
  <2>9. callbacks' = Only(Publish \ spoilt', dispatched')
    <3>1. CASE callbacks' = Append(callbacks, buffer) /\ spoilt' = spoilt
      BY <2>1, <2>2, <2>6, <2>7, <2>8, <3>1
    <3>2. CASE callbacks' = callbacks /\ spoilt' = spoilt \cup {buffer}
      BY <2>1, <2>2, <2>6, <2>7, <3>2
    <3> QED
      BY <1>1, <3>1, <3>2 DEF DispatchMessage
  <2> QED
    BY <2>5, <2>9 DEF CallbackInv
<1>2. CASE UNCHANGED <<dispatched, callbacks, spoilt>>
  BY <1>2 DEF CallbackInv
<1>3. Client /\ ~DispatchMessage => UNCHANGED <<dispatched, callbacks, spoilt>>
  BY DEF Client, Connect, Loop, Dial, SendConnect, Connack, Accept, Refuse,
         SendSubscribe, ConnackTimeout, LoopBegin, PollClosed, Ping, SendPing, GiveUp,
         NotExpired, NothingAvailable, Receive, SendPuback, DispatchAnswer,
         ReceiveCut, Spin, history, vars
<1>4. Network \/ MainPublish \/ Tick \/ UNCHANGED vars =>
        UNCHANGED <<dispatched, callbacks, spoilt>>
  BY DEF Network, MainPublish, Tick, Deliver, Lose, BrokerReply, BrokerPublish, history, vars
<1> QED
  BY <1>1, <1>2, <1>3, <1>4 DEF Next

-----------------------------------------------------------------------------
(* What the client promises.                                               *)

\* The invariant holds before the connection.
LEMMA ClientInit == Init => ClientInv
<1> SUFFICES ASSUME Init PROVE ClientInv
  OBVIOUS
<1>1. Arrived = <<>> /\ Unread = <<>>
  <2>1. <<>> \o <<>> = <<>>
    BY EmptySeq, ConcatEmptySeq
  <2>2. InHand = <<>> /\ tlsIn = <<>> /\ tcpIn = <<>> /\ fromBroker = <<>>
    BY DEF Init, InHand
  <2> QED
    BY <2>1, <2>2, FlattenEmpty DEF Arrived, Unread
<1>2. PingInv /\ NewInv
  BY <1>1, CountEmpty DEF Init, PingInv, NewInv, Pings, Spoilt
<1>3. Expected = <<>> /\ Len(<<>>) = 0
  <2>1. SubSeq(Messages, 1, 0) = <<>>
    BY SubSeqEmpty
  <2> QED
    BY <2>1, OnlyEmpty, EmptySeq DEF Init, Expected
<1>4. StreamInv
  <2>1. dispatched \o Only(Fitting, <<>>) = <<>>
    BY EmptySeq, ConcatEmptySeq, OnlyEmpty DEF Init
  <2>2. IsPrefix(<<>>, <<>> \o <<>>) /\ <<>> \o <<>> = <<>>
    BY EmptySeq, ConcatEmptySeq, PrefixOfConcat
  <2> QED
    BY <1>1, <1>3, <2>1, <2>2 DEF StreamInv
<1>5. OnceInv
  BY <1>3 DEF OnceInv
<1>6. CallbackInv
  BY OnlyEmpty DEF Init, CallbackInv
<1>7. PlaceInv
  BY DEF Init, PlaceInv
<1> QED
  BY <1>2, <1>4, <1>5, <1>6, <1>7, TypeInit DEF ClientInv

\* Every step of client, main thread, clock, network and broker keeps it.
LEMMA ClientNext == ClientInv /\ [Next]_vars => ClientInv'
BY TypeNext, PlaceNext, NewNext, PingNext, StreamNext, OnceNext, CallbackNext DEF ClientInv

\* So it holds throughout.
LEMMA ClientAlways == Spec => []ClientInv
BY ClientInit, ClientNext, PTL DEF Spec

(* The client's state is what its code takes it for: every reading of the  *)
(* clock is one of millis(), a record in the socket is never empty, and    *)
(* callback() gets messages only.                                          *)
THEOREM ClientTypes == Spec => []TypeOK
<1>1. ClientInv => TypeOK
  BY DEF ClientInv
<1> QED
  BY <1>1, ClientAlways, PTL

(* What pingOutstanding stands for, for any messages, clock and keep-alive *)
(* and however client, main thread, broker and network interleave: while   *)
(* the session is up and the network open it is set exactly when one ping  *)
(* or answer is under way, or one was lost to a publication written over   *)
(* it in the client's buffer.                                              *)
THEOREM PingsKnown == Spec => []PingAccounted
<1>1. ClientInv => PingAccounted
  BY DEF ClientInv, PingInv, PingAccounted, Pings, Spoilt
<1> QED
  BY <1>1, ClientAlways, PTL

(* Every message that is not oversized comes to be handled once and in     *)
(* order, although available() does not see what the TLS layer holds and   *)
(* the main thread writes over the buffer: as long as the session is up on *)
(* an open network, what was handled and what is still on its way are      *)
(* together all that was published.  callback() gets what was handled, but *)
(* for the messages that a publication was written over.                   *)
THEOREM MessagesInOrder == Spec => []InOrder
<1>1. ClientInv => InOrder
  <2> SUFFICES ASSUME ClientInv PROVE InOrder
    OBVIOUS
  <2>1. TypeOK /\ StreamInv /\ CallbackInv
    BY DEF ClientInv
  <2>2. IsPrefix(dispatched, Expected)
    BY <2>1, StreamParts, PrefixShorter DEF StreamInv
  <2>3. net = "open" /\ link = "up" => dispatched \o Only(Fitting, Unread) = Expected
    BY <2>1 DEF StreamInv
  <2>4. callbacks = Only(Publish \ spoilt, dispatched)
    BY <2>1 DEF CallbackInv
  <2> QED
    BY <2>2, <2>3, <2>4 DEF InOrder
<1> QED
  BY <1>1, ClientAlways, PTL

-----------------------------------------------------------------------------
(***************************************************************************)
(* The keep-alive.  loop() compares unsigned differences of readings of a  *)
(* clock that wraps, one of them taken before the comparison (t).          *)
(***************************************************************************)

(* What the server thread last got from the broker is no younger than the  *)
(* reading that loop() works with.                                         *)
TimerInv == pc \in {"timers", "receive"} => Elapsed(now, t) <= Elapsed(now, lastInActivity)

(* loop() ends a session with a reason, or lastOutActivity was stored by   *)
(* the main thread after loop() had read the clock: that it is younger     *)
(* than t is the only thing that can make the difference a wrong one.      *)
GiveUpExplained ==
  [][GiveUp => \/ Elapsed(now, lastInActivity) > KeepAlive
               \/ Elapsed(now, lastOutActivity) > KeepAlive
               \/ Elapsed(now, lastOutActivity) < Elapsed(now, t)]_vars

\* The unsigned difference of two readings.
LEMMA ElapsedIs ==
  ASSUME NEW a \in Clock, NEW b \in Clock
  PROVE  /\ Elapsed(a, b) = IF a >= b THEN a - b ELSE a + ClockSize - b
         /\ Elapsed(a, b) \in Clock
<1>1. ClockSize \in Nat \ {0} /\ a \in 0 .. ClockSize - 1 /\ b \in 0 .. ClockSize - 1
  BY ClockAssumption DEF Clock
<1> DEFINE x == a + ClockSize - b
<1>2. x \in Nat /\ x < ClockSize + ClockSize
  BY <1>1
<1>3. CASE a >= b
  <2>1. x % ClockSize = x - ClockSize
    <3>1. ClockSize <= x
      BY <1>1, <1>3
    <3> HIDE DEF x
    <3> QED
      BY <1>1, <1>2, <3>1
  <2> QED
    BY <1>1, <1>3, <2>1 DEF Elapsed, Clock
<1>4. CASE a < b
  <2>1. x % ClockSize = x
    <3>1. x < ClockSize
      BY <1>1, <1>4
    <3> HIDE DEF x
    <3> QED
      BY <1>1, <1>2, <3>1
  <2> QED
    BY <1>1, <1>4, <2>1 DEF Elapsed, Clock
<1> QED
  BY <1>1, <1>3, <1>4

(* A tick makes what is not too long ago one tick longer ago, also when    *)
(* the clock wraps.                                                        *)
LEMMA ElapsedTick ==
  ASSUME NEW a \in Clock, NEW b \in Clock, Elapsed(a, b) < MaxAge
  PROVE  /\ (a + 1) % ClockSize \in Clock
         /\ Elapsed((a + 1) % ClockSize, b) = Elapsed(a, b) + 1
<1>1. /\ ClockSize \in Nat \ {0} /\ a \in 0 .. ClockSize - 1 /\ b \in 0 .. ClockSize - 1
      /\ MaxAge \in Nat /\ MaxAge < ClockSize
  BY ClockAssumption DEF Clock
<1> DEFINE c == (a + 1) % ClockSize
<1>2. c = IF a + 1 < ClockSize THEN a + 1 ELSE 0
  <2>1. CASE a + 1 < ClockSize
    BY <1>1, <2>1
  <2>2. CASE a + 1 = ClockSize
    BY <1>1, <2>2
  <2> QED
    BY <1>1, <2>1, <2>2
<1> HIDE DEF c
<1>3. c \in Clock
  BY <1>1, <1>2 DEF Clock
<1>4. /\ Elapsed(a, b) = IF a >= b THEN a - b ELSE a + ClockSize - b
      /\ Elapsed(c, b) = IF c >= b THEN c - b ELSE c + ClockSize - b
  BY <1>3, ElapsedIs
<1>5. Elapsed(c, b) = Elapsed(a, b) + 1
  BY <1>1, <1>2, <1>4
<1> QED
  BY <1>3, <1>5 DEF c

\* The time between two readings, seen from a third that is later than both.
LEMMA ElapsedBetween ==
  ASSUME NEW a \in Clock, NEW b \in Clock, NEW c \in Clock, Elapsed(a, b) <= Elapsed(a, c)
  PROVE  Elapsed(b, c) = Elapsed(a, c) - Elapsed(a, b)
<1>1. /\ ClockSize \in Nat \ {0}
      /\ a \in 0 .. ClockSize - 1 /\ b \in 0 .. ClockSize - 1 /\ c \in 0 .. ClockSize - 1
  BY ClockAssumption DEF Clock
<1>2. /\ Elapsed(a, b) = IF a >= b THEN a - b ELSE a + ClockSize - b
      /\ Elapsed(a, c) = IF a >= c THEN a - c ELSE a + ClockSize - c
      /\ Elapsed(b, c) = IF b >= c THEN b - c ELSE b + ClockSize - c
  BY ElapsedIs
<1> QED
  BY <1>1, <1>2

\* Every step keeps the reading no older than what was last received.
LEMMA TimerNext == TypeOK /\ TypeOK' /\ TimerInv /\ [Next]_vars => TimerInv'
<1> SUFFICES ASSUME TypeOK, TypeOK', TimerInv, [Next]_vars, pc' \in {"timers", "receive"}
             PROVE  Elapsed(now', t') <= Elapsed(now', lastInActivity')
  BY DEF TimerInv
<1>a. /\ now \in Clock /\ t \in Clock /\ lastInActivity \in Clock
      /\ now' \in Clock /\ t' \in Clock /\ lastInActivity' \in Clock
  BY DEF TypeOK
<1>b. \A a, b \in Clock : Elapsed(a, b) \in Clock
  BY ElapsedIs
<1>c. Clock \subseteq Nat
  BY ClockAssumption DEF Clock
<1>1. CASE LoopBegin
  <2>1. now' = now /\ t' = now
    BY <1>1 DEF LoopBegin
  <2>2. Elapsed(now, now) = 0
    BY <1>a, <1>c, ElapsedIs
  <2>3. Elapsed(now, lastInActivity') \in Nat
    BY <1>a, <1>b, <1>c
  <2> QED
    BY <2>1, <2>2, <2>3
<1>2. CASE SendPing
  <2>1. now' = now /\ t' = t /\ lastInActivity' = t
    BY <1>2 DEF SendPing
  <2>2. Elapsed(now, t) \in Nat
    BY <1>a, <1>b, <1>c
  <2> QED
    BY <2>1, <2>2
<1>3. CASE Tick
  <2>1. /\ Elapsed(now, lastInActivity) < MaxAge /\ pc' = pc
        /\ now' = (now + 1) % ClockSize /\ t' = t /\ lastInActivity' = lastInActivity
    BY <1>3 DEF Tick, timers
  <2>2. Elapsed(now, t) <= Elapsed(now, lastInActivity)
    BY <2>1 DEF TimerInv
  <2>3. Elapsed(now, t) \in Nat /\ Elapsed(now, lastInActivity) \in Nat /\ MaxAge \in Nat
    BY <1>a, <1>b, <1>c, ClockAssumption
  <2>4. Elapsed(now', lastInActivity) = Elapsed(now, lastInActivity) + 1
    BY <1>a, <2>1, ElapsedTick
  <2>5. Elapsed(now', t) = Elapsed(now, t) + 1
    BY <1>a, <2>1, <2>2, <2>3, ElapsedTick
  <2> QED
    BY <2>1, <2>2, <2>3, <2>4, <2>5
<1>4. CASE UNCHANGED <<pc, now, t, lastInActivity>>
  BY <1>4 DEF TimerInv
<1>5. ~(Connect \/ Ping \/ GiveUp \/ NothingAvailable \/ Receive \/ DispatchMessage
          \/ SendPuback \/ DispatchAnswer \/ ReceiveCut)
  BY DEF Connect, Dial, SendConnect, Connack, Accept, Refuse, SendSubscribe, ConnackTimeout,
         Ping, GiveUp, NothingAvailable, Receive, DispatchMessage, SendPuback, DispatchAnswer,
         ReceiveCut
<1>6. CASE NotExpired
  <2>1. pc = "timers" /\ now' = now /\ t' = t /\ lastInActivity' = lastInActivity
    BY <1>6 DEF NotExpired, timers
  <2> QED
    BY <2>1 DEF TimerInv
<1>7. CASE MainPublish \/ Deliver \/ Lose \/ BrokerReply \/ BrokerPublish \/ UNCHANGED vars
  BY <1>4, <1>7 DEF MainPublish, Deliver, Lose, BrokerReply, BrokerPublish, vars, timers
<1> QED
  BY <1>1, <1>2, <1>3, <1>5, <1>6, <1>7 DEF Next, Client, Loop, Network, PollClosed, Spin

(* The keep-alive errs in one way only.  The unsigned differences are      *)
(* right over every wrap of the clock; a session that loop() gives up      *)
(* without an interval of silence is one whose lastOutActivity the main    *)
(* thread has stored between loop()'s reading of the clock and its use.    *)
THEOREM GivesUpWithReason == Spec => GiveUpExplained
<1>1. Init => TimerInv
  BY DEF Init, TimerInv
<1>2. TypeOK /\ TimerInv /\ [Next]_vars =>
        [GiveUp => \/ Elapsed(now, lastInActivity) > KeepAlive
                   \/ Elapsed(now, lastOutActivity) > KeepAlive
                   \/ Elapsed(now, lastOutActivity) < Elapsed(now, t)]_vars
  <2> SUFFICES ASSUME TypeOK, TimerInv, GiveUp,
                      ~(Elapsed(now, lastOutActivity) < Elapsed(now, t))
               PROVE  \/ Elapsed(now, lastInActivity) > KeepAlive
                      \/ Elapsed(now, lastOutActivity) > KeepAlive
    OBVIOUS
  <2>1. /\ now \in Clock /\ t \in Clock
        /\ lastInActivity \in Clock /\ lastOutActivity \in Clock
    BY DEF TypeOK
  <2>2. \A a, b \in Clock : Elapsed(a, b) \in Nat
    BY ElapsedIs, ClockAssumption DEF Clock
  <2>3. Elapsed(now, t) <= Elapsed(now, lastInActivity)
    BY DEF TimerInv, GiveUp
  <2>4. Elapsed(now, t) <= Elapsed(now, lastOutActivity)
    BY <2>1, <2>2
  <2>5. /\ Elapsed(t, lastInActivity) = Elapsed(now, lastInActivity) - Elapsed(now, t)
        /\ Elapsed(t, lastOutActivity) = Elapsed(now, lastOutActivity) - Elapsed(now, t)
    BY <2>1, <2>3, <2>4, ElapsedBetween
  <2>6. \/ Elapsed(t, lastInActivity) > KeepAlive
        \/ Elapsed(t, lastOutActivity) > KeepAlive
    BY DEF GiveUp, Expired
  <2>7. /\ Elapsed(now, t) \in Nat /\ Elapsed(now, lastInActivity) \in Nat
        /\ Elapsed(now, lastOutActivity) \in Nat /\ KeepAlive \in Nat
    BY <2>1, <2>2, ClockAssumption
  <2> QED
    BY <2>5, <2>6, <2>7
<1> QED
  BY <1>1, <1>2, TypeInit, TypeNext, TimerNext, PTL DEF Spec, GiveUpExplained

-----------------------------------------------------------------------------
(* The CAN poll.                                                           *)

Fresh == {"char", "space"}

(* A request in progress is one of the poll's.                             *)
RequestInv == poll = "receive" => request <= NumPids

(* What the chip sends is fresh; a poll has emptied the ring before it     *)
(* asks, so that nothing else is in the ring, or in a record, afterwards.  *)
FreshInv ==
  /\ line \in Seq(Fresh)
  /\ poll \in {"request", "receive"} => ring \in Seq(Fresh)
  /\ \A r \in Records, k \in Positions : temp_can_buffer[r][k] # "left"

PollInv == PollTypeOK /\ RequestInv /\ FreshInv

(* The ring with its characters marked is a ring.                          *)
LEMMA MarkType ==
  ASSUME NEW s \in Seq(Characters)
  PROVE  [k \in DOMAIN s |-> IF s[k] = "space" THEN "space" ELSE "left"] \in Seq(Characters)
<1> DEFINE f == [k \in 1 .. Len(s) |-> IF s[k] = "space" THEN "space" ELSE "left"]
<1>1. DOMAIN s = 1 .. Len(s) /\ Len(s) \in Nat
  BY LenProperties
<1>2. \A k \in 1 .. Len(s) : (IF s[k] = "space" THEN "space" ELSE "left") \in Characters
  BY DEF Characters
<1>3. f \in Seq(Characters)
  BY <1>1, <1>2
<1> QED
  BY <1>1, <1>3

\* The invariant holds before the first poll.
LEMMA PollInvInit == PollInit => PollInv
<1> SUFFICES ASSUME PollInit PROVE PollInv
  OBVIOUS
<1>1. <<>> \in Seq(Characters) /\ <<>> \in Seq(Fresh)
  BY EmptySeq
<1>2. temp_can_buffer \in [Records -> [Positions -> {"zero", "char", "left"}]]
  BY DEF PollInit
<1>3. PollTypeOK
  BY <1>1, <1>2, SizesAssumption DEF PollInit, PollTypeOK
<1>4. FreshInv
  BY <1>1 DEF PollInit, FreshInv
<1> QED
  BY <1>3, <1>4 DEF PollInit, PollInv, RequestInv

\* Every step of thread, chip and interrupt keeps the invariant.
LEMMA PollInvNext == PollInv /\ [PollNext]_canVars => PollInv'
<1> SUFFICES ASSUME PollInv, [PollNext]_canVars PROVE PollInv'
  OBVIOUS
<1>a. PollTypeOK /\ RequestInv /\ FreshInv
  BY DEF PollInv
<1>b. NumPids \in Nat \ {0} /\ Width \in Nat \ {0}
  BY SizesAssumption
<1>c. Fresh \subseteq Characters
  BY DEF Fresh, Characters
<1> USE DEF Records
<1>1. CASE Begin
  <2>1. ring' \in Seq(Characters)
    BY <1>a, <1>1, MarkType DEF Begin, PollTypeOK
  <2>2. PollTypeOK'
    BY <1>a, <1>b, <1>1, <2>1 DEF Begin, PollTypeOK
  <2> QED
    BY <1>a, <1>1, <2>2 DEF Begin, PollInv, RequestInv, FreshInv
<1>2. CASE Clear
  <2>1. CASE ring # <<>> /\ ring' = Tail(ring) /\ UNCHANGED poll
    <3>1. ring' \in Seq(Characters)
      BY <1>a, <2>1, Take DEF PollTypeOK
    <3> QED
      BY <1>a, <1>2, <2>1, <3>1 DEF Clear, PollInv, PollTypeOK, RequestInv, FreshInv
  <2>2. CASE ring = <<>> /\ poll' = "request" /\ UNCHANGED ring
    <3>1. ring' \in Seq(Fresh)
      BY <2>2, EmptySeq
    <3> QED
      BY <1>a, <1>2, <2>2, <3>1 DEF Clear, PollInv, PollTypeOK, RequestInv, FreshInv
  <2> QED
    BY <1>2, <2>1, <2>2 DEF Clear
<1>3. CASE Request
  <2>1. PICK answer \in Answers : line' = line \o answer
    BY <1>3 DEF Request
  <2>2. answer \in Seq(Fresh)
    BY SizesAssumption DEF Fresh
  <2>3. line' \in Seq(Fresh)
    BY <1>a, <2>1, <2>2, ConcatProperties DEF FreshInv
  <2>4. line' \in Seq(Characters)
    BY <1>c, <2>3, SeqMonotonic
  <2>5. PollTypeOK'
    BY <1>a, <1>b, <1>3, <2>4 DEF Request, PollTypeOK
  <2> QED
    BY <1>a, <1>3, <2>3, <2>5 DEF Request, PollInv, RequestInv, FreshInv
<1>4. CASE Return
  BY <1>a, <1>4 DEF Return, PollInv, PollTypeOK, RequestInv, FreshInv
<1>5. CASE Judge
  <2>1. PollTypeOK'
    BY <1>a, <1>b, <1>5 DEF Judge, PollTypeOK, RequestInv
  <2> QED
    BY <1>a, <1>5, <2>1 DEF Judge, PollInv, RequestInv, FreshInv
<1>6. CASE ReceiveNothing
  <2>1. PollTypeOK'
    BY <1>a, <1>b, <1>6 DEF ReceiveNothing, Wants, PollTypeOK
  <2> QED
    BY <1>a, <1>6, <2>1 DEF ReceiveNothing, PollInv, RequestInv, FreshInv
<1>7. CASE ReceiveSpace
  <2>1. ring' \in Seq(Fresh)
    BY <1>a, <1>7, Take DEF ReceiveSpace, FreshInv
  <2>2. ring' \in Seq(Characters)
    BY <1>c, <2>1, SeqMonotonic
  <2> QED
    BY <1>a, <1>7, <2>1, <2>2 DEF ReceiveSpace, pollVars, PollInv, PollTypeOK, RequestInv, FreshInv
<1>8. CASE ReceiveCharacter
  <2>1. Head(ring) = "char" /\ ring' \in Seq(Fresh)
    BY <1>a, <1>8, Take DEF ReceiveCharacter, FreshInv, Fresh
  <2>2. ring' \in Seq(Characters)
    BY <1>c, <2>1, SeqMonotonic
  <2>3. current_record_count \in Records /\ i \in Positions /\ i + 1 \in 1 .. Width + 1
    BY <1>a, <1>b, <1>8 DEF ReceiveCharacter, Wants, PollTypeOK, Positions
  <2>4. temp_can_buffer' = [temp_can_buffer EXCEPT ![current_record_count][i] = "char"]
    BY <1>8, <2>1 DEF ReceiveCharacter
  <2>5. temp_can_buffer' \in [Records -> [Positions -> {"zero", "char", "left"}]]
    BY <1>a, <2>3, <2>4 DEF PollTypeOK
  <2>6. \A r \in Records, k \in Positions : temp_can_buffer'[r][k] # "left"
    BY <1>a, <2>3, <2>4 DEF PollTypeOK, FreshInv
  <2>7. written' \subseteq Records
    BY <1>a, <1>8, <2>3 DEF ReceiveCharacter, PollTypeOK
  <2>8. PollTypeOK'
    BY <1>a, <1>8, <2>2, <2>3, <2>5, <2>7 DEF ReceiveCharacter, PollTypeOK
  <2> QED
    BY <1>a, <1>8, <2>1, <2>6, <2>8 DEF ReceiveCharacter, PollInv, RequestInv, FreshInv
<1>9. CASE Arrive
  <2>1. Head(line) \in Fresh /\ line' \in Seq(Fresh)
    BY <1>a, <1>9, Take DEF Arrive, FreshInv
  <2>2. ring' \in Seq(Characters)
    BY <1>a, <1>c, <1>9, <2>1, AppendProperties DEF Arrive, PollTypeOK
  <2>3. poll \in {"request", "receive"} => ring' \in Seq(Fresh)
    BY <1>a, <1>9, <2>1, AppendProperties DEF Arrive, FreshInv
  <2>4. line' \in Seq(Characters)
    BY <1>c, <2>1, SeqMonotonic
  <2> QED
    BY <1>a, <1>9, <2>1, <2>2, <2>3, <2>4
       DEF Arrive, pollVars, PollInv, PollTypeOK, RequestInv, FreshInv
<1>10. CASE UNCHANGED canVars
  BY <1>a, <1>10 DEF canVars, pollVars, PollInv, PollTypeOK, RequestInv, FreshInv
<1> QED
  BY <1>1, <1>2, <1>3, <1>4, <1>5, <1>6, <1>7, <1>8, <1>9, <1>10 DEF PollNext, Poll

\* The inductive invariant holds throughout.
LEMMA PollInvAlways == PollSpec => []PollInv
BY PollInvInit, PollInvNext, PTL DEF PollSpec

(* The record that receive() stores into is always one of the array, and   *)
(* the place one of the record: the count never runs ahead of the          *)
(* requests, whatever the records hold that are counted.                   *)
THEOREM PollTypeCorrect == PollSpec => []PollTypeOK
<1>1. PollInv => PollTypeOK
  BY DEF PollInv
<1> QED
  BY <1>1, PollInvAlways, PTL

(* clearBuffer() works, although answers arrive while it drains the ring:  *)
(* what lay there when a poll began is in none of the poll's records.      *)
THEOREM NoLeftovers == PollSpec => []LeftoversDropped
<1>1. PollInv => LeftoversDropped
  BY DEF PollInv, PollTypeOK, FreshInv, LeftoversDropped
<1> QED
  BY <1>1, PollInvAlways, PTL
=============================================================================
