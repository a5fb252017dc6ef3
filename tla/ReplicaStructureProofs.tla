------------------------ MODULE ReplicaStructureProofs ------------------------
(***************************************************************************)
(* What executing a log makes of a list: facts about Real, Rank, Executed  *)
(* and IsSuffix that the proofs about Replication rest on.                 *)
(***************************************************************************)
EXTENDS ReplicaStructure, FiniteSetTheorems, SequenceTheorems, TLAPS

-----------------------------------------------------------------------------
(* The entries that are no dummies, and how many there are up to one.      *)

LEMMA RealFinite ==
  ASSUME NEW log \in Seq(LogEntry)
  PROVE  /\ Real(log) \subseteq 1 .. Len(log)
         /\ IsFiniteSet(Real(log))
         /\ Cardinality(Real(log)) \in Nat
<1>1. Real(log) \subseteq 1 .. Len(log) /\ Len(log) \in Nat
  BY DEF Real
<1>2. IsFiniteSet(1 .. Len(log))
  BY <1>1, FS_Interval
<1>3. IsFiniteSet(Real(log))
  BY <1>1, <1>2, FS_Subset
<1> QED
  BY <1>1, <1>3, FS_CardinalityType

LEMMA RankRange ==
  ASSUME NEW log \in Seq(LogEntry), NEW k \in Real(log)
  PROVE  Rank(log, k) \in 1 .. Cardinality(Real(log))
<1> DEFINE below == { m \in Real(log) : m <= k }
<1>1. below \subseteq Real(log) /\ k \in below
  BY RealFinite
<1>2. Rank(log, k) = Cardinality(below)
  BY DEF Rank
<1> HIDE DEF below
<1>3. IsFiniteSet(below) /\ Cardinality(below) <= Cardinality(Real(log))
  BY <1>1, RealFinite, FS_Subset
<1>4. Cardinality(below) \in Nat /\ Cardinality(below) # 0
  BY <1>1, <1>3, FS_CardinalityType, FS_EmptySet
<1> QED
  BY <1>2, <1>3, <1>4, RealFinite

LEMMA RankIncreases ==
  ASSUME NEW log \in Seq(LogEntry), NEW k \in Real(log), NEW l \in Real(log), k < l
  PROVE  Rank(log, k) < Rank(log, l)
<1> DEFINE below(n) == { m \in Real(log) : m <= n }
<1>1. below(k) \subseteq below(l) /\ below(k) # below(l)
  <2>1. \A m \in Real(log) : m \in Int
    BY RealFinite
  <2>2. l \in below(l) /\ l \notin below(k)
    BY <2>1
  <2> QED
    BY <2>1, <2>2
<1>2. IsFiniteSet(below(l)) /\ Rank(log, k) \in Int /\ Rank(log, l) \in Int
  <2>1. below(l) \subseteq Real(log)
    OBVIOUS
  <2> HIDE DEF below
  <2> QED
    BY <2>1, RealFinite, FS_Subset, RankRange
<1>3. Rank(log, k) = Cardinality(below(k)) /\ Rank(log, l) = Cardinality(below(l))
  BY DEF Rank
<1> HIDE DEF below
<1>4. /\ Cardinality(below(k)) <= Cardinality(below(l))
      /\ Cardinality(below(l)) # Cardinality(below(k))
  BY <1>1, <1>2, FS_Subset
<1> QED
  BY <1>2, <1>3, <1>4

(* Every place of the list is that of one entry.                           *)
LEMMA RankOnto ==
  ASSUME NEW log \in Seq(LogEntry), NEW n \in 1 .. Cardinality(Real(log))
  PROVE  /\ \E k \in Real(log) : Rank(log, k) = n
         /\ \A k, l \in Real(log) : Rank(log, k) = Rank(log, l) => k = l
<1> DEFINE c == Cardinality(Real(log))
           f == [k \in Real(log) |-> Rank(log, k)]
<1>1. \A k, l \in Real(log) : Rank(log, k) = Rank(log, l) => k = l
  <2> SUFFICES ASSUME NEW k \in Real(log), NEW l \in Real(log), k # l
               PROVE  Rank(log, k) # Rank(log, l)
    OBVIOUS
  <2>1. /\ k \in Int /\ l \in Int
        /\ Rank(log, k) \in Int /\ Rank(log, l) \in Int
    BY RealFinite, RankRange
  <2>2. CASE k < l
    BY <2>1, <2>2, RankIncreases
  <2>3. CASE l < k
    BY <2>1, <2>3, RankIncreases
  <2> QED
    BY <2>1, <2>2, <2>3
<1>2. f \in Injection(Real(log), 1 .. c)
  <2>1. f \in [Real(log) -> 1 .. c]
    BY RankRange
  <2> QED
    BY <1>1, <2>1 DEF Injection, IsInjective
<1>3. c \in Nat /\ IsFiniteSet(1 .. c) /\ Cardinality(1 .. c) = c
  BY RealFinite, FS_Interval
<1> HIDE DEF f, c
<1>4. f \in Surjection(Real(log), 1 .. c)
  BY <1>2, <1>3, FS_Injection DEF c
<1>5. \E k \in Real(log) : f[k] = n
  BY <1>4 DEF Surjection, c
<1> QED
  BY <1>1, <1>5 DEF f

(* The value of an entry is where its rank says.                           *)
LEMMA ExecutedAt ==
  ASSUME NEW log \in Seq(LogEntry)
  PROVE  /\ Executed(log) \in Seq(Value)
         /\ Len(Executed(log)) = Cardinality(Real(log))
         /\ \A k \in Real(log) :
              Executed(log)[Rank(log, k)] = ValueOf[log[k].request.client_request]
<1> DEFINE c == Cardinality(Real(log))
           at(n) == CHOOSE k \in Real(log) : Rank(log, k) = n
           val(k) == ValueOf[log[k].request.client_request]
<1>1. Executed(log) = [n \in 1 .. c |-> val(at(n))]
  BY DEF Executed
<1>2. \A n \in 1 .. c : at(n) \in Real(log) /\ Rank(log, at(n)) = n
  BY RankOnto
<1>3. \A k \in Real(log) : val(k) \in Value
  <2> SUFFICES ASSUME NEW k \in Real(log) PROVE val(k) \in Value
    OBVIOUS
  <2>1. log[k] \in LogEntry /\ log[k].request.client_request # Dummy
    BY DEF Real
  <2>2. log[k].request.client_request \in ClientRequest
    BY <2>1 DEF LogEntry, Request
  <2> QED
    BY <2>2, RequestAssumption
<1>4. \A k \in Real(log) : Rank(log, k) \in 1 .. c /\ at(Rank(log, k)) = k
  BY <1>2, RankRange, RankOnto
<1>5. c \in Nat
  BY RealFinite
<1> HIDE DEF c, at, val
<1>6. \A n \in 1 .. c : val(at(n)) \in Value
  BY <1>2, <1>3
<1>7. Executed(log) \in [1 .. c -> Value]
  BY <1>1, <1>6
<1>8. Executed(log) \in Seq(Value) /\ Len(Executed(log)) = c
  BY <1>5, <1>7
<1>9. \A k \in Real(log) : Executed(log)[Rank(log, k)] = val(k)
  BY <1>1, <1>4
<1> QED
  BY <1>8, <1>9 DEF c, val

-----------------------------------------------------------------------------
(* A log that is executed in two parts gives both lists, one after the     *)
(* other.                                                                  *)

LEMMA RealOfConcat ==
  ASSUME NEW s \in Seq(LogEntry), NEW t \in Seq(LogEntry)
  PROVE  /\ s \o t \in Seq(LogEntry)
         /\ Real(s \o t) = Real(s) \cup { Len(s) + k : k \in Real(t) }
         /\ \A k \in Real(s) : (s \o t)[k] = s[k]
         /\ \A k \in Real(t) : (s \o t)[Len(s) + k] = t[k]
<1> DEFINE log == s \o t
<1>1. /\ log \in Seq(LogEntry)
      /\ Len(s) \in Nat /\ Len(t) \in Nat
      /\ Len(log) = Len(s) + Len(t)
      /\ \A k \in 1 .. Len(s) : log[k] = s[k]
      /\ \A k \in 1 .. Len(t) : log[Len(s) + k] = t[k]
      /\ DOMAIN log = 1 .. Len(log)
      /\ DOMAIN s = 1 .. Len(s) /\ DOMAIN t = 1 .. Len(t)
  OBVIOUS
<1> HIDE DEF log
<1>2. Real(s) \subseteq 1 .. Len(s) /\ Real(t) \subseteq 1 .. Len(t)
  BY RealFinite
<1>3. Real(log) \subseteq Real(s) \cup { Len(s) + k : k \in Real(t) }
  <2> SUFFICES ASSUME NEW m \in Real(log), m \notin Real(s)
               PROVE  \E k \in Real(t) : m = Len(s) + k
    OBVIOUS
  <2>1. m \in 1 .. Len(log) /\ log[m].request.client_request # Dummy
    BY <1>1 DEF Real
  <2>2. m \notin 1 .. Len(s)
    BY <1>1, <2>1 DEF Real
  <2>3. m - Len(s) \in 1 .. Len(t) /\ m = Len(s) + (m - Len(s))
    BY <1>1, <2>1, <2>2
  <2>4. m - Len(s) \in Real(t)
    BY <1>1, <2>1, <2>3 DEF Real
  <2> QED
    BY <2>3, <2>4
<1>4. Real(s) \subseteq Real(log)
  BY <1>1, <1>2 DEF Real
<1>5. ASSUME NEW k \in Real(t)
      PROVE  Len(s) + k \in Real(log)
  <2>1. k \in 1 .. Len(t) /\ t[k].request.client_request # Dummy
    BY <1>1 DEF Real
  <2>2. Len(s) + k \in DOMAIN log /\ log[Len(s) + k] = t[k]
    BY <1>1, <2>1
  <2> QED
    BY <2>1, <2>2 DEF Real
<1> QED
  BY <1>1, <1>2, <1>3, <1>4, <1>5 DEF log

LEMMA Shifted ==
  ASSUME NEW A, IsFiniteSet(A), A \subseteq Int, NEW n \in Int
  PROVE  /\ IsFiniteSet({ n + k : k \in A })
         /\ Cardinality({ n + k : k \in A }) = Cardinality(A)
<1> DEFINE B == { n + k : k \in A }
           f == [k \in A |-> n + k]
<1>1. f \in Bijection(A, B)
  <2>1. f \in [A -> B]
    OBVIOUS
  <2>2. \A k, l \in A : f[k] = f[l] => k = l
    OBVIOUS
  <2>3. \A b \in B : \E k \in A : f[k] = b
    OBVIOUS
  <2> QED
    BY <2>1, <2>2, <2>3 DEF Bijection, Injection, Surjection, IsInjective
<1> HIDE DEF f, B
<1>2. ExistsBijection(A, B)
  BY <1>1 DEF ExistsBijection
<1> QED
  BY <1>2, FS_Bijection DEF B

LEMMA RankOfConcat ==
  ASSUME NEW s \in Seq(LogEntry), NEW t \in Seq(LogEntry)
  PROVE  /\ Cardinality(Real(s \o t)) = Cardinality(Real(s)) + Cardinality(Real(t))
         /\ \A k \in Real(s) : Rank(s \o t, k) = Rank(s, k)
         /\ \A k \in Real(t) :
              Rank(s \o t, Len(s) + k) = Cardinality(Real(s)) + Rank(t, k)
<1> DEFINE log == s \o t
           shift(A) == { Len(s) + k : k \in A }
<1>1. Real(log) = Real(s) \cup shift(Real(t))
  BY RealOfConcat
<1>2. /\ Len(s) \in Nat /\ Real(s) \subseteq 1 .. Len(s)
      /\ IsFiniteSet(Real(s)) /\ Cardinality(Real(s)) \in Nat
      /\ Len(t) \in Nat /\ Real(t) \subseteq 1 .. Len(t)
      /\ IsFiniteSet(Real(t))
  BY RealFinite
(* The entries of s and some of t.                                         *)
<1>3. ASSUME NEW A \in SUBSET Real(t)
      PROVE  Cardinality(Real(s) \cup shift(A)) = Cardinality(Real(s)) + Cardinality(A)
  <2>1. IsFiniteSet(A) /\ A \subseteq Int
    BY <1>2, FS_Subset
  <2>2. IsFiniteSet(shift(A)) /\ Cardinality(shift(A)) = Cardinality(A)
    <3>1. Len(s) \in Int
      BY <1>2
    <3> QED
      BY <2>1, <3>1, Shifted, Zenon
  <2>3. Real(s) \cap shift(A) = {}
    <3> SUFFICES ASSUME NEW k \in A, Len(s) + k \in Real(s) PROVE FALSE
      OBVIOUS
    <3>1. k \in 1 .. Len(t) /\ Len(s) + k \in 1 .. Len(s)
      BY <1>2
    <3> QED
      BY <1>2, <3>1
  <2> HIDE DEF shift
  <2>4. Cardinality(Real(s) \cap shift(A)) = 0 /\ Cardinality(A) \in Nat
    BY <2>1, <2>3, FS_EmptySet, FS_CardinalityType
  <2>5. Cardinality(Real(s) \cup shift(A)) =
          Cardinality(Real(s)) + Cardinality(shift(A)) - Cardinality(Real(s) \cap shift(A))
    BY <1>2, <2>2, FS_Union
  <2> QED
    BY <1>2, <2>2, <2>4, <2>5
<1>4. ASSUME NEW k \in Real(s)
      PROVE  Rank(log, k) = Rank(s, k)
  <2>1. \A l \in Real(t) : ~(Len(s) + l <= k)
    <3> SUFFICES ASSUME NEW l \in Real(t) PROVE ~(Len(s) + l <= k)
      OBVIOUS
    <3>1. k \in 1 .. Len(s) /\ l \in 1 .. Len(t)
      BY <1>2
    <3> QED
      BY <1>2, <3>1
  <2>2. { m \in Real(log) : m <= k } = { m \in Real(s) : m <= k }
    BY <1>1, <2>1
  <2> QED
    BY <2>2 DEF Rank
<1>5. ASSUME NEW k \in Real(t)
      PROVE  Rank(log, Len(s) + k) = Cardinality(Real(s)) + Rank(t, k)
  <2> DEFINE A == { m \in Real(t) : m <= k }
  <2>1. \A m \in Real(s) : m <= Len(s) + k
    <3> SUFFICES ASSUME NEW m \in Real(s) PROVE m <= Len(s) + k
      OBVIOUS
    <3>1. m \in 1 .. Len(s) /\ k \in 1 .. Len(t)
      BY <1>2
    <3> QED
      BY <1>2, <3>1
  <2>2. \A m \in Real(t) : m \in Int /\ k \in Int /\ (Len(s) + m <= Len(s) + k <=> m <= k)
    BY <1>2
  <2>3. { m \in Real(log) : m <= Len(s) + k } = Real(s) \cup shift(A)
    BY <1>1, <2>1, <2>2
  <2>4. A \subseteq Real(t)
    OBVIOUS
  <2>5. Rank(t, k) = Cardinality(A) /\
        Rank(log, Len(s) + k) = Cardinality(Real(s) \cup shift(A))
    BY <2>3 DEF Rank
  <2> HIDE DEF A, shift, log
  <2> QED
    BY <1>3, <2>4, <2>5
<1>6. Cardinality(Real(log)) = Cardinality(Real(s)) + Cardinality(Real(t))
  <2> HIDE DEF shift, log
  <2> QED
    BY <1>1, <1>3
<1> QED
  BY <1>4, <1>5, <1>6

LEMMA Joined ==
  ASSUME NEW s \in Seq(Value), NEW t \in Seq(Value)
  PROVE  /\ s \o t \in Seq(Value) /\ Len(s \o t) = Len(s) + Len(t)
         /\ \A n \in 1 .. Len(s) : (s \o t)[n] = s[n]
         /\ \A n \in 1 .. Len(t) : (s \o t)[Len(s) + n] = t[n]
OBVIOUS

LEMMA ExecutedConcat ==
  ASSUME NEW s \in Seq(LogEntry), NEW t \in Seq(LogEntry)
  PROVE  Executed(s \o t) = Executed(s) \o Executed(t)
<1> DEFINE log == s \o t
           c == Cardinality(Real(s))
           d == Cardinality(Real(t))
           val(k) == ValueOf[k.request.client_request]
<1>1. log \in Seq(LogEntry)
  BY RealOfConcat
<1>2. c \in Nat /\ d \in Nat /\ Cardinality(Real(log)) = c + d
  BY RealFinite, RankOfConcat
<1>3. /\ Executed(s) \in Seq(Value) /\ Len(Executed(s)) = c
      /\ \A k \in Real(s) : Executed(s)[Rank(s, k)] = val(s[k])
  BY ExecutedAt
<1>4. /\ Executed(t) \in Seq(Value) /\ Len(Executed(t)) = d
      /\ \A k \in Real(t) : Executed(t)[Rank(t, k)] = val(t[k])
  BY ExecutedAt
<1>5. /\ Executed(log) \in Seq(Value) /\ Len(Executed(log)) = c + d
      /\ \A k \in Real(log) : Executed(log)[Rank(log, k)] = val(log[k])
  BY <1>1, <1>2, ExecutedAt
<1>6. /\ \A k \in Real(s) : k \in Real(log) /\ log[k] = s[k] /\ Rank(log, k) = Rank(s, k)
      /\ \A k \in Real(t) : /\ Len(s) + k \in Real(log)
                             /\ log[Len(s) + k] = t[k]
                             /\ Rank(log, Len(s) + k) = c + Rank(t, k)
  <2>1. /\ \A k \in Real(s) : k \in Real(log) /\ log[k] = s[k]
        /\ \A k \in Real(t) : Len(s) + k \in Real(log) /\ log[Len(s) + k] = t[k]
    <3> HIDE DEF c, d, val
    <3>1. \A k \in Real(s) : k \in Real(log) /\ log[k] = s[k]
      BY RealOfConcat
    <3>2. \A k \in Real(t) : Len(s) + k \in Real(log) /\ log[Len(s) + k] = t[k]
      BY RealOfConcat
    <3> QED
      BY <3>1, <3>2
  <2>2. /\ \A k \in Real(s) : Rank(log, k) = Rank(s, k)
        /\ \A k \in Real(t) : Rank(log, Len(s) + k) = c + Rank(t, k)
    BY RankOfConcat
  <2> HIDE DEF log, c, d, val
  <2> QED
    BY <2>1, <2>2
<1>7. /\ \A n \in 1 .. c : \E k \in Real(s) : Rank(s, k) = n
      /\ \A n \in 1 .. d : \E k \in Real(t) : Rank(t, k) = n
  BY RankOnto
<1> HIDE DEF log, c, d, val
<1> DEFINE both == Executed(s) \o Executed(t)
<1>8. /\ both \in Seq(Value) /\ Len(both) = c + d
      /\ \A n \in 1 .. c : both[n] = Executed(s)[n]
      /\ \A n \in 1 .. d : both[c + n] = Executed(t)[n]
  BY <1>3, <1>4, Joined
<1> HIDE DEF both
<1>9. \A n \in 1 .. c : Executed(log)[n] = both[n]
  BY <1>3, <1>5, <1>6, <1>7, <1>8
<1>10. \A n \in 1 .. d : Executed(log)[c + n] = both[c + n]
  <2> SUFFICES ASSUME NEW n \in 1 .. d PROVE Executed(log)[c + n] = both[c + n]
    OBVIOUS
  <2>1. PICK k \in Real(t) : Rank(t, k) = n
    BY <1>7
  <2> QED
    BY <1>4, <1>5, <1>6, <1>8, <2>1
<1>11. ASSUME NEW n \in 1 .. c + d
       PROVE  Executed(log)[n] = both[n]
  <2>1. n \in 1 .. c \/ (n - c \in 1 .. d /\ n = c + (n - c))
    BY <1>2
  <2> QED
    BY <1>9, <1>10, <2>1
<1>12. Executed(log) = both
  BY <1>5, <1>8, <1>11, SeqEqual
<1> QED
  BY <1>12 DEF log, both

LEMMA ExecutedNothing ==
  Executed(<<>>) = <<>>
<1>1. Real(<<>>) = {}
  BY DEF Real
<1>2. Cardinality(Real(<<>>)) = 0
  BY <1>1, FS_EmptySet
<1>3. <<>> \in Seq(LogEntry)
  OBVIOUS
<1>4. Executed(<<>>) \in Seq(Value) /\ Len(Executed(<<>>)) = 0
  BY <1>2, <1>3, ExecutedAt
<1> QED
  BY <1>4

-----------------------------------------------------------------------------
(* A suffix of a list stays one when both go on, or it loses its front.    *)

LEMMA SuffixIs ==
  ASSUME NEW s \in Seq(Value), NEW t \in Seq(Value)
  PROVE  IsSuffix(s, t) <=>
           /\ Len(s) <= Len(t)
           /\ \A n \in 1 .. Len(s) : s[n] = t[Len(t) - Len(s) + n]
<1> DEFINE rs == Reverse(s)
           rt == Reverse(t)
<1>1. Len(s) \in Nat /\ Len(t) \in Nat
  OBVIOUS
<1>2. /\ rs \in Seq(Value) /\ Len(rs) = Len(s)
      /\ \A n \in 1 .. Len(s) : rs[n] = s[Len(s) - n + 1]
  BY <1>1 DEF Reverse
<1>3. /\ rt \in Seq(Value) /\ Len(rt) = Len(t)
      /\ \A n \in 1 .. Len(t) : rt[n] = t[Len(t) - n + 1]
  BY <1>1 DEF Reverse
<1> HIDE DEF rs, rt
<1>4. IsSuffix(s, t) <=>
        /\ Len(s) <= Len(t)
        /\ SubSeq(rs, 1, Len(s)) = SubSeq(rt, 1, Len(s))
  BY <1>2, <1>3 DEF IsSuffix, IsPrefix, rs, rt
<1>5. ASSUME Len(s) <= Len(t)
      PROVE  SubSeq(rs, 1, Len(s)) = SubSeq(rt, 1, Len(s)) <=>
               \A n \in 1 .. Len(s) : rs[n] = rt[n]
  <2> DEFINE a == SubSeq(rs, 1, Len(s))
             b == SubSeq(rt, 1, Len(s))
  <2>1. /\ a \in Seq(Value) /\ Len(a) = Len(s)
        /\ \A n \in 1 .. Len(s) : a[n] = rs[n]
    BY <1>1, <1>2
  <2>2. /\ b \in Seq(Value) /\ Len(b) = Len(s)
        /\ \A n \in 1 .. Len(s) : b[n] = rt[n]
    BY <1>1, <1>3, <1>5
  <2> HIDE DEF a, b
  <2>3. (\A n \in 1 .. Len(s) : a[n] = b[n]) => a = b
    BY <2>1, <2>2, SeqEqual
  <2>4. a = b <=> \A n \in 1 .. Len(s) : rs[n] = rt[n]
    BY <2>1, <2>2, <2>3
  <2> QED
    BY <2>4 DEF a, b
<1>6. ASSUME Len(s) <= Len(t)
      PROVE  (\A n \in 1 .. Len(s) : rs[n] = rt[n]) <=>
               \A n \in 1 .. Len(s) : s[n] = t[Len(t) - Len(s) + n]
  <2>1. ASSUME \A n \in 1 .. Len(s) : rs[n] = rt[n], NEW n \in 1 .. Len(s)
        PROVE  s[n] = t[Len(t) - Len(s) + n]
    <3> DEFINE m == Len(s) - n + 1
    <3>1. /\ m \in 1 .. Len(s) /\ m \in 1 .. Len(t)
          /\ Len(s) - m + 1 = n /\ Len(t) - m + 1 = Len(t) - Len(s) + n
      BY <1>1, <1>6
    <3> HIDE DEF m
    <3> QED
      BY <1>2, <1>3, <2>1, <3>1
  <2>2. ASSUME \A n \in 1 .. Len(s) : s[n] = t[Len(t) - Len(s) + n],
               NEW n \in 1 .. Len(s)
        PROVE  rs[n] = rt[n]
    <3> DEFINE m == Len(s) - n + 1
    <3>1. /\ m \in 1 .. Len(s) /\ n \in 1 .. Len(t)
          /\ Len(t) - n + 1 = Len(t) - Len(s) + m
      BY <1>1, <1>6
    <3>2. rs[n] = s[m]
      BY <1>2
    <3> HIDE DEF m
    <3> QED
      BY <1>3, <2>2, <3>1, <3>2
  <2> QED
    BY <2>1, <2>2
<1> QED
  BY <1>4, <1>5, <1>6

LEMMA SuffixOfItself ==
  ASSUME NEW s \in Seq(Value)
  PROVE  IsSuffix(s, s)
<1>1. Len(s) \in Nat
  OBVIOUS
<1>2. \A n \in 1 .. Len(s) : Len(s) - Len(s) + n = n
  BY <1>1
<1> QED
  BY <1>1, <1>2, SuffixIs

LEMMA SuffixGrows ==
  ASSUME NEW s \in Seq(Value), NEW t \in Seq(Value), IsSuffix(s, t),
         NEW u \in Seq(Value)
  PROVE  IsSuffix(s \o u, t \o u)
<1> DEFINE a == s \o u
           b == t \o u
<1>1. /\ Len(s) \in Nat /\ Len(t) \in Nat /\ Len(u) \in Nat
      /\ Len(s) <= Len(t)
      /\ \A n \in 1 .. Len(s) : s[n] = t[Len(t) - Len(s) + n]
  BY SuffixIs
<1>2. /\ a \in Seq(Value) /\ Len(a) = Len(s) + Len(u)
      /\ \A n \in 1 .. Len(s) : a[n] = s[n]
      /\ \A n \in 1 .. Len(u) : a[Len(s) + n] = u[n]
  BY Joined
<1>3. /\ b \in Seq(Value) /\ Len(b) = Len(t) + Len(u)
      /\ \A n \in 1 .. Len(t) : b[n] = t[n]
      /\ \A n \in 1 .. Len(u) : b[Len(t) + n] = u[n]
  BY Joined
<1> HIDE DEF a, b
<1>4. ASSUME NEW n \in 1 .. Len(a)
      PROVE  a[n] = b[Len(b) - Len(a) + n]
  <2>1. CASE n <= Len(s)
    <3>1. /\ n \in 1 .. Len(s) /\ Len(t) - Len(s) + n \in 1 .. Len(t)
          /\ Len(b) - Len(a) + n = Len(t) - Len(s) + n
      BY <1>1, <1>2, <1>3, <2>1
    <3> QED
      BY <1>1, <1>2, <1>3, <3>1
  <2>2. CASE n > Len(s)
    <3> DEFINE m == n - Len(s)
    <3>1. /\ m \in 1 .. Len(u) /\ n = Len(s) + m
          /\ Len(b) - Len(a) + n = Len(t) + m
      BY <1>1, <1>2, <1>3, <2>2
    <3> HIDE DEF m
    <3> QED
      BY <1>2, <1>3, <3>1
  <2> QED
    BY <1>1, <1>2, <2>1, <2>2
<1>5. Len(a) <= Len(b)
  BY <1>1, <1>2, <1>3
<1> QED
  BY <1>2, <1>3, <1>4, <1>5, SuffixIs DEF a, b

LEMMA SuffixLosesFront ==
  ASSUME NEW s \in Seq(Value), NEW t \in Seq(Value), NEW u \in Seq(Value),
         IsSuffix(s \o u, t)
  PROVE  IsSuffix(u, t)
<1> DEFINE a == s \o u
<1>1. /\ a \in Seq(Value) /\ Len(a) = Len(s) + Len(u)
      /\ \A n \in 1 .. Len(u) : a[Len(s) + n] = u[n]
      /\ Len(s) \in Nat /\ Len(t) \in Nat /\ Len(u) \in Nat
  OBVIOUS
<1>2. /\ Len(a) <= Len(t)
      /\ \A n \in 1 .. Len(a) : a[n] = t[Len(t) - Len(a) + n]
  BY <1>1, SuffixIs
<1> HIDE DEF a
<1>3. ASSUME NEW n \in 1 .. Len(u)
      PROVE  u[n] = t[Len(t) - Len(u) + n]
  <2>1. /\ Len(s) + n \in 1 .. Len(a)
        /\ Len(t) - Len(a) + (Len(s) + n) = Len(t) - Len(u) + n
    BY <1>1
  <2> QED
    BY <1>1, <1>2, <2>1
<1>4. Len(u) <= Len(t)
  BY <1>1, <1>2
<1> QED
  BY <1>3, <1>4, SuffixIs

(* Of a log that loses its first entries.                                  *)
LEMMA ExecutedNewest ==
  ASSUME NEW s, s.number_of_clients \in Nat, NEW log \in Seq(LogEntry),
         NEW list \in Seq(Value), IsSuffix(Executed(log), list)
  PROVE  IsSuffix(Executed(Newest(s, log)), list)
<1> DEFINE limit == 3 * SIGMA * s.number_of_clients
           n == Len(log) - limit
           front == SubSeq(log, 1, n)
           rest == SubSeq(log, n + 1, Len(log))
<1>1. limit \in Nat /\ Len(log) \in Nat
  BY SigmaAssumption
<1>2. CASE Len(log) <= limit
  BY <1>2 DEF Newest
<1>3. CASE ~(Len(log) <= limit)
  <2>1. Newest(s, log) = rest
    BY <1>3 DEF Newest
  <2>2. n \in 0 .. Len(log)
    BY <1>1, <1>3
  <2> HIDE DEF n
  <2>3. front \in Seq(LogEntry) /\ rest \in Seq(LogEntry) /\ log = front \o rest
    <3>1. /\ 1 \in 1 .. Len(log) + 1 /\ n \in 1 - 1 .. Len(log)
          /\ Len(log) \in n .. Len(log)
      BY <1>1, <2>2
    <3>2. front \o rest = SubSeq(log, 1, Len(log))
      BY <3>1, ConcatAdjacentSubSeq
    <3>3. front \in Seq(LogEntry) /\ rest \in Seq(LogEntry)
      BY <1>1, <2>2
    <3> QED
      BY <3>2, <3>3, SubSeqFull
  <2> HIDE DEF front, rest
  <2>4. Executed(log) = Executed(front) \o Executed(rest)
    BY <2>3, ExecutedConcat
  <2>5. Executed(front) \in Seq(Value) /\ Executed(rest) \in Seq(Value)
    BY <2>3, ExecutedAt
  <2>6. IsSuffix(Executed(front) \o Executed(rest), list)
    BY <2>4
  <2>7. IsSuffix(Executed(rest), list)
    BY <2>5, <2>6, SuffixLosesFront
  <2> QED
    BY <2>1, <2>7
<1> QED
  BY <1>2, <1>3

=============================================================================
