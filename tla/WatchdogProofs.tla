--------------------------- MODULE WatchdogProofs ---------------------------
(***************************************************************************)
(* The watchdog's tracker counts right and a reaped run is told as one,    *)
(* for any suite of tests, however they nest, overlap, end or hang.        *)
(***************************************************************************)
EXTENDS Watchdog, FiniteSetTheorems, SequenceTheorems, TLAPS

Starts == {e \in Events : e.type = "start"}
StartsOf(f) == {e \in Starts : FileOf[e.test] = f}
EndsOf(f) == {e \in Events : e.type = "end" /\ FileOf[e.test] = f}
TestsOf(f) == {t \in Test : FileOf[t] = f}

(* The positions of s up to k that hold a member of S, and their number. *)
Places(s, S, k) == {i \in DOMAIN s : i <= k /\ s[i] \in S}
Number(s, S, k) == Cardinality(Places(s, S, k))

(* The tests of a file in flight, as the tracker has them. *)
Held(f) == Number(inFlight, TestsOf(f), Len(inFlight))

(* However far the tracker reads, it never has to take a test out of flight *)
(* that it has not put there; when it has read all, it holds what runs.     *)
FileInv ==
  \A f \in File :
    /\ \A k \in 0..Len(pipe) :
         Number(pipe, EndsOf(f), k) <= Held(f) + Number(pipe, StartsOf(f), k)
    /\ Held(f) + Number(pipe, StartsOf(f), Len(pipe)) - Number(pipe, EndsOf(f), Len(pipe))
         = Cardinality({t \in Running : FileOf[t] = f})

(* A test that has begun is in flight, completed or still in the pipe. *)
TotalInv ==
  Len(inFlight) + Len(completed) + Number(pipe, Starts, Len(pipe)) = Cardinality(begun)

(* x is in the sequence s. *)
In(x, s) == \E i \in DOMAIN s : s[i] = x

(* Whatever the tracker holds or is told of has begun; what has ended, and  *)
(* nothing else, is completed or will be.                                   *)
SeenInv ==
  /\ \A t \in Test : In(Event("start", t), pipe) => t \in begun
  /\ \A t \in Test : t \in over <=> In(t, completed) \/ In(Event("end", t), pipe)
  /\ \A t \in Test : In(t, inFlight) => t \in begun

(* The deadline, the snapshot and the SIGTERM are one; the result tells of  *)
(* them and clears the deadline, and the report repeats it.                 *)
ReapInv ==
  /\ termed <=> deadline = "fired"
  /\ kill.taken <=> deadline = "fired"
  /\ killTimer # "off" <=> deadline = "fired"
  /\ result.outcome = None <=> result = NoResult
  /\ result # NoResult => ~Alive /\ deadline # "armed"
  /\ result # NoResult => (result.outcome = "reaped" <=> termed)
  /\ report # None => result # NoResult /\ (report = "reaped" <=> termed)

IInv == Types /\ FileInv /\ TotalInv /\ SeenInv /\ ReapInv /\ ReapedCounts

-----------------------------------------------------------------------------
(* Positions of a sequence are finitely many. *)
LEMMA NumberType ==
  ASSUME NEW T, NEW s \in Seq(T), NEW S, NEW k
  PROVE  IsFiniteSet(Places(s, S, k)) /\ Number(s, S, k) \in Nat
<1>1. Len(s) \in Int /\ 1 \in Int /\ DOMAIN s = 1..Len(s)
  BY LenProperties
<1>2. IsFiniteSet(1..Len(s))
  BY <1>1, FS_Interval
<1>3. Places(s, S, k) \in SUBSET (1..Len(s))
  BY <1>1 DEF Places
<1>4. IsFiniteSet(Places(s, S, k))
  BY <1>2, <1>3, FS_Subset
<1> QED
  BY <1>4, FS_CardinalityType DEF Number

(* None is up to 0. *)
LEMMA NumberOfNone ==
  ASSUME NEW T, NEW s \in Seq(T), NEW S
  PROVE  Number(s, S, 0) = 0
<1>1. Places(s, S, 0) = {}
  BY LenProperties DEF Places
<1> QED
  BY <1>1, FS_EmptySet DEF Number

(* Appending x adds one place if x is counted. *)
LEMMA NumberOfAppend ==
  ASSUME NEW T, NEW s \in Seq(T), NEW x \in T, NEW S, NEW k \in Nat
  PROVE  Number(Append(s, x), S, k) =
           Number(s, S, k) + (IF k > Len(s) /\ x \in S THEN 1 ELSE 0)
<1> DEFINE a == Append(s, x)
           n == Len(s) + 1
<1>1. /\ DOMAIN a = 1..n /\ DOMAIN s = 1..(n - 1) /\ n \in Nat
      /\ \A i \in 1..(n - 1) : a[i] = s[i]
      /\ a[n] = x
  BY AppendProperties, LenProperties
<1>2. n \notin Places(s, S, k) /\ IsFiniteSet(Places(s, S, k)) /\ Number(s, S, k) \in Nat
  <2>1. n \notin DOMAIN s
    BY <1>1
  <2> QED
    BY <2>1, NumberType DEF Places
<1> HIDE DEF a, n
<1>3. CASE k >= n /\ x \in S
  <2>1. Places(a, S, k) = Places(s, S, k) \cup {n}
    <3>1. \A i : i \in 1..n <=> i \in 1..(n - 1) \/ i = n
      BY LenProperties DEF n
    <3> QED
      BY <1>1, <1>3, <3>1 DEF Places
  <2>2. Number(a, S, k) = Number(s, S, k) + 1
    BY <2>1, <1>2, FS_AddElement DEF Number
  <2> QED
    BY <2>2, <1>3 DEF a, n
<1>4. CASE ~ (k >= n /\ x \in S)
  <2>1. Places(a, S, k) = Places(s, S, k)
    BY <1>1, <1>4 DEF Places
  <2>2. ~ (k > Len(s) /\ x \in S)
    BY <1>1, <1>4, LenProperties DEF n
  <2> QED
    BY <2>1, <2>2, <1>2 DEF Number, a
<1> QED
  BY <1>3, <1>4

(* What is left of a sequence without its i-th element. *)
LEMMA RemoveAtIs ==
  ASSUME NEW T, NEW s \in Seq(T), NEW i \in 1..Len(s)
  PROVE  /\ RemoveAt(s, i) \in Seq(T)
         /\ Len(RemoveAt(s, i)) = Len(s) - 1
         /\ \A j \in 1..(Len(s) - 1) : RemoveAt(s, i)[j]
                = IF j < i THEN s[j] ELSE s[j + 1]
<1> DEFINE u == SubSeq(s, 1, i - 1)
           v == SubSeq(s, i + 1, Len(s))
<1>0. Len(s) \in Nat /\ DOMAIN s = 1..Len(s) /\ i \in Int /\ 1 <= i /\ i <= Len(s)
  BY LenProperties
<1>1. u \in Seq(T) /\ Len(u) = i - 1 /\ \A j \in 1..(i - 1) : u[j] = s[j]
  <2>1. \A j \in 1..(i - 1) : s[j] \in T
    BY <1>0, ElementOfSeq
  <2> QED
    BY <1>0, <2>1, SubSeqProperties
<1>2. v \in Seq(T) /\ Len(v) = Len(s) - i /\ \A j \in 1..(Len(s) - i) : v[j] = s[i + j]
  <2>1. \A j \in (i + 1)..Len(s) : s[j] \in T
    BY <1>0, ElementOfSeq
  <2>2. /\ v \in Seq(T)
        /\ Len(v) = IF i + 1 <= Len(s) THEN Len(s) - (i + 1) + 1 ELSE 0
        /\ \A j \in 1..(Len(s) - (i + 1) + 1) : v[j] = s[(i + 1) + j - 1]
    BY <1>0, <2>1, SubSeqProperties
  <2> HIDE DEF v
  <2>3. Len(v) = Len(s) - i
    <3> DEFINE n == Len(s)
    <3>1. n \in Int /\ i \in Int /\ i <= n
      BY <1>0
    <3> HIDE DEF n
    <3>2. /\ i + 1 <= n => n - (i + 1) + 1 = n - i
          /\ ~ (i + 1 <= n) => n - i = 0
      BY <3>1
    <3> QED
      BY <2>2, <3>2 DEF n
  <2>4. ASSUME NEW j \in 1..(Len(s) - i) PROVE v[j] = s[i + j]
    <3>1. j \in 1..(Len(s) - (i + 1) + 1) /\ (i + 1) + j - 1 = i + j
      BY <1>0
    <3> QED
      BY <2>2, <3>1
  <2> QED
    BY <2>2, <2>3, <2>4
<1> HIDE DEF u, v
<1>3. /\ u \o v \in Seq(T) /\ Len(u \o v) = Len(u) + Len(v)
      /\ \A j \in 1..(Len(u) + Len(v)) : (u \o v)[j] = IF j
             <= Len(u) THEN u[j] ELSE v[j - Len(u)]
  BY <1>1, <1>2, ConcatProperties
<1>4. RemoveAt(s, i) = u \o v
  BY DEF RemoveAt, u, v
<1>5. ASSUME NEW j \in 1..(Len(s) - 1)
      PROVE  RemoveAt(s, i)[j] = IF j < i THEN s[j] ELSE s[j + 1]
  <2>1. CASE j < i
    BY <1>0, <1>1, <1>2, <1>3, <1>4, <2>1
  <2>2. CASE j >= i
    <3>1. (u \o v)[j] = v[j - (i - 1)] /\ j - (i - 1) \in 1..(Len(s) - i)
      BY <1>0, <1>1, <1>2, <1>3, <2>2
    <3>2. v[j - (i - 1)] = s[i + (j - (i - 1))] /\ i + (j - (i - 1)) = j + 1
      BY <1>0, <1>2, <3>1
    <3> QED
      BY <1>0, <1>4, <2>2, <3>1, <3>2
  <2> QED
    BY <1>0, <2>1, <2>2
<1>6. RemoveAt(s, i) \in Seq(T)
  BY <1>3, <1>4
<1>7. Len(RemoveAt(s, i)) = Len(s) - 1
  <2>1. Len(u \o v) = (i - 1) + (Len(s) - i)
    BY <1>1, <1>2, <1>3
  <2>2. Len(u \o v) = Len(s) - 1
    BY <1>0, <2>1
  <2> QED
    BY <1>4, <2>2
<1> QED
  BY <1>5, <1>6, <1>7

(* Without its i-th element, a sequence has one place less if that element  *)
(* was counted.                                                             *)
LEMMA NumberOfRemove ==
  ASSUME NEW T, NEW s \in Seq(T), NEW i \in 1..Len(s), NEW S, NEW k \in Nat,
        k >= i - 1
  PROVE  Number(RemoveAt(s, i), S, k) =
           Number(s, S, k + 1) - (IF s[i] \in S THEN 1 ELSE 0)
<1> DEFINE r == RemoveAt(s, i)
           A == Places(s, S, k + 1)
           B == Places(r, S, k)
           g == [j \in A \ {i} |-> IF j < i THEN j ELSE j - 1]
<1>1. /\ Len(s) \in Nat /\ DOMAIN s = 1..Len(s) /\ i \in Nat
      /\ r \in Seq(T) /\ Len(r) = Len(s) - 1 /\ DOMAIN r = 1..(Len(s) - 1)
      /\ \A j \in 1..(Len(s) - 1) : r[j] = IF j < i THEN s[j] ELSE s[j + 1]
  <2>1. Len(s) \in Nat /\ DOMAIN s = 1..Len(s) /\ i \in Nat
    BY LenProperties
  <2>2. /\ r \in Seq(T) /\ Len(r) = Len(s) - 1
        /\ \A j \in 1..(Len(s) - 1) : r[j] = IF j < i THEN s[j] ELSE s[j + 1]
    BY RemoveAtIs
  <2>3. DOMAIN r = 1..(Len(s) - 1)
    BY <2>2, LenProperties
  <2> QED
    BY <2>1, <2>2, <2>3
<1> HIDE DEF r
<1>2. IsFiniteSet(A) /\ Number(s, S, k + 1) \in Nat
  BY NumberType
<1>3. g \in Bijection(A \ {i}, B)
  <2>1. \A j \in A \ {i} : g[j] \in B
    <3> SUFFICES ASSUME NEW j \in A \ {i} PROVE g[j] \in B
      OBVIOUS
    <3>1. j \in 1..Len(s) /\ j <= k + 1 /\ s[j] \in S /\ j # i
      BY <1>1 DEF Places
    <3>2. CASE j < i
      BY <1>1, <3>1, <3>2 DEF Places
    <3>3. CASE j > i
      <4>1. j - 1 \in 1..(Len(s) - 1) /\ j - 1 <= k /\ ~ (j - 1 < i)
        BY <1>1, <3>1, <3>3
      <4>2. r[j - 1] = s[(j - 1) + 1] /\ (j - 1) + 1 = j
        BY <1>1, <3>1, <4>1
      <4> QED
        BY <1>1, <3>1, <3>3, <4>1, <4>2 DEF Places
    <3> QED
      BY <1>1, <3>1, <3>2, <3>3
  <2>2. \A j, l \in A \ {i} : g[j] = g[l] => j = l
    <3>1. \A j \in A \ {i} : j \in Int /\ j # i
      BY <1>1 DEF Places
    <3> QED
      BY <1>1, <3>1
  <2>3. \A l \in B : \E j \in A \ {i} : g[j] = l
    <3> SUFFICES ASSUME NEW l \in B PROVE \E j \in A \ {i} : g[j] = l
      OBVIOUS
    <3>1. l \in 1..(Len(s) - 1) /\ l <= k /\ r[l] \in S
      BY <1>1 DEF Places
    <3>2. CASE l < i
      <4>1. l \in A \ {i}
        BY <1>1, <3>1, <3>2 DEF Places
      <4> QED
        BY <3>2, <4>1
    <3>3. CASE l >= i
      <4>1. l + 1 \in A \ {i} /\ (l + 1) - 1 = l /\ ~ (l + 1 < i)
        BY <1>1, <3>1, <3>3 DEF Places
      <4>2. g[l + 1] = l
        BY <4>1
      <4> QED
        BY <4>1, <4>2
    <3> QED
      BY <1>1, <3>1, <3>2, <3>3
  <2>4. g \in [A \ {i} -> B]
    BY <2>1
  <2> QED
    BY <2>2, <2>3, <2>4 DEF Bijection, Injection, Surjection, IsInjective
<1>4. Cardinality(A \ {i}) = IF i \in A THEN Cardinality(A) - 1 ELSE Cardinality(A)
  BY <1>2, FS_RemoveElement
<1>5. Cardinality(B) = Cardinality(A \ {i})
  <2>1. IsFiniteSet(A \ {i}) /\ ExistsBijection(A \ {i}, B)
    BY <1>2, <1>3, FS_RemoveElement DEF ExistsBijection
  <2> QED
    BY <2>1, FS_Bijection
<1>6. i \in A <=> s[i] \in S
  BY <1>1 DEF Places
<1> QED
  BY <1>2, <1>4, <1>5, <1>6 DEF Number, r

(* Beyond its end, a sequence has no more places. *)
LEMMA NumberBeyond ==
  ASSUME NEW T, NEW s \in Seq(T), NEW S, NEW k \in Nat, k >= Len(s)
  PROVE  Number(s, S, k) = Number(s, S, Len(s))
<1>1. Places(s, S, k) = Places(s, S, Len(s))
  BY LenProperties DEF Places
<1> QED
  BY <1>1 DEF Number

(* What is left of a sequence without its head. *)
LEMMA NumberOfTail ==
  ASSUME NEW T, NEW s \in Seq(T), s # <<>>, NEW S, NEW k \in Nat
  PROVE  Number(Tail(s), S, k) = Number(s, S,
        k + 1) - (IF Head(s) \in S THEN 1 ELSE 0)
<1>1. Len(s) \in Nat \ {0} /\ 1 \in 1..Len(s) /\ Head(s) = s[1]
  BY EmptySeq
<1>2. RemoveAt(s, 1) \in Seq(T) /\ Len(RemoveAt(s, 1)) = Len(s) - 1
  BY <1>1, RemoveAtIs
<1>3. \A j \in 1..(Len(s) - 1) : RemoveAt(s, 1)[j] = s[j + 1]
  BY <1>1, RemoveAtIs
<1>4. /\ Tail(s) \in Seq(T) /\ Len(Tail(s)) = Len(s) - 1
      /\ \A j \in 1..(Len(s) - 1) : Tail(s)[j] = s[j + 1]
  BY HeadTailProperties
<1>5. Tail(s) = RemoveAt(s, 1)
  BY <1>2, <1>3, <1>4, SeqEqual
<1>6. \A i \in 1..Len(s) : k >= i - 1 =>
        Number(RemoveAt(s, i), S, k) = Number(s, S, k + 1) - (IF s[i] \in S THEN 1 ELSE 0)
  BY NumberOfRemove
<1>7. 1 \in 1..Len(s) /\ k >= 1 - 1
  BY <1>1
<1>8. Number(RemoveAt(s, 1), S, k) = Number(s, S, k + 1) - (IF s[1] \in S THEN 1 ELSE 0)
  BY <1>6, <1>7
<1> QED
  BY <1>1, <1>5, <1>8

(* A set of naturals with a member has a least one. *)
LEMMA Least ==
  ASSUME NEW S \in SUBSET Nat, S # {}
  PROVE  \E m \in S : \A k \in S : m <= k
<1>1. PICK m \in S : \A k \in S : ~ (<<k, m>> \in OpToRel(<, Nat))
  BY NatLessThanWellFounded, WFMin
<1>2. ASSUME NEW k \in S PROVE m <= k
  <2>1. k \in Nat /\ m \in Nat /\ <<k, m>> \in Nat \X Nat
    BY <1>1
  <2>2. ~ (k < m)
    BY <1>1, <2>1 DEF OpToRel
  <2> QED
    BY <2>1, <2>2
<1> QED
  BY <1>1, <1>2

(* What an operation on a sequence makes of its members. *)
LEMMA InAppend ==
  ASSUME NEW T, NEW s \in Seq(T), NEW y \in T, NEW x
  PROVE  In(x, Append(s, y)) <=> In(x, s) \/ x = y
<1> DEFINE n == Len(s) + 1
           a == Append(s, y)
<1>1. /\ DOMAIN a = 1..n /\ DOMAIN s = 1..(n - 1) /\ n \in Nat \ {0}
      /\ \A i \in 1..(n - 1) : a[i] = s[i]
      /\ a[n] = y
  BY AppendProperties, LenProperties
<1> HIDE DEF n, a
<1>2. \A i : i \in 1..n <=> i \in 1..(n - 1) \/ i = n
  BY <1>1
<1>3. In(x, a) <=> In(x, s) \/ x = y
  BY <1>1, <1>2 DEF In
<1> QED
  BY <1>3 DEF a

LEMMA InTail ==
  ASSUME NEW T, NEW s \in Seq(T), s # <<>>, NEW x
  PROVE  In(x, s) <=> x = Head(s) \/ In(x, Tail(s))
<1> DEFINE n == Len(s)
           r == Tail(s)
<1>1. n \in Nat \ {0} /\ DOMAIN s = 1..n /\ Head(s) = s[1]
  BY EmptySeq, LenProperties
<1>2. r \in Seq(T) /\ Len(r) = n - 1 /\ \A j \in 1..(n - 1) : r[j] = s[j + 1]
  BY HeadTailProperties
<1>3. DOMAIN r = 1..(n - 1)
  BY <1>2, LenProperties
<1> HIDE DEF n, r
<1>4. \A j \in 1..(n - 1) : j + 1 \in 1..n
  BY <1>1
<1>5. \A i \in 1..n : i = 1 \/ (i - 1 \in 1..(n - 1) /\ (i - 1) + 1 = i)
  BY <1>1
<1>6. 1 \in 1..n
  BY <1>1
<1>7. ASSUME In(x, s) PROVE x = Head(s) \/ In(x, r)
  <2>1. PICK i \in 1..n : s[i] = x
    BY <1>1, <1>7 DEF In
  <2>2. CASE i = 1
    BY <1>1, <2>1, <2>2
  <2>3. CASE i - 1 \in 1..(n - 1) /\ (i - 1) + 1 = i
    <3>1. r[i - 1] = s[(i - 1) + 1]
      BY <1>2, <2>3
    <3>2. r[i - 1] = x
      BY <2>1, <2>3, <3>1
    <3> QED
      BY <1>3, <2>3, <3>2 DEF In
  <2> QED
    BY <1>5, <2>2, <2>3
<1>8. ASSUME In(x, r) PROVE In(x, s)
  <2>1. PICK j \in 1..(n - 1) : r[j] = x
    BY <1>3, <1>8 DEF In
  <2>2. j + 1 \in 1..n /\ s[j + 1] = x
    BY <1>2, <1>4, <2>1
  <2> QED
    BY <1>1, <2>2 DEF In
<1>9. x = Head(s) => In(x, s)
  BY <1>1, <1>6 DEF In
<1> QED
  BY <1>7, <1>8, <1>9 DEF r

LEMMA InRemoveAt ==
  ASSUME NEW T, NEW s \in Seq(T), NEW i \in 1..Len(s), NEW x, In(x, RemoveAt(s, i))
  PROVE  In(x, s)
<1> DEFINE n == Len(s)
           r == RemoveAt(s, i)
<1>1. /\ r \in Seq(T) /\ Len(r) = n - 1
      /\ \A j \in 1..(n - 1) : r[j] = IF j < i THEN s[j] ELSE s[j + 1]
  BY RemoveAtIs
<1>2. n \in Nat /\ DOMAIN s = 1..n
  BY LenProperties
<1>3. DOMAIN r = 1..(n - 1)
  BY <1>1, LenProperties
<1> HIDE DEF n, r
<1>4. PICK j \in 1..(n - 1) : r[j] = x
  BY <1>3 DEF In, r
<1>5. j \in 1..n /\ j + 1 \in 1..n
  BY <1>2
<1>6. s[j] = x \/ s[j + 1] = x
  BY <1>1, <1>4
<1> QED
  BY <1>2, <1>5, <1>6 DEF In

-----------------------------------------------------------------------------
(* The file of a test that has ended has one in flight, the oldest of which *)
(* the tracker takes out.                                                   *)
LEMMA ReadEnd ==
  ASSUME Types, FileInv, ReadEvent, Head(pipe).type = "end"
  PROVE  \E i \in 1..Len(inFlight) : /\ FileOf[inFlight[i]] = FileOf[Head(pipe).test]
                                     /\ inFlight' = RemoveAt(inFlight, i)
<1> DEFINE e == Head(pipe)
           f == FileOf[e.test]
           same(i) == FileOf[inFlight[i]] = FileOf[e.test]
           c == CHOOSE i \in DOMAIN inFlight : IsFirst(i, same)
<1>1. /\ pipe # <<>> /\ pipe \in Seq(Events) /\ Tail(pipe) \in Seq(Events) /\ e \in Events
      /\ Len(pipe) \in Nat \ {0}
  BY EmptySeq, HeadTailProperties DEF ReadEvent, Types
<1>2. f \in File /\ e \in EndsOf(f) /\ e \notin StartsOf(f)
  BY <1>1, TestAssumption DEF Events, EndsOf, StartsOf, Starts
<1>3. inFlight \in Seq(Test) /\ Len(inFlight) \in Nat
      /\ DOMAIN inFlight = 1..Len(inFlight)
  BY LenProperties DEF Types
<1> HIDE DEF e, f
<1>4. Number(pipe, EndsOf(f), 1) = 1 /\ Number(pipe, StartsOf(f), 1) = 0
  <2>1. \A S : Number(Tail(pipe), S, 0) = 0 /\ Number(pipe, S, 1) \in Nat
    BY <1>1, NumberOfNone, NumberType
  <2>2. \A S : Number(Tail(pipe), S, 0)
            = Number(pipe, S, 0 + 1) - (IF e \in S THEN 1 ELSE 0)
    BY <1>1, NumberOfTail DEF e
  <2>3. \A S : Number(pipe, S, 1) = IF e \in S THEN 1 ELSE 0
    BY <2>1, <2>2
  <2> QED
    BY <1>2, <2>3
<1>5. Held(f) >= 1
  <2>1. 1 \in 0..Len(pipe) /\ Held(f) \in Nat
    BY <1>1, <1>3, NumberType DEF Held
  <2>2. \A k \in 0..Len(pipe) :
          Number(pipe, EndsOf(f), k) <= Held(f) + Number(pipe, StartsOf(f), k)
    BY <1>2 DEF FileInv
  <2>3. Number(pipe, EndsOf(f), 1) <= Held(f) + Number(pipe, StartsOf(f), 1)
    BY <2>1, <2>2
  <2> QED
    BY <1>4, <2>1, <2>3
<1>6. {i \in DOMAIN inFlight : same(i)} # {}
  <2>1. Places(inFlight, TestsOf(f), Len(inFlight)) # {}
    BY <1>5, FS_EmptySet DEF Held, Number
  <2> QED
    BY <2>1 DEF Places, TestsOf, f
<1>7. PICK m \in DOMAIN inFlight : same(m) /\ \A j \in DOMAIN inFlight : same(j) => m <= j
  <2>1. {i \in DOMAIN inFlight : same(i)} \in SUBSET Nat
    BY <1>3
  <2> QED
    BY <1>6, <2>1, Least
<1>8. IsFirst(m, same)
  <2>1. ASSUME NEW j \in 1..(m - 1) PROVE ~ same(j)
    <3>1. j \in DOMAIN inFlight /\ ~ (m <= j)
      BY <1>3, <1>7
    <3> QED
      BY <1>7, <3>1
  <2> QED
    BY <1>7, <2>1 DEF IsFirst
<1>9. c \in DOMAIN inFlight /\ IsFirst(c, same)
  BY <1>8
<1>10. c \in DOMAIN inFlight /\ same(c)
  BY <1>9 DEF IsFirst
<1>11. inFlight' = RemoveAt(inFlight, c)
  BY <1>6 DEF ReadEvent, Observe, e
<1> QED
  BY <1>3, <1>10, <1>11 DEF e

(* A test whose start is read is put in flight, one whose end is read is    *)
(* completed, and one of its file is taken out of flight.                   *)
LEMMA ReadStart ==
  ASSUME Types, ReadEvent, Head(pipe).type = "start"
  PROVE  inFlight' = Append(inFlight, Head(pipe).test) /\ completed' = completed
  BY DEF ReadEvent, Observe

(* What the tracker holds of each file moves with what it reads. *)
LEMMA HeldMoves ==
  ASSUME Types, FileInv, ReadEvent, NEW f \in File
  PROVE  LET one == IF FileOf[Head(pipe).test] = f THEN 1 ELSE 0 IN
         /\ Head(pipe).type = "start" => Held(f)' = Held(f) + one
         /\ Head(pipe).type = "end" => Held(f)' = Held(f) - one
<1> DEFINE t == Head(pipe).test
<1>1. inFlight \in Seq(Test) /\ Len(inFlight) \in Nat /\ t \in Test
  <2>1. Head(pipe) \in Events
    BY HeadTailProperties DEF Types, ReadEvent
  <2>2. inFlight \in Seq(Test) /\ Len(inFlight) \in Nat
    BY LenProperties DEF Types
  <2> QED
    BY <2>1, <2>2 DEF Events
<1>2. \A x \in Test : x \in TestsOf(f) <=> FileOf[x] = f
  BY DEF TestsOf
<1> HIDE DEF t
<1>3. CASE Head(pipe).type = "start"
  <2>1. inFlight' = Append(inFlight, t) /\ Len(inFlight') = Len(inFlight) + 1
    BY <1>1, <1>3, ReadStart, AppendProperties DEF t
  <2>2. Number(Append(inFlight, t), TestsOf(f), Len(inFlight) + 1)
          = Number(inFlight, TestsOf(f), Len(inFlight) + 1)
              + (IF t \in TestsOf(f) THEN 1 ELSE 0)
    BY <1>1, NumberOfAppend
  <2>3. Number(inFlight, TestsOf(f), Len(inFlight) + 1)
            = Number(inFlight, TestsOf(f), Len(inFlight))
    BY <1>1, NumberBeyond
  <2> QED
    BY <1>1, <1>2, <1>3, <2>1, <2>2, <2>3 DEF Held, t
<1>4. CASE Head(pipe).type = "end"
  <2>1. PICK i \in 1..Len(inFlight) : FileOf[inFlight[i]] = FileOf[t]
        /\ inFlight' = RemoveAt(inFlight, i)
    BY <1>4, ReadEnd DEF t
  <2>2. Len(inFlight') = Len(inFlight) - 1 /\ inFlight[i] \in Test
    BY <1>1, <2>1, RemoveAtIs, ElementOfSeq
  <2>3. Len(inFlight) - 1 \in Nat /\ Len(inFlight) - 1 >= i - 1
        /\ (Len(inFlight) - 1) + 1 = Len(inFlight)
    BY <1>1
  <2>4. Number(RemoveAt(inFlight, i), TestsOf(f), Len(inFlight) - 1)
          = Number(inFlight, TestsOf(f), Len(inFlight))
              - (IF inFlight[i] \in TestsOf(f) THEN 1 ELSE 0)
    BY <1>1, <2>3, NumberOfRemove
  <2> QED
    BY <1>1, <1>2, <1>4, <2>1, <2>2, <2>4 DEF Held, t
<1> QED
  BY <1>3, <1>4

(* An event written to the pipe is counted behind what was in it. *)
LEMMA PipeGrows ==
  ASSUME Types, NEW e \in Events, pipe' = Append(pipe, e), UNCHANGED inFlight,
        NEW f \in File
  PROVE  /\ Len(pipe') = Len(pipe) + 1 /\ Len(pipe) \in Nat
         /\ Held(f)' = Held(f) /\ Held(f) \in Nat
         /\ \A S : \A k \in 0..Len(pipe) :
              Number(pipe', S, k) = Number(pipe, S, k) /\ Number(pipe, S, k) \in Nat
         /\ \A S : Number(pipe', S, Len(pipe) + 1)
                     = Number(pipe, S, Len(pipe)) + (IF e \in S THEN 1 ELSE 0)
<1>1. pipe \in Seq(Events) /\ Len(pipe) \in Nat /\ Len(pipe') = Len(pipe) + 1
  BY LenProperties, AppendProperties DEF Types
<1>2. Held(f)' = Held(f) /\ Held(f) \in Nat
  BY NumberType DEF Held, Types
<1>3. ASSUME NEW S, NEW k \in 0..Len(pipe)
      PROVE  Number(pipe', S, k) = Number(pipe, S, k) /\ Number(pipe, S, k) \in Nat
  <2>1. k \in Nat /\ ~ (k > Len(pipe))
    BY <1>1
  <2>2. Number(pipe, S, k) \in Nat
    BY <1>1, NumberType
  <2>3. Number(Append(pipe, e), S, k)
          = Number(pipe, S, k) + (IF k > Len(pipe) /\ e \in S THEN 1 ELSE 0)
    BY <1>1, <2>1, NumberOfAppend
  <2> QED
    BY <2>1, <2>2, <2>3
<1>4. ASSUME NEW S
      PROVE  Number(pipe', S, Len(pipe) + 1)
               = Number(pipe, S, Len(pipe)) + (IF e \in S THEN 1 ELSE 0)
  <2>1. Len(pipe) + 1 \in Nat /\ Len(pipe) + 1 > Len(pipe) /\ Len(pipe) + 1 >= Len(pipe)
    BY <1>1
  <2>2. Number(pipe, S, Len(pipe) + 1) = Number(pipe, S, Len(pipe))
    BY <1>1, <2>1, NumberBeyond
  <2>3. Number(Append(pipe, e), S, Len(pipe) + 1)
          = Number(pipe, S, Len(pipe) + 1)
              + (IF Len(pipe) + 1 > Len(pipe) /\ e \in S THEN 1 ELSE 0)
    BY <1>1, <2>1, NumberOfAppend
  <2> QED
    BY <2>1, <2>2, <2>3
<1> QED
  BY <1>1, <1>2, <1>3, <1>4

(* What runs of a file is finite. *)
LEMMA RunningFinite ==
  ASSUME Types, NEW f
  PROVE  /\ IsFiniteSet({t \in Running : FileOf[t] = f})
         /\ Cardinality({t \in Running : FileOf[t] = f}) \in Nat
<1>1. {t \in Running : FileOf[t] = f} \in SUBSET Test
  BY DEF Types, Running
<1> QED
  BY <1>1, TestAssumption, FS_Subset, FS_CardinalityType

(* A beginning is counted in its file. *)
LEMMA FileKeptByBegin ==
  ASSUME Types, FileInv, NEW t \in Test, BeginTest(t)
  PROVE  FileInv'
<1> DEFINE e == Event("start", t)
<1>1. e \in Events /\ pipe' = Append(pipe, e) /\ UNCHANGED <<inFlight, over>>
  BY DEF BeginTest, Event, Events, trackerVars
<1>2. begun' = begun \cup {t} /\ t \notin begun /\ over \subseteq begun
  BY DEF BeginTest, Types
<1>3. \A f \in File : (e \in StartsOf(f) <=> FileOf[t] = f) /\ e \notin EndsOf(f)
  BY <1>1 DEF Event, StartsOf, Starts, EndsOf
<1> HIDE DEF e
<1> SUFFICES ASSUME NEW f \in File
             PROVE  /\ \A k \in 0..Len(pipe') :
                         Number(pipe', EndsOf(f), k)
                             <= Held(f)' + Number(pipe', StartsOf(f), k)
                    /\ Held(f)' + Number(pipe', StartsOf(f), Len(pipe'))
                           - Number(pipe', EndsOf(f), Len(pipe'))
                         = Cardinality({x \in Running' : FileOf[x] = f})
  BY DEF FileInv
<1> DEFINE R == {x \in Running : FileOf[x] = f}
           n == Len(pipe)
<1>4. /\ Len(pipe') = n + 1 /\ n \in Nat
      /\ Held(f)' = Held(f) /\ Held(f) \in Nat
      /\ \A S : \A k \in 0..n :
           Number(pipe', S, k) = Number(pipe, S, k) /\ Number(pipe, S, k) \in Nat
      /\ \A S : Number(pipe', S, n + 1) = Number(pipe, S, n) + (IF e \in S THEN 1 ELSE 0)
  BY <1>1, PipeGrows
<1>5. /\ \A k \in 0..n : Number(pipe, EndsOf(f), k)
             <= Held(f) + Number(pipe, StartsOf(f), k)
      /\ Held(f) + Number(pipe, StartsOf(f), n) - Number(pipe, EndsOf(f), n)
             = Cardinality(R)
  BY DEF FileInv
<1>6. Cardinality({x \in Running' : FileOf[x] = f})
        = Cardinality(R) + (IF FileOf[t] = f THEN 1 ELSE 0)
  <2>1. IsFiniteSet(R) /\ Cardinality(R) \in Nat /\ t \notin R
    BY <1>2, RunningFinite DEF Running
  <2>2. {x \in Running' : FileOf[x] = f} = IF FileOf[t] = f THEN R \cup {t} ELSE R
    BY <1>1, <1>2 DEF Running
  <2>3. Cardinality(R \cup {t}) = Cardinality(R) + 1
    BY <2>1, FS_AddElement
  <2> QED
    BY <2>1, <2>2, <2>3
<1>7. Cardinality(R) \in Nat
  BY RunningFinite
<1> HIDE DEF R, n
<1>8. n \in 0..n
  BY <1>4
<1>9. ASSUME NEW k \in 0..(n + 1)
      PROVE  Number(pipe', EndsOf(f), k) <= Held(f) + Number(pipe', StartsOf(f), k)
  <2>1. CASE k = n + 1
    BY <1>3, <1>4, <1>5, <1>8, <2>1
  <2>2. CASE k \in 0..n
    BY <1>4, <1>5, <2>2
  <2> QED
    BY <1>4, <2>1, <2>2
<1>10. Held(f) + Number(pipe', StartsOf(f), n + 1) - Number(pipe', EndsOf(f), n + 1)
         = Cardinality(R) + (IF FileOf[t] = f THEN 1 ELSE 0)
  BY <1>3, <1>4, <1>5, <1>7, <1>8
<1> QED
  BY <1>4, <1>6, <1>9, <1>10

(* So is an end. *)
LEMMA FileKeptByEnd ==
  ASSUME Types, FileInv, NEW t \in Test, EndTest(t)
  PROVE  FileInv'
<1> DEFINE e == Event("end", t)
<1>1. e \in Events /\ pipe' = Append(pipe, e) /\ UNCHANGED <<inFlight, begun>>
  BY DEF EndTest, Event, Events, trackerVars
<1>2. over' = over \cup {t} /\ t \in Running
  BY DEF EndTest
<1>3. \A f \in File : (e \in EndsOf(f) <=> FileOf[t] = f) /\ e \notin StartsOf(f)
  BY <1>1 DEF Event, StartsOf, Starts, EndsOf
<1> HIDE DEF e
<1> SUFFICES ASSUME NEW f \in File
             PROVE  /\ \A k \in 0..Len(pipe') :
                         Number(pipe', EndsOf(f), k)
                             <= Held(f)' + Number(pipe', StartsOf(f), k)
                    /\ Held(f)' + Number(pipe', StartsOf(f), Len(pipe'))
                           - Number(pipe', EndsOf(f), Len(pipe'))
                         = Cardinality({x \in Running' : FileOf[x] = f})
  BY DEF FileInv
<1> DEFINE R == {x \in Running : FileOf[x] = f}
           n == Len(pipe)
<1>4. /\ Len(pipe') = n + 1 /\ n \in Nat
      /\ Held(f)' = Held(f) /\ Held(f) \in Nat
      /\ \A S : \A k \in 0..n :
           Number(pipe', S, k) = Number(pipe, S, k) /\ Number(pipe, S, k) \in Nat
      /\ \A S : Number(pipe', S, n + 1) = Number(pipe, S, n) + (IF e \in S THEN 1 ELSE 0)
  BY <1>1, PipeGrows
<1>5. /\ \A k \in 0..n : Number(pipe, EndsOf(f), k)
             <= Held(f) + Number(pipe, StartsOf(f), k)
      /\ Held(f) + Number(pipe, StartsOf(f), n) - Number(pipe, EndsOf(f), n)
             = Cardinality(R)
  BY DEF FileInv
<1>6. Cardinality({x \in Running' : FileOf[x] = f})
        = Cardinality(R) - (IF FileOf[t] = f THEN 1 ELSE 0)
  <2>1. IsFiniteSet(R) /\ Cardinality(R) \in Nat
    BY RunningFinite
  <2>2. {x \in Running' : FileOf[x] = f} = IF FileOf[t] = f THEN R \ {t} ELSE R
    BY <1>1, <1>2 DEF Running
  <2>3. FileOf[t] = f => t \in R
    BY <1>2
  <2>4. FileOf[t] = f => Cardinality(R \ {t}) = Cardinality(R) - 1
    BY <2>1, <2>3, FS_RemoveElement
  <2> QED
    BY <2>1, <2>2, <2>4
<1>7. Cardinality(R) \in Nat /\ (FileOf[t] = f => Cardinality(R) >= 1)
  <2>1. IsFiniteSet(R) /\ Cardinality(R) \in Nat
    BY RunningFinite
  <2>2. FileOf[t] = f => R # {}
    BY <1>2
  <2> QED
    BY <2>1, <2>2, FS_EmptySet
<1> HIDE DEF R, n
<1>8. n \in 0..n
  BY <1>4
<1>9. ASSUME NEW k \in 0..(n + 1)
      PROVE  Number(pipe', EndsOf(f), k) <= Held(f) + Number(pipe', StartsOf(f), k)
  <2>1. CASE k = n + 1
    BY <1>3, <1>4, <1>5, <1>7, <1>8, <2>1
  <2>2. CASE k \in 0..n
    BY <1>4, <1>5, <2>2
  <2> QED
    BY <1>4, <2>1, <2>2
<1>10. Held(f) + Number(pipe', StartsOf(f), n + 1) - Number(pipe', EndsOf(f), n + 1)
         = Cardinality(R) - (IF FileOf[t] = f THEN 1 ELSE 0)
  BY <1>3, <1>4, <1>5, <1>7, <1>8
<1> QED
  BY <1>4, <1>6, <1>9, <1>10

(* What is read moves from the pipe into the tracker. *)
LEMMA FileKeptByRead ==
  ASSUME Types, FileInv, ReadEvent
  PROVE  FileInv'
<1> DEFINE e == Head(pipe)
           n == Len(pipe)
<1>1. /\ pipe # <<>> /\ pipe \in Seq(Events) /\ pipe' = Tail(pipe) /\ e \in Events
      /\ n \in Nat \ {0} /\ Len(pipe') = n - 1
  BY EmptySeq, HeadTailProperties DEF ReadEvent, Types
<1>2. UNCHANGED <<begun, over>>
  BY DEF ReadEvent, groupVars
<1> SUFFICES ASSUME NEW f \in File
             PROVE  /\ \A k \in 0..Len(pipe') :
                         Number(pipe', EndsOf(f), k)
                             <= Held(f)' + Number(pipe', StartsOf(f), k)
                    /\ Held(f)' + Number(pipe', StartsOf(f), Len(pipe'))
                           - Number(pipe', EndsOf(f), Len(pipe'))
                         = Cardinality({x \in Running' : FileOf[x] = f})
  BY DEF FileInv
<1> DEFINE one == IF FileOf[e.test] = f THEN 1 ELSE 0
<1>3. /\ e.type = "start" => Held(f)' = Held(f) + one
      /\ e.type = "end" => Held(f)' = Held(f) - one
  BY HeldMoves
<1>4. e.type \in {"start", "end"} /\ one \in {0, 1} /\ Held(f) \in Nat
  <2>1. Held(f) \in Nat
    BY NumberType DEF Held, Types
  <2> QED
    BY <1>1, <2>1 DEF Events
<1>5. /\ e \in StartsOf(f) <=> e.type = "start" /\ FileOf[e.test] = f
      /\ e \in EndsOf(f) <=> e.type = "end" /\ FileOf[e.test] = f
  BY <1>1 DEF StartsOf, Starts, EndsOf
<1> HIDE DEF e, n
<1>6. \A S : \A k \in Nat :
      /\ Number(pipe', S, k) = Number(pipe, S, k + 1) - (IF e \in S THEN 1 ELSE 0)
                            /\ Number(pipe, S, k + 1) \in Nat
  BY <1>1, NumberOfTail, NumberType DEF e
<1>7. /\ \A k \in 0..n : Number(pipe, EndsOf(f), k)
             <= Held(f) + Number(pipe, StartsOf(f), k)
      /\ Held(f) + Number(pipe, StartsOf(f), n) - Number(pipe, EndsOf(f), n)
           = Cardinality({x \in Running : FileOf[x] = f})
  BY DEF FileInv, n
<1> HIDE DEF one
<1>8. \A k \in Nat : Held(f)' + Number(pipe', StartsOf(f), k)
          - Number(pipe', EndsOf(f), k)
                       = Held(f) + Number(pipe, StartsOf(f), k + 1)
                           - Number(pipe, EndsOf(f), k + 1)
  BY <1>3, <1>4, <1>5, <1>6 DEF one
<1>9. ASSUME NEW k \in 0..Len(pipe')
      PROVE  Number(pipe', EndsOf(f), k) <= Held(f)' + Number(pipe', StartsOf(f), k)
  <2>1. k \in Nat /\ k + 1 \in 0..n
    BY <1>1
  <2>2. Number(pipe, EndsOf(f), k + 1) <= Held(f) + Number(pipe, StartsOf(f), k + 1)
    BY <1>7, <2>1
  <2> QED
    BY <1>3, <1>4, <1>5, <1>6, <2>1, <2>2 DEF one
<1>10. Held(f)' + Number(pipe', StartsOf(f), n - 1) - Number(pipe', EndsOf(f), n - 1)
         = Cardinality({x \in Running : FileOf[x] = f})
  <2>1. n - 1 \in Nat /\ (n - 1) + 1 = n
    BY <1>1
  <2> QED
    BY <1>7, <1>8, <2>1
<1> QED
  BY <1>1, <1>2, <1>9, <1>10 DEF Running

-----------------------------------------------------------------------------
(* A result lists what is completed and, of a killed run, what is in flight. *)
LEMMA PerTestIs ==
  ASSUME Types
  PROVE  /\ PerTest \in Seq([test : Test, status : {"ended", "killed"}])
         /\ kill.taken =>
              LET c == Len(completed) IN
              /\ Len(PerTest) = c + Len(inFlight)
              /\ \A i \in 1..c : PerTest[i] = Stat(completed[i], "ended")
              /\ \A i \in 1..Len(inFlight) : PerTest[c + i] = Stat(inFlight[i], "killed")
<1> DEFINE Item == [test : Test, status : {"ended", "killed"}]
           c == [i \in DOMAIN completed |-> Stat(completed[i], "ended")]
           d == [i \in DOMAIN inFlight |-> Stat(inFlight[i], "killed")]
<1>1. c \in Seq(Item) /\ Len(c) = Len(completed)
  <2>1. Len(completed) \in Nat /\ DOMAIN completed = 1..Len(completed)
    BY LenProperties DEF Types
  <2>2. \A i \in 1..Len(completed) : Stat(completed[i], "ended") \in Item
    BY ElementOfSeq DEF Types, Stat
  <2> QED
    BY <2>1, <2>2
<1>2. d \in Seq(Item) /\ Len(d) = Len(inFlight)
  <2>1. Len(inFlight) \in Nat /\ DOMAIN inFlight = 1..Len(inFlight)
    BY LenProperties DEF Types
  <2>2. \A i \in 1..Len(inFlight) : Stat(inFlight[i], "killed") \in Item
    BY ElementOfSeq DEF Types, Stat
  <2> QED
    BY <2>1, <2>2
<1>3. PerTest = c \o IF ~kill.taken THEN <<>> ELSE d
  BY DEF PerTest
<1>4. <<>> \in Seq(Item)
  BY EmptySeq
<1> HIDE DEF c, d, Item
<1>5. PerTest \in Seq(Item)
  BY <1>1, <1>2, <1>3, <1>4, ConcatProperties
<1>6. ASSUME kill.taken
      PROVE  /\ Len(PerTest) = Len(completed) + Len(inFlight)
             /\ \A i \in 1..Len(completed) : PerTest[i] = c[i]
             /\ \A i \in 1..Len(inFlight) : PerTest[Len(completed) + i] = d[i]
  <2> DEFINE n == Len(c)
             m == Len(d)
             P == c \o d
  <2>1. /\ Len(P) = n + m
        /\ \A i \in 1..(n + m) : P[i] = IF i <= n THEN c[i] ELSE d[i - n]
    BY <1>1, <1>2, ConcatProperties
  <2>2. PerTest = P
    BY <1>3, <1>6
  <2>3. n \in Nat /\ m \in Nat /\ n = Len(completed) /\ m = Len(inFlight)
    BY <1>1, <1>2, LenProperties
  <2> HIDE DEF n, m, P
  <2>4. \A i \in 1..n : i \in 1..(n + m) /\ i <= n
    BY <2>3
  <2>5. \A i \in 1..m : n + i \in 1..(n + m) /\ ~ (n + i <= n) /\ (n + i) - n = i
    BY <2>3
  <2>6. \A i \in 1..n : P[i] = c[i]
    BY <2>1, <2>4
  <2>7. \A i \in 1..m : P[n + i] = d[i]
    BY <2>1, <2>5
  <2> QED
    BY <2>1, <2>2, <2>3, <2>6, <2>7
<1>7. /\ \A i \in 1..Len(completed) : c[i] = Stat(completed[i], "ended")
      /\ \A i \in 1..Len(inFlight) : d[i] = Stat(inFlight[i], "killed")
  BY LenProperties DEF c, d, Types
<1> QED
  BY <1>5, <1>6, <1>7 DEF Item

(* What a killed run's result lists, by status and by file. *)
LEMMA PerTestLists ==
  ASSUME Types, kill.taken
  PROVE  LET of(status) == {j \in DOMAIN PerTest : PerTest[j].status = status} IN
         /\ {PerTest[i].test : i \in of("ended")} = {t \in Test : In(t, completed)}
         /\ {PerTest[i].test : i \in of("killed")} = {t \in Test : In(t, inFlight)}
         /\ \A f \in File :
              Cardinality({i \in DOMAIN PerTest :
                             PerTest[i].status = "killed" /\ FileOf[PerTest[i].test] = f})
                = Held(f)
<1> DEFINE L == PerTest
           n == Len(completed)
           m == Len(inFlight)
<1>1. /\ DOMAIN L = 1..(n + m)
      /\ \A i \in 1..n : L[i].test = completed[i] /\ L[i].status = "ended"
      /\ \A i \in 1..m : L[n + i].test = inFlight[i] /\ L[n + i].status = "killed"
  <2>1. /\ Len(L) = n + m
        /\ \A i \in 1..n : L[i] = Stat(completed[i], "ended")
        /\ \A i \in 1..m : L[n + i] = Stat(inFlight[i], "killed")
    BY PerTestIs
  <2>2. L \in Seq([test : Test, status : {"ended", "killed"}])
    BY PerTestIs
  <2>3. DOMAIN L = 1..Len(L)
    BY <2>2, LenProperties
  <2> HIDE DEF L, n, m
  <2>4. \A t, status : Stat(t, status).test = t /\ Stat(t, status).status = status
    BY DEF Stat
  <2> QED
    BY <2>1, <2>3, <2>4
<1>2. /\ n \in Nat /\ DOMAIN completed = 1..n
      /\ m \in Nat /\ DOMAIN inFlight = 1..m
  BY LenProperties DEF Types
<1>3. /\ \A i \in 1..n : completed[i] \in Test
      /\ \A i \in 1..m : inFlight[i] \in Test
  BY ElementOfSeq DEF Types
<1> HIDE DEF L, n, m
<1>4. /\ \A j \in 1..(n + m) : j \in 1..n \/ (j - n \in 1..m /\ n + (j - n) = j)
      /\ \A i \in 1..n : i \in 1..(n + m)
      /\ \A i \in 1..m : n + i \in 1..(n + m)
  BY <1>2
<1>5. /\ {j \in DOMAIN L : L[j].status = "ended"} = 1..n
      /\ {j \in DOMAIN L : L[j].status = "killed"} = {n + i : i \in 1..m}
  <2>1. ASSUME NEW j \in 1..(n + m), L[j].status = "ended" PROVE j \in 1..n
    <3>1. CASE j - n \in 1..m /\ n + (j - n) = j
      <4>1. L[n + (j - n)].status = "killed"
        BY <1>1, <3>1
      <4> QED
        BY <2>1, <3>1, <4>1
    <3> QED
      BY <1>4, <3>1
  <2>2. ASSUME NEW j \in 1..(n + m), L[j].status = "killed"
        PROVE  \E i \in 1..m : j = n + i
    <3>1. j \notin 1..n
      BY <1>1, <2>2
    <3> QED
      BY <1>4, <3>1
  <2>3. \A i \in 1..n : i \in 1..(n + m) /\ L[i].status = "ended"
    BY <1>1, <1>4
  <2>4. \A i \in 1..m : n + i \in 1..(n + m) /\ L[n + i].status = "killed"
    BY <1>1, <1>4
  <2> QED
    BY <1>1, <2>1, <2>2, <2>3, <2>4
<1>6. {L[i].test : i \in {j \in DOMAIN L : L[j].status = "ended"}} = {t \in Test : In(t, completed)}
  <2>1. {L[i].test : i \in 1..n} = {t \in Test : In(t, completed)}
    BY <1>1, <1>2, <1>3 DEF In
  <2> QED
    BY <1>5, <2>1
<1>7. {L[i].test : i \in {j \in DOMAIN L : L[j].status = "killed"}} = {t \in Test : In(t, inFlight)}
  <2>1. {L[i].test : i \in {n + k : k \in 1..m}} = {t \in Test : In(t, inFlight)}
    <3>1. {L[i].test : i \in {n + k : k \in 1..m}} = {L[n + k].test : k \in 1..m}
      OBVIOUS
    <3>2. {L[n + k].test : k \in 1..m} = {inFlight[k] : k \in 1..m}
      BY <1>1
    <3>3. {inFlight[k] : k \in 1..m} = {t \in Test : In(t, inFlight)}
      BY <1>2, <1>3 DEF In
    <3> QED
      BY <3>1, <3>2, <3>3
  <2> QED
    BY <1>5, <2>1
<1>8. ASSUME NEW f \in File
      PROVE  Cardinality({i \in DOMAIN L : L[i].status = "killed" /\ FileOf[L[i].test] = f}) = Held(f)
  <2> DEFINE A == Places(inFlight, TestsOf(f), m)
             B == {i \in DOMAIN L : L[i].status = "killed" /\ FileOf[L[i].test] = f}
             g == [i \in A |-> n + i]
  <2>1. \A i \in A : i \in 1..m /\ FileOf[inFlight[i]] = f
    BY <1>2 DEF Places, TestsOf
  <2>2. \A i \in 1..m : FileOf[inFlight[i]] = f => i \in A
    BY <1>2, <1>3 DEF Places, TestsOf
  <2>3. \A i \in A : n + i \in B
    BY <1>1, <1>4, <2>1
  <2>4. \A j \in B : \E i \in A : j = n + i
    <3> SUFFICES ASSUME NEW j \in B PROVE \E i \in A : j = n + i
      OBVIOUS
    <3>1. PICK i \in 1..m : j = n + i
      BY <1>5
    <3>2. FileOf[inFlight[i]] = f
      BY <1>1, <3>1
    <3> QED
      BY <2>2, <3>1, <3>2
  <2>5. IsFiniteSet(A)
    BY NumberType DEF Types
  <2> HIDE DEF A, B
  <2>6. \A i, k \in A : n + i = n + k => i = k
    BY <1>2, <2>1
  <2>7. g \in Bijection(A, B)
    BY <2>3, <2>4, <2>6 DEF Bijection, Injection, Surjection, IsInjective
  <2>8. Cardinality(A) = Cardinality(B)
    BY <2>5, <2>7, FS_Bijection DEF ExistsBijection
  <2> QED
    BY <2>8 DEF A, B, Held, Number, m
<1> QED
  BY <1>6, <1>7, <1>8 DEF L

(* Every step keeps the types, ... *)
LEMMA TypesKept ==
  ASSUME Types, FileInv, [Next]_vars
  PROVE  Types'
<1> USE DEF Types, groupVars, trackerVars, timerVars, None, NoCode, Signal
<1>1. ASSUME NEW t \in Test, BeginTest(t) PROVE Types'
  <2>1. Event("start", t) \in Events
    BY DEF Event, Events
  <2>2. pipe' \in Seq(Events)
    BY <1>1, <2>1, AppendProperties DEF BeginTest
  <2> QED
    BY <1>1, <2>2 DEF BeginTest
<1>2. ASSUME NEW t \in Test, EndTest(t) PROVE Types'
  <2>1. Event("end", t) \in Events
    BY DEF Event, Events
  <2>2. pipe' \in Seq(Events)
    BY <1>2, <2>1, AppendProperties DEF EndTest
  <2> QED
    BY <1>2, <2>2 DEF EndTest, Running
<1>3. ASSUME RunnerExits PROVE Types'
  BY <1>3 DEF RunnerExits
<1>4. ASSUME RunnerTermed PROVE Types'
  BY <1>4 DEF RunnerTermed
<1>5. ASSUME RunnerCrashes PROVE Types'
  BY <1>5 DEF RunnerCrashes
<1>6. ASSUME NEW h \in Helper, HelperEnds(h) PROVE Types'
  BY <1>6 DEF HelperEnds
<1>7. ASSUME ReadEvent PROVE Types'
  <2>1. pipe' \in Seq(Events) /\ Head(pipe) \in Events
    BY <1>7, HeadTailProperties DEF ReadEvent
  <2>2. Head(pipe).type \in {"start", "end"} /\ Head(pipe).test \in Test
    BY <2>1 DEF Events
  <2>3. inFlight' \in Seq(Test)
    <3>1. CASE Head(pipe).type = "start"
      <4>1. inFlight' = Append(inFlight, Head(pipe).test)
        BY <1>7, <3>1, ReadStart
      <4> QED
        BY <2>2, <4>1, AppendProperties
    <3>2. CASE Head(pipe).type = "end"
      BY <1>7, <3>2, ReadEnd, RemoveAtIs
    <3> QED
      BY <2>2, <3>1, <3>2
  <2>4. completed' \in Seq(Test)
    <3>1. Append(completed, Head(pipe).test) \in Seq(Test)
      BY <2>2, AppendProperties
    <3>2. completed' \in {completed, Append(completed, Head(pipe).test)}
      BY <1>7 DEF ReadEvent, Observe
    <3> QED
      BY <3>1, <3>2
  <2> QED
    BY <1>7, <2>1, <2>3, <2>4 DEF ReadEvent
<1>8. ASSUME DeadlineFires PROVE Types'
  BY <1>8 DEF DeadlineFires
<1>9. ASSUME KillFires PROVE Types'
  BY <1>9 DEF KillFires
<1>10. ASSUME OnExit PROVE Types'
  <2>1. PerTest \in Seq([test : Test, status : {"ended", "killed"}])
    BY PerTestIs
  <2> QED
    BY <1>10, <2>1 DEF OnExit
<1>11. ASSUME ReportFromEnvelope PROVE Types'
  BY <1>11 DEF ReportFromEnvelope
<1>12. ASSUME UNCHANGED vars PROVE Types'
  BY <1>12 DEF vars
<1> QED
  BY <1>1, <1>2, <1>3, <1>4, <1>5, <1>6, <1>7, <1>8, <1>9, <1>10, <1>11, <1>12
     DEF Next

(* ... what the tracker holds of each file, ... *)
LEMMA FileKept ==
  ASSUME Types, FileInv, [Next]_vars
  PROVE  FileInv'
<1>1. CASE UNCHANGED <<begun, over, pipe, inFlight>>
  BY <1>1 DEF FileInv, Held, Running
<1>2. \/ \E t \in Test : BeginTest(t) \/ EndTest(t)
      \/ ReadEvent
      \/ UNCHANGED <<begun, over, pipe, inFlight>>
  BY DEF Next, RunnerExits, RunnerTermed, RunnerCrashes, HelperEnds, DeadlineFires,
     KillFires, OnExit, ReportFromEnvelope, vars, groupVars, trackerVars
<1> QED
  BY <1>1, <1>2, FileKeptByBegin, FileKeptByEnd, FileKeptByRead

(* ... and the number of all tests. *)
LEMMA TotalKept ==
  ASSUME Types, FileInv, TotalInv, [Next]_vars
  PROVE  TotalInv'
<1>1. pipe \in Seq(Events) /\ inFlight \in Seq(Test) /\ completed \in Seq(Test)
  BY DEF Types
<1>2. IsFiniteSet(begun) /\ Cardinality(begun) \in Nat
  BY TestAssumption, FS_Subset, FS_CardinalityType DEF Types
<1>3. Len(pipe) \in Nat /\ Len(inFlight) \in Nat /\ Len(completed) \in Nat
  BY <1>1, LenProperties
<1>4. \A k \in Nat : Number(pipe, Starts, k) \in Nat
  BY <1>1, NumberType
<1>5. ASSUME NEW e \in Events, pipe' = Append(pipe, e)
      PROVE  Number(pipe', Starts, Len(pipe'))
               = Number(pipe, Starts, Len(pipe)) + (IF e.type = "start" THEN 1 ELSE 0)
  <2>1. Len(pipe') = Len(pipe) + 1
    BY <1>1, <1>5, AppendProperties
  <2>2. Len(pipe) + 1 \in Nat /\ Len(pipe) + 1 >= Len(pipe) /\ Len(pipe) + 1 > Len(pipe)
    BY <1>3
  <2>3. Number(Append(pipe, e), Starts, Len(pipe) + 1)
          = Number(pipe, Starts, Len(pipe) + 1)
              + (IF Len(pipe) + 1 > Len(pipe) /\ e \in Starts THEN 1 ELSE 0)
    BY <1>1, <2>2, NumberOfAppend
  <2>4. Number(pipe, Starts, Len(pipe) + 1) = Number(pipe, Starts, Len(pipe))
    BY <1>1, <2>2, NumberBeyond
  <2>5. e \in Starts <=> e.type = "start"
    BY DEF Starts
  <2> QED
    BY <1>5, <2>1, <2>2, <2>3, <2>4, <2>5
<1>6. ASSUME NEW t \in Test, BeginTest(t) PROVE TotalInv'
  <2> DEFINE e == Event("start", t)
  <2>1. e \in Events /\ e.type = "start" /\ pipe' = Append(pipe, e)
    BY <1>6 DEF BeginTest, Event, Events
  <2>2. UNCHANGED trackerVars /\ begun' = begun \cup {t} /\ t \notin begun
    BY <1>6 DEF BeginTest
  <2>3. Cardinality(begun') = Cardinality(begun) + 1
    BY <1>2, <2>2, FS_AddElement
  <2> HIDE DEF e
  <2>4. Number(pipe', Starts, Len(pipe')) = Number(pipe, Starts, Len(pipe)) + 1
    BY <1>5, <2>1
  <2> QED
    BY <1>2, <1>3, <1>4, <2>2, <2>3, <2>4 DEF TotalInv, trackerVars
<1>7. ASSUME NEW t \in Test, EndTest(t) PROVE TotalInv'
  <2> DEFINE e == Event("end", t)
  <2>1. e \in Events /\ e.type # "start" /\ pipe' = Append(pipe, e)
    BY <1>7 DEF EndTest, Event, Events
  <2>2. UNCHANGED trackerVars /\ UNCHANGED begun
    BY <1>7 DEF EndTest
  <2> HIDE DEF e
  <2>3. Number(pipe', Starts, Len(pipe')) = Number(pipe, Starts, Len(pipe))
    <3>1. Number(pipe, Starts, Len(pipe)) \in Nat
      BY <1>3, <1>4
    <3> QED
      BY <1>5, <2>1, <3>1
  <2> QED
    BY <2>2, <2>3 DEF TotalInv, trackerVars
<1>8. ASSUME ReadEvent PROVE TotalInv'
  <2> DEFINE e == Head(pipe)
  <2>1. /\ pipe # <<>> /\ pipe' = Tail(pipe) /\ e \in Events
        /\ Len(pipe) \in Nat \ {0} /\ Len(pipe') = Len(pipe) - 1
    BY <1>1, <1>8, EmptySeq, HeadTailProperties DEF ReadEvent
  <2>2. UNCHANGED begun
    BY <1>8 DEF ReadEvent, groupVars
  <2>3. e.type \in {"start", "end"} /\ e.test \in Test
        /\ (e \in Starts <=> e.type = "start")
    BY <2>1 DEF Events, Starts
  <2>4. Len(pipe) - 1 \in Nat /\ (Len(pipe) - 1) + 1 = Len(pipe)
    BY <2>1
  <2>5. Number(Tail(pipe), Starts, Len(pipe) - 1)
          = Number(pipe, Starts, Len(pipe)) - (IF e \in Starts THEN 1 ELSE 0)
    BY <1>1, <2>1, <2>4, NumberOfTail
  <2> HIDE DEF e
  <2>6. CASE e.type = "start"
    <3>1. Len(inFlight') = Len(inFlight) + 1 /\ completed' = completed
      BY <1>1, <1>8, <2>3, <2>6, ReadStart, AppendProperties DEF Types, e
    <3> QED
      BY <1>2, <1>3, <1>4, <2>1, <2>2, <2>3, <2>5, <2>6, <3>1 DEF TotalInv
  <2>7. CASE e.type = "end"
    <3>1. Len(inFlight') = Len(inFlight) - 1
      BY <1>1, <1>8, <2>7, ReadEnd, RemoveAtIs DEF e
    <3>2. completed' = Append(completed, e.test)
      BY <1>8, <2>7 DEF ReadEvent, Observe, e
    <3>3. Len(completed') = Len(completed) + 1
      BY <1>1, <2>3, <3>2, AppendProperties
    <3> QED
      BY <1>2, <1>3, <1>4, <2>1, <2>2, <2>3, <2>5, <2>7, <3>1, <3>3 DEF TotalInv
  <2> QED
    BY <2>3, <2>6, <2>7
<1>9. CASE UNCHANGED <<begun, pipe, inFlight, completed>>
  BY <1>9 DEF TotalInv
<1>10. \/ \E t \in Test : BeginTest(t) \/ EndTest(t)
       \/ ReadEvent
       \/ UNCHANGED <<begun, pipe, inFlight, completed>>
  BY DEF Next, RunnerExits, RunnerTermed, RunnerCrashes, HelperEnds, DeadlineFires,
     KillFires, OnExit, ReportFromEnvelope, vars, groupVars, trackerVars
<1> QED
  BY <1>6, <1>7, <1>8, <1>9, <1>10

(* What the tracker holds or is told of has begun; completed is what ended. *)
LEMMA SeenKept ==
  ASSUME Types, FileInv, SeenInv, [Next]_vars
  PROVE  SeenInv'
<1>1. pipe \in Seq(Events) /\ inFlight \in Seq(Test) /\ completed \in Seq(Test)
  BY DEF Types
<1>2. \A type \in {"start", "end"}, u \in Test :
        Event(type, u) \in Events /\ Event(type, u).type = type /\ Event(type, u).test = u
  BY DEF Event, Events
<1>3. ASSUME NEW t \in Test, BeginTest(t) PROVE SeenInv'
  <2> DEFINE e == Event("start", t)
  <2>1. /\ pipe' = Append(pipe, e) /\ begun' = begun \cup {t}
        /\ UNCHANGED <<over, inFlight, completed>>
    BY <1>3 DEF BeginTest, trackerVars
  <2>2. \A x : In(x, pipe') <=> In(x, pipe) \/ x = e
    BY <1>1, <1>2, <2>1, InAppend
  <2>3. \A u \in Test : /\ Event("end", u) # e
                        /\ Event("start", u) = e => u = t
    BY <1>2
  <2> HIDE DEF e
  <2> QED
    BY <2>1, <2>2, <2>3 DEF SeenInv
<1>4. ASSUME NEW t \in Test, EndTest(t) PROVE SeenInv'
  <2> DEFINE e == Event("end", t)
  <2>1. /\ pipe' = Append(pipe, e) /\ over' = over \cup {t}
        /\ UNCHANGED <<begun, inFlight, completed>>
    BY <1>4 DEF EndTest, trackerVars
  <2>2. \A x : In(x, pipe') <=> In(x, pipe) \/ x = e
    BY <1>1, <1>2, <2>1, InAppend
  <2>3. \A u \in Test : /\ Event("start", u) # e
                        /\ Event("end", u) = e <=> u = t
    BY <1>2
  <2> HIDE DEF e
  <2> QED
    BY <2>1, <2>2, <2>3 DEF SeenInv
<1>5. ASSUME ReadEvent PROVE SeenInv'
  <2> DEFINE e == Head(pipe)
             t == Head(pipe).test
  <2>1. pipe # <<>> /\ pipe' = Tail(pipe) /\ UNCHANGED <<begun, over>>
    BY <1>5 DEF ReadEvent, groupVars
  <2>2. e \in Events
    BY <1>1, <2>1, HeadTailProperties
  <2>3. t \in Test /\ e.type \in {"start", "end"} /\ e = Event(e.type, t)
    BY <2>2 DEF Events, Event
  <2>4. \A x : In(x, pipe) <=> x = e \/ In(x, pipe')
    BY <1>1, <2>1, InTail
  <2>5. \A u \in Test : /\ Event("start", u) # Event("end", t)
                        /\ Event("end", u) # Event("start", t)
                        /\ Event("end", u) = Event("end", t) <=> u = t
    BY <1>2, <2>3
  <2>6. CASE e.type = "start"
    <3>1. inFlight' = Append(inFlight, t) /\ completed' = completed
      BY <1>5, <2>6, ReadStart
    <3>2. \A u : In(u, inFlight') <=> In(u, inFlight) \/ u = t
      BY <1>1, <2>3, <3>1, InAppend
    <3>3. e = Event("start", t)
      BY <2>3, <2>6
    <3> HIDE DEF e, t
    <3> QED
      BY <2>1, <2>3, <2>4, <2>5, <3>1, <3>2, <3>3 DEF SeenInv
  <2>7. CASE e.type = "end"
    <3>1. PICK i \in 1..Len(inFlight) : inFlight' = RemoveAt(inFlight, i)
      BY <1>5, <2>7, ReadEnd
    <3>2. \A u : In(u, inFlight') => In(u, inFlight)
      BY <1>1, <3>1, InRemoveAt
    <3>3. completed' = Append(completed, t)
      BY <1>5, <2>7 DEF ReadEvent, Observe
    <3>4. \A u : In(u, completed') <=> In(u, completed) \/ u = t
      BY <1>1, <2>3, <3>3, InAppend
    <3>5. e = Event("end", t)
      BY <2>3, <2>7
    <3> HIDE DEF e, t
    <3> QED
      BY <2>1, <2>3, <2>4, <2>5, <3>2, <3>4, <3>5 DEF SeenInv
  <2> QED
    BY <2>3, <2>6, <2>7
<1>6. CASE UNCHANGED <<begun, over, pipe, inFlight, completed>>
  BY <1>6 DEF SeenInv
<1>7. \/ \E t \in Test : BeginTest(t) \/ EndTest(t)
      \/ ReadEvent
      \/ UNCHANGED <<begun, over, pipe, inFlight, completed>>
  BY DEF Next, RunnerExits, RunnerTermed, RunnerCrashes, HelperEnds, DeadlineFires,
     KillFires, OnExit, ReportFromEnvelope, vars, groupVars, trackerVars
<1> QED
  BY <1>3, <1>4, <1>5, <1>6, <1>7

(* The deadline, the kill, the result and the report agree at every step. *)
LEMMA ReapKept ==
  ASSUME Types, ReapInv, [Next]_vars
  PROVE  ReapInv'
<1> USE DEF Types, ReapInv, Alive, None, NoCode, Signal, groupVars, trackerVars,
      timerVars
<1>1. ASSUME NEW t \in Test, BeginTest(t) PROVE ReapInv'
  BY <1>1 DEF BeginTest
<1>2. ASSUME NEW t \in Test, EndTest(t) PROVE ReapInv'
  BY <1>2 DEF EndTest
<1>3. ASSUME RunnerExits PROVE ReapInv'
  BY <1>3 DEF RunnerExits
<1>4. ASSUME RunnerTermed PROVE ReapInv'
  BY <1>4 DEF RunnerTermed
<1>5. ASSUME RunnerCrashes PROVE ReapInv'
  BY <1>5 DEF RunnerCrashes
<1>6. ASSUME NEW h \in Helper, HelperEnds(h) PROVE ReapInv'
  BY <1>6 DEF HelperEnds
<1>7. ASSUME ReadEvent PROVE ReapInv'
  BY <1>7 DEF ReadEvent
<1>8. ASSUME DeadlineFires PROVE ReapInv'
  BY <1>8 DEF DeadlineFires
<1>9. ASSUME KillFires PROVE ReapInv'
  BY <1>9 DEF KillFires
<1>10. ASSUME OnExit PROVE ReapInv'
  BY <1>10 DEF OnExit, NoResult
<1>11. ASSUME ReportFromEnvelope PROVE ReapInv'
  BY <1>11 DEF ReportFromEnvelope
<1>12. ASSUME UNCHANGED vars PROVE ReapInv'
  BY <1>12 DEF vars
<1> QED
  BY <1>1, <1>2, <1>3, <1>4, <1>5, <1>6, <1>7, <1>8, <1>9, <1>10, <1>11, <1>12
     DEF Next

(* What is in flight of a file, and in the pipe, makes up what runs of it. *)
LEMMA CountsAre ==
  ASSUME Types, FileInv, NEW f \in File
  PROVE  /\ Cardinality({i \in DOMAIN inFlight : FileOf[inFlight[i]] = f}) = Held(f)
         /\ Held(f) + Count(pipe, "start", f) - Count(pipe, "end", f)
              = Cardinality({t \in Running : FileOf[t] = f})
<1>1. /\ DOMAIN pipe = 1..Len(pipe) /\ Len(pipe) \in Nat
      /\ DOMAIN inFlight = 1..Len(inFlight) /\ Len(inFlight) \in Nat
  BY LenProperties DEF Types
<1>2. /\ \A i \in DOMAIN pipe : pipe[i] \in Events
      /\ \A i \in DOMAIN inFlight : inFlight[i] \in Test
  BY <1>1, ElementOfSeq DEF Types
<1>3. {i \in DOMAIN inFlight : FileOf[inFlight[i]] = f}
        = Places(inFlight, TestsOf(f), Len(inFlight))
  BY <1>1, <1>2 DEF Places, TestsOf
<1>4. /\ {i \in DOMAIN pipe : pipe[i].type = "start" /\ FileOf[pipe[i].test] = f}
           = Places(pipe, StartsOf(f), Len(pipe))
      /\ {i \in DOMAIN pipe : pipe[i].type = "end" /\ FileOf[pipe[i].test] = f}
           = Places(pipe, EndsOf(f), Len(pipe))
  BY <1>1, <1>2 DEF Places, StartsOf, Starts, EndsOf
<1>5. Held(f) + Number(pipe, StartsOf(f), Len(pipe)) - Number(pipe, EndsOf(f), Len(pipe))
        = Cardinality({t \in Running : FileOf[t] = f})
  BY DEF FileInv
<1> QED
  BY <1>3, <1>4, <1>5 DEF Count, Held, Number

(* The result of a reaped run keeps its numbers: nothing is read after it.  *)
LEMMA CountsKept ==
  ASSUME Types, FileInv, TotalInv, SeenInv, ReapInv, ReapedCounts, [Next]_vars
  PROVE  ReapedCounts'
<1>1. CASE UNCHANGED <<begun, over, pipe, result>>
  BY <1>1 DEF ReapedCounts, Listed, KilledOf, Running
<1>2. ASSUME result = NoResult, UNCHANGED result PROVE ReapedCounts'
  BY <1>2 DEF ReapedCounts, NoResult, None
<1>3. ASSUME OnExit PROVE ReapedCounts'
  <2> SUFFICES ASSUME result'.outcome = "reaped" PROVE ReapedCounts'
    BY DEF ReapedCounts
  <2>1. UNCHANGED <<begun, over, pipe>>
    BY <1>3 DEF OnExit, groupVars
  <2>2. kill.taken /\ result'.perTest = PerTest
    BY <1>3 DEF OnExit
  <2>3. over = Listed("ended")' \cup Ends(pipe)
    <3>1. Listed("ended")' = {t \in Test : In(t, completed)}
      BY <2>2, PerTestLists DEF Listed
    <3>2. Ends(pipe) = {t \in Test : In(Event("end", t), pipe)}
      <4>1. \A i \in DOMAIN pipe : pipe[i] \in Events
        BY LenProperties, ElementOfSeq DEF Types
      <4>2. \A i \in DOMAIN pipe : pipe[i].type = "end" =>
              pipe[i].test \in Test /\ pipe[i] = Event("end", pipe[i].test)
        BY <4>1 DEF Events, Event
      <4>3. \A t \in Test : Event("end", t).type = "end" /\ Event("end", t).test = t
        BY DEF Event
      <4> QED
        BY <4>2, <4>3 DEF Ends, In
    <3>3. over \subseteq Test
      BY DEF Types
    <3> QED
      BY <3>1, <3>2, <3>3 DEF SeenInv
  <2>4. Listed("killed")' \subseteq begun
    <3>1. Listed("killed")' = {t \in Test : In(t, inFlight)}
      BY <2>2, PerTestLists DEF Listed
    <3> QED
      BY <3>1 DEF SeenInv
  <2>5. ASSUME NEW f \in File
        PROVE  Cardinality(KilledOf(f)') + Count(pipe, "start", f) - Count(pipe, "end", f)
                 = Cardinality({t \in Running : FileOf[t] = f})
    <3>1. Cardinality(KilledOf(f)') = Held(f)
      BY <2>2, PerTestLists DEF KilledOf
    <3> QED
      BY <3>1, CountsAre
  <2>6. Len(result'.perTest)
          = Cardinality(begun) - Cardinality({i \in DOMAIN pipe : pipe[i].type = "start"})
    <3>1. {i \in DOMAIN pipe : pipe[i].type = "start"} = Places(pipe, Starts, Len(pipe))
      <4>1. DOMAIN pipe = 1..Len(pipe) /\ Len(pipe) \in Nat
        BY LenProperties DEF Types
      <4>2. \A i \in 1..Len(pipe) : pipe[i] \in Events
        BY ElementOfSeq DEF Types
      <4> QED
        BY <4>1, <4>2 DEF Places, Starts
    <3>2. Len(inFlight) \in Nat /\ Len(completed) \in Nat
          /\ Number(pipe, Starts, Len(pipe)) \in Nat
      BY LenProperties, NumberType DEF Types
    <3>3. Len(result'.perTest) = Len(completed) + Len(inFlight)
      BY <2>2, PerTestIs
    <3>4. Len(result'.perTest) = Cardinality(begun) - Number(pipe, Starts, Len(pipe))
      BY <3>2, <3>3 DEF TotalInv
    <3> QED
      BY <3>1, <3>4 DEF Number
  <2> QED
    BY <2>1, <2>3, <2>4, <2>5, <2>6 DEF ReapedCounts, Running
<1>4. \/ OnExit
      \/ UNCHANGED <<begun, over, pipe, result>>
      \/ result = NoResult /\ UNCHANGED result
  <2>1. Alive => result = NoResult
    BY DEF ReapInv
  <2> QED
    BY <2>1 DEF Next, BeginTest, EndTest, RunnerExits, RunnerTermed, RunnerCrashes,
       HelperEnds,
       ReadEvent, DeadlineFires, KillFires, ReportFromEnvelope, vars, groupVars,
           trackerVars,
       timerVars
<1> QED
  BY <1>1, <1>2, <1>3, <1>4

-----------------------------------------------------------------------------
(* It all holds when the runner is spawned. *)
LEMMA InitInv == Init => IInv
<1> SUFFICES ASSUME Init PROVE IInv
  OBVIOUS
<1>1. Types
  <2>1. <<>> \in Seq(Events) /\ <<>> \in Seq(Test)
        /\ <<>> \in Seq([test : Test, status : {"ended", "killed"}])
    BY EmptySeq
  <2> QED
    BY <2>1 DEF Init, Types, NoCode, NoKill, NoResult, None
<1>2. \A S, k : Number(<<>>, S, k) = 0
  <2>1. \A S, k : Places(<<>>, S, k) = {}
    BY DEF Places
  <2> QED
    BY <2>1, FS_EmptySet DEF Number
<1>3. pipe = <<>> /\ inFlight = <<>> /\ completed = <<>> /\ begun = {} /\ over = {}
  BY DEF Init
<1>4. Len(<<>>) = 0 /\ 0..0 = {0}
  BY EmptySeq
<1>5. FileInv
  <2> SUFFICES ASSUME NEW f \in File
               PROVE  /\ \A k \in 0..Len(pipe) :
                           Number(pipe, EndsOf(f), k)
                               <= Held(f) + Number(pipe, StartsOf(f), k)
                      /\ Held(f) + Number(pipe, StartsOf(f), Len(pipe))
                             - Number(pipe, EndsOf(f), Len(pipe))
                           = Cardinality({t \in Running : FileOf[t] = f})
    BY DEF FileInv
  <2>1. {t \in Running : FileOf[t] = f} = {}
    BY <1>3 DEF Running
  <2>2. Held(f) = 0
    BY <1>2, <1>3 DEF Held
  <2> QED
    BY <1>2, <1>3, <2>1, <2>2, FS_EmptySet
<1>6. TotalInv
  BY <1>2, <1>3, <1>4, FS_EmptySet DEF TotalInv
<1>7. ReapInv /\ ReapedCounts
  BY DEF Init, ReapInv, ReapedCounts, NoKill, NoResult, None
<1>8. SeenInv
  <2>1. \A x : ~ In(x, <<>>)
    BY DEF In
  <2> QED
    BY <1>3, <2>1 DEF SeenInv
<1> QED
  BY <1>1, <1>5, <1>6, <1>7, <1>8 DEF IInv

(* The inductive invariant: types, what the tracker holds per file and in   *)
(* all, that it holds nothing that has not begun or ended, how the          *)
(* deadline, the kill, the result and the report agree, and what a reaped   *)
(* run's result lists.                                                      *)
THEOREM Inductive == Spec => []IInv
<1>1. IInv /\ [Next]_vars => IInv'
  BY TypesKept, FileKept, TotalKept, SeenKept, ReapKept, CountsKept DEF IInv
<1> QED
  BY <1>1, InitInv, PTL DEF Spec

(* ActiveTracker.observe takes no test out of flight that it has not put    *)
(* there, holds for each file as many tests as run, once stdout is read,    *)
(* and never more than the suite has.  A reaped run's telemetry lists the   *)
(* tests that have ended and, of each file, as many killed ones as ran:     *)
(* their number is right, their names need not be.                          *)
THEOREM TrackerCorrect == Spec => []Inv
<1>1. IInv => TypeOK
  <2> SUFFICES ASSUME IInv PROVE TypeOK
    OBVIOUS
  <2>1. Types /\ TotalInv /\ ReapInv
    BY DEF IInv
  <2>2. Len(inFlight) <= Cardinality(Test)
    <3>1. Cardinality(begun) <= Cardinality(Test) /\ Cardinality(begun) \in Nat
          /\ Cardinality(Test) \in Nat
      BY <2>1, TestAssumption, FS_Subset, FS_CardinalityType DEF Types
    <3>2. Len(inFlight) \in Nat /\ Len(completed) \in Nat
          /\ Number(pipe, Starts, Len(pipe)) \in Nat
      BY <2>1, LenProperties, NumberType DEF Types
    <3> QED
      BY <2>1, <3>1, <3>2 DEF TotalInv
  <2> QED
    BY <2>1, <2>2 DEF TypeOK, Types, ReapInv, Events
<1>2. IInv => TrackerCounts
  BY CountsAre DEF IInv, TrackerCounts
<1>3. IInv => Inv
  BY <1>1, <1>2 DEF IInv, Inv
<1> QED
  BY <1>3, Inductive, PTL

(* watchdog.mjs and reportFromEnvelope: a run whose deadline has fired is   *)
(* reported as reaped, however its runner ends in the grace time, and no    *)
(* other run is.                                                            *)
THEOREM ReapIsTold == Spec => []ReapedIsReported
<1>1. IInv => ReapedIsReported
  BY DEF IInv, ReapInv, ReapedIsReported
<1> QED
  BY <1>1, Inductive, PTL
=============================================================================
