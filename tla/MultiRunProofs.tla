--------------------------- MODULE MultiRunProofs ---------------------------
(***************************************************************************)
(* A run over several benches ends with one verdict that tells the truth   *)
(* about the request: for any flags and config, any set of cells, and      *)
(* whatever benches, images, legs and the user do.                         *)
(***************************************************************************)
EXTENDS MultiRun, SequenceTheorems, WellFoundedInduction, TLAPS

Early == {"loading", "preparing", "minting"}
Ran == ReportValue \cup {"legErr"}

(* The plan is what Build has made of flags, config and the benches found,  *)
(* or there is none and Run has ended.                                      *)
PlanIs(registry) ==
  /\ Valid(cfg) /\ ~Refused(registry)
  /\ runs = BuildRuns(registry)
  /\ skipped = BuildSkips(registry) \cup AddUnreachable(registry)
NoPlan == runs = <<>> /\ skipped = {}
PlanInv ==
  /\ main = "loading" => NoPlan
  /\ main \notin {"loading", "exited"} => \E registry \in Reachable : PlanIs(registry)
  /\ main = "exited" => NoPlan \/ \E registry \in Reachable : PlanIs(registry)

(* A cell without a consumer is one nothing has happened to: all of them    *)
(* before the fan-out, and those that are not planned.                      *)
Untouched(c) ==
  /\ cell[c] = "queued" /\ value[c] = None
  /\ pending[c] = 0 /\ c \notin flushing /\ closes[c] = 0
  /\ shown[c] = None
CellInv ==
  \A c \in Cell :
    /\ consumer[c] = "none" => Untouched(c)
    /\ consumer[c] # "none" => c \in planned /\ main \notin Early
    /\ main \in {"scheduling", "collecting", "reporting"} /\ c \in planned => consumer[c] # "none"
    /\ main \in {"reporting", "exited"} => consumer[c] # "ranging"
    /\ consumer[c] = "done" => pending[c] = 0 /\ closes[c] > 0

(* The life of a cell: an answer and its value come together; its pump      *)
(* closes its stream if it has run, Run does if it has not; and Run shows   *)
(* answers only.                                                            *)
StreamInv ==
  \A c \in Cell :
    /\ cell[c] = "answered" <=> value[c] # None
    /\ c \in flushing => value[c] \in Ran /\ closes[c] = 0
    /\ closes[c] \in {0, 1}
    /\ closes[c] = 1 => value[c] \in Ran \/ (value[c] = "notRun" /\ shown[c] # None)
    /\ shown[c] # None => value[c] # None /\ main \notin Early \cup {"scheduling"}
    /\ main \in {"collecting", "reporting"} /\ c \in planned => value[c] # None
    /\ main = "reporting" /\ c \in planned => shown[c] # None

(* Aggregate is handed the values of the cells that are shown. *)
InputsInv ==
  \A v \in Value : Received({v}) <=> \E c \in Cell : shown[c] # None /\ value[c] = v

(* The verdict is on what every cell has answered, or on an error before    *)
(* any of them ran.                                                         *)
Told ==
  \/ /\ exit = ExitCode /\ outcome = Outcome
     /\ \A c \in planned : shown[c] # None
     /\ \E registry \in Reachable : PlanIs(registry)
  \/ exit = 2 /\ outcome = "infra_error" /\ \A c \in planned : shown[c] = None

(* One verdict, the last line, when Run returns. *)
VerdictInv ==
  /\ worktree = "live" => main \in {"minting", "scheduling", "collecting", "reporting"}
  /\ main # "exited" => verdicts = 0
  /\ main = "exited" =>
       verdicts = 1 /\ lastLine = "verdict" /\ Told

IInv == TypeOK /\ PlanInv /\ CellInv /\ StreamInv /\ InputsInv /\ VerdictInv

-----------------------------------------------------------------------------
(* A set of naturals with a member has a least one. *)
LEMMA Least ==
  ASSUME NEW S \in SUBSET Nat, S # {}
  PROVE  \E m \in S : \A k \in S : m <= k
<1>1. PICK m \in S : \A k \in S : ~ (<<k, m>> \in OpToRel(<, Nat))
  BY NatLessThanWellFounded, WFMin
<1>2. ASSUME NEW k \in S PROVE m <= k
  <2>1. k \in Nat /\ m \in Nat /\ <<k, m>> \in Nat \X Nat
    BY <1>1
  <2>2. ~ (k < m)
    BY <1>1, <2>1 DEF OpToRel
  <2> QED
    BY <2>1, <2>2
<1> QED
  BY <1>1, <1>2

(* f has the concatenation of the first i of s, for every i to n. *)
IsFlat(f, s, n) == f = [i \in 1..n |-> IF i = 1 THEN s[i] ELSE f[i - 1] \o s[i]]

(* Such an f exists: there is no least n without one. *)
LEMMA FlatExists ==
  ASSUME NEW s, NEW n \in Nat
  PROVE  \E f : IsFlat(f, s, n)
<1> DEFINE Bad == {k \in Nat : ~ \E f : IsFlat(f, s, k)}
<1>1. SUFFICES ASSUME Bad # {} PROVE FALSE
  OBVIOUS
<1>2. PICK m \in Bad : \A k \in Bad : m <= k
  BY <1>1, Least
<1>3. m # 0
  <2>1. IsFlat(<<>>, s, 0)
    BY DEF IsFlat
  <2> QED
    BY <2>1
<1>4. m - 1 \in Nat /\ m - 1 \notin Bad
  BY <1>2, <1>3
<1>5. PICK f : IsFlat(f, s, m - 1)
  BY <1>4
<1> DEFINE g == [i \in 1..m |-> IF i = 1 THEN s[i] ELSE f[i - 1] \o s[i]]
<1>6. \A i \in 1..(m - 1) : g[i] = f[i]
  <2>1. ASSUME NEW i \in 1..(m - 1) PROVE g[i] = f[i]
    <3>1. i \in 1..m
      BY <1>4
    <3>2. g[i] = IF i = 1 THEN s[i] ELSE f[i - 1] \o s[i]
      BY <3>1
    <3>3. f[i] = IF i = 1 THEN s[i] ELSE f[i - 1] \o s[i]
      BY <1>5 DEF IsFlat
    <3> QED
      BY <3>2, <3>3
  <2> QED
    BY <2>1
<1>7. IsFlat(g, s, m)
  <2>1. ASSUME NEW i \in 1..m PROVE g[i] = IF i = 1 THEN s[i] ELSE g[i - 1] \o s[i]
    <3>1. CASE i = 1
      BY <3>1
    <3>2. CASE i # 1
      <4>1. i - 1 \in 1..(m - 1)
        BY <3>2
      <4>2. g[i - 1] = f[i - 1]
        BY <4>1, <1>6
      <4> QED
        BY <3>2, <4>2
    <3> QED
      BY <3>1, <3>2
  <2> HIDE DEF g
  <2>2. g = [i \in 1..m |-> g[i]]
    BY DEF g
  <2> QED
    BY <2>1, <2>2 DEF IsFlat
<1> QED
  BY <1>2, <1>7

(* FlattenSeq is defined by it. *)
LEMMA FlattenIs ==
  ASSUME NEW s, Len(s) \in Nat, Len(s) # 0
  PROVE  \E f : IsFlat(f, s, Len(s)) /\ FlattenSeq(s) = f[Len(s)]
<1> DEFINE h == CHOOSE h : h = [i \in 1..Len(s) |-> IF i = 1 THEN s[i] ELSE h[i - 1] \o s[i]]
<1>1. \E f : f = [i \in 1..Len(s) |-> IF i = 1 THEN s[i] ELSE f[i - 1] \o s[i]]
  BY FlatExists DEF IsFlat
<1>2. h = [i \in 1..Len(s) |-> IF i = 1 THEN s[i] ELSE h[i - 1] \o s[i]]
  BY <1>1
<1>3. FlattenSeq(s) = h[Len(s)]
  BY DEF FlattenSeq
<1> QED
  BY <1>2, <1>3 DEF IsFlat

(* A member of a member of s, by its two positions. *)
Places(s, n) == UNION {{<<i, j>> : j \in DOMAIN s[i]} : i \in 1..n}

(* t has the members of the first n members of s, each once. *)
Lists(t, s, n) ==
  /\ \A p \in Places(s, n) : \E k \in DOMAIN t : t[k] = s[p[1]][p[2]]
  /\ \A k \in DOMAIN t : \E p \in Places(s, n) : t[k] = s[p[1]][p[2]]
  /\ \A k, l \in DOMAIN t : k # l =>
       \E p, q \in Places(s, n) : p # q /\ t[k] = s[p[1]][p[2]] /\ t[l] = s[q[1]][q[2]]

(* A place is two positions. *)
LEMMA InPlaces ==
  ASSUME NEW s, NEW n \in Nat
  PROVE  /\ \A i \in 1..n : \A j \in DOMAIN s[i] : <<i, j>> \in Places(s, n)
         /\ \A p \in Places(s, n) : p[1] \in 1..n /\ p[2] \in DOMAIN s[p[1]] /\ p = <<p[1], p[2]>>
BY DEF Places

(* One sequence lists its own members. *)
LEMMA ListsOne ==
  ASSUME NEW s
  PROVE  Lists(s[1], s, 1)
<1>1. \A j \in DOMAIN s[1] : <<1, j>> \in Places(s, 1)
  BY InPlaces
<1>2. ASSUME NEW p \in Places(s, 1) PROVE \E k \in DOMAIN s[1] : s[1][k] = s[p[1]][p[2]]
  <2>1. p[1] \in 1..1 /\ p[2] \in DOMAIN s[p[1]]
    BY InPlaces
  <2>2. p[1] = 1
    BY <2>1
  <2> QED
    BY <2>1, <2>2
<1>3. ASSUME NEW k \in DOMAIN s[1], NEW l \in DOMAIN s[1], k # l
      PROVE  \E p, q \in Places(s,
            1) : p # q /\ s[1][k] = s[p[1]][p[2]] /\ s[1][l] = s[q[1]][q[2]]
  <2>1. <<1, k>> # <<1, l>>
    BY <1>3
  <2> QED
    BY <1>1, <2>1
<1>4. ASSUME NEW k \in DOMAIN s[1] PROVE \E p \in Places(s, 1) : s[1][k] = s[p[1]][p[2]]
  BY <1>1
<1> QED
  BY <1>2, <1>3, <1>4 DEF Lists

(* Appending the next sequence lists its members too. *)
LEMMA ListsNext ==
  ASSUME NEW X, NEW s, NEW n \in Nat \ {0}, NEW t \in Seq(X), s[n + 1] \in Seq(X),
        Lists(t, s, n)
  PROVE  Lists(t \o s[n + 1], s, n + 1)
<1> DEFINE u == s[n + 1]
           r == t \o u
<1>1. /\ Len(t) \in Nat /\ DOMAIN t = 1..Len(t)
      /\ Len(u) \in Nat /\ DOMAIN u = 1..Len(u)
  BY LenProperties
<1>2. /\ Len(r) = Len(t) + Len(u) /\ DOMAIN r = 1..(Len(t) + Len(u))
      /\ \A k \in 1..Len(t) : r[k] = t[k]
      /\ \A k \in 1..(Len(t) + Len(u)) : Len(t) < k => r[k] = u[k - Len(t)]
  BY ConcatProperties, LenProperties
<1>3. Places(s, n) \subseteq Places(s, n + 1)
  <2>1. 1..n \subseteq 1..(n + 1)
    OBVIOUS
  <2> QED
    BY <2>1 DEF Places
<1>4. \A j \in DOMAIN u : <<n + 1, j>> \in Places(s, n + 1)
  <2>1. n + 1 \in Nat /\ n + 1 \in 1..(n + 1)
    OBVIOUS
  <2> QED
    BY <2>1, InPlaces
<1>5. \A j \in DOMAIN u : <<n + 1, j>> \notin Places(s, n)
  <2>1. ASSUME NEW j, <<n + 1, j>> \in Places(s, n) PROVE FALSE
    <3>1. <<n + 1, j>>[1] \in 1..n
      BY <2>1, InPlaces
    <3> QED
      BY <3>1
  <2> QED
    BY <2>1
<1> HIDE DEF r
<1>6. ASSUME NEW p \in Places(s, n + 1) PROVE \E k \in DOMAIN r : r[k] = s[p[1]][p[2]]
  <2> DEFINE i == p[1]
             j == p[2]
  <2>1. i \in 1..(n + 1) /\ j \in DOMAIN s[i] /\ p = <<i, j>>
    <3>1. n + 1 \in Nat
      OBVIOUS
    <3> QED
      BY <3>1, InPlaces
  <2>2. CASE i = n + 1
    <3>1. j \in 1..Len(u)
      BY <1>1, <2>1, <2>2
    <3> DEFINE k == Len(t) + j
    <3>2. k \in 1..(Len(t) + Len(u)) /\ Len(t) < k /\ k - Len(t) = j
      BY <1>1, <3>1
    <3>3. k \in DOMAIN r /\ r[k] = u[j]
      BY <1>2, <3>2
    <3> QED
      BY <2>1, <2>2, <3>3
  <2>3. CASE i # n + 1
    <3>1. i \in 1..n
      BY <2>1, <2>3
    <3>2. p \in Places(s, n)
      BY <2>1, <3>1, InPlaces
    <3>3. PICK k \in DOMAIN t : t[k] = s[p[1]][p[2]]
      BY <3>2 DEF Lists
    <3> QED
      BY <1>1, <1>2, <3>3
  <2> QED
    BY <2>2, <2>3
<1>7. ASSUME NEW k \in DOMAIN r, k <= Len(t) PROVE k \in DOMAIN t /\ r[k] = t[k]
  BY <1>1, <1>2, <1>7
<1>8. ASSUME NEW k \in DOMAIN r, ~ (k <= Len(t))
      PROVE  k - Len(t) \in DOMAIN u /\ r[k] = u[k - Len(t)]
  <2>1. k \in 1..(Len(t) + Len(u)) /\ Len(t) < k
    BY <1>1, <1>2, <1>8
  <2> QED
    BY <1>1, <1>2, <2>1
<1>9. ASSUME NEW k \in DOMAIN r PROVE \E p \in Places(s, n + 1) : r[k] = s[p[1]][p[2]]
  <2>1. CASE k <= Len(t)
    <3>1. PICK p \in Places(s, n) : t[k] = s[p[1]][p[2]]
      BY <1>7, <2>1 DEF Lists
    <3> QED
      BY <1>3, <1>7, <2>1, <3>1
  <2>2. CASE ~ (k <= Len(t))
    <3>1. /\ k - Len(t) \in DOMAIN u /\ r[k] = u[k - Len(t)]
      BY <1>8, <2>2
    <3> QED
      BY <1>4, <3>1
  <2> QED
    BY <2>1, <2>2
<1>10. ASSUME NEW k \in DOMAIN r, NEW l \in DOMAIN r, k <= Len(t), ~ (l <= Len(t))
       PROVE  \E p, q \in Places(s,
             n + 1) : p # q /\ r[k] = s[p[1]][p[2]] /\ r[l] = s[q[1]][q[2]]
  <2>1. PICK p \in Places(s, n) : t[k] = s[p[1]][p[2]]
    BY <1>7, <1>10 DEF Lists
  <2>2. l - Len(t) \in DOMAIN u /\ r[l] = u[l - Len(t)]
    BY <1>8, <1>10
  <2>3. p # <<n + 1, l - Len(t)>>
    BY <1>5, <2>1, <2>2
  <2>4. p \in Places(s, n + 1) /\ r[k] = s[p[1]][p[2]]
    BY <1>3, <1>7, <1>10, <2>1
  <2> QED
    BY <1>4, <2>2, <2>3, <2>4
<1>11. ASSUME NEW k \in DOMAIN r, NEW l \in DOMAIN r, k # l
       PROVE  \E p, q \in Places(s,
             n + 1) : p # q /\ r[k] = s[p[1]][p[2]] /\ r[l] = s[q[1]][q[2]]
  <2>1. CASE k <= Len(t) /\ l <= Len(t)
    <3>1. k \in DOMAIN t /\ r[k] = t[k] /\ l \in DOMAIN t /\ r[l] = t[l]
      BY <1>7, <2>1
    <3>2. PICK p, q \in Places(s, n) : p # q /\ t[k] = s[p[1]][p[2]] /\ t[l] = s[q[1]][q[2]]
      BY <1>11, <3>1 DEF Lists
    <3> QED
      BY <1>3, <3>1, <3>2
  <2>2. CASE k <= Len(t) /\ ~ (l <= Len(t))
    BY <1>10, <2>2
  <2>3. CASE ~ (k <= Len(t)) /\ l <= Len(t)
    <3>1. PICK p, q \in Places(s, n + 1) : p # q /\ r[l] = s[p[1]][p[2]] /\ r[k] = s[q[1]][q[2]]
      BY <1>10, <2>3
    <3> QED
      BY <3>1
  <2>4. CASE ~ (k <= Len(t)) /\ ~ (l <= Len(t))
    <3>1. /\ k - Len(t) \in DOMAIN u /\ r[k] = u[k - Len(t)]
          /\ l - Len(t) \in DOMAIN u /\ r[l] = u[l - Len(t)]
      BY <1>8, <2>4
    <3>2. k - Len(t) # l - Len(t)
      BY <1>1, <1>2, <1>11
    <3>3. <<n + 1, k - Len(t)>> # <<n + 1, l - Len(t)>>
      BY <3>2
    <3> QED
      BY <1>4, <3>1, <3>3
  <2> QED
    BY <2>1, <2>2, <2>3, <2>4
<1>12. Lists(r, s, n + 1)
  BY <1>6, <1>9, <1>11 DEF Lists
<1> QED
  BY <1>12 DEF r

(* By induction on n: there is no least one that lists something else. *)
LEMMA FlatLists ==
  ASSUME NEW X, NEW s \in Seq(Seq(X)), NEW f, IsFlat(f, s, Len(s)),
        NEW n \in 1..Len(s)
  PROVE  f[n] \in Seq(X) /\ Lists(f[n], s, n)
<1> DEFINE Bad == {k \in Nat : k \in 1..Len(s) /\ ~ (f[k] \in Seq(X) /\ Lists(f[k], s, k))}
<1>1. Len(s) \in Nat /\ \A i \in 1..Len(s) : s[i] \in Seq(X)
  BY LenProperties, ElementOfSeq
<1>2. SUFFICES ASSUME Bad # {} PROVE FALSE
  <2>1. n \in Nat
    BY <1>1
  <2> QED
    BY <2>1
<1>3. PICK m \in Bad : \A k \in Bad : m <= k
  BY <1>2, Least
<1>4. \A i \in 1..Len(s) : f[i] = IF i = 1 THEN s[i] ELSE f[i - 1] \o s[i]
  BY DEF IsFlat
<1>5. CASE m = 1
  <2>1. f[m] = s[1] /\ s[1] \in Seq(X)
    BY <1>1, <1>3, <1>4, <1>5
  <2> QED
    BY <1>3, <1>5, <2>1, ListsOne
<1>6. CASE m # 1
  <2> DEFINE n0 == m - 1
  <2>1. n0 \in 1..Len(s) /\ n0 \notin Bad /\ n0 \in Nat \ {0} /\ n0 + 1 = m /\ m \in 1..Len(s)
    BY <1>1, <1>3, <1>6
  <2>2. f[n0] \in Seq(X) /\ Lists(f[n0], s, n0)
    BY <2>1
  <2>3. f[m] = f[n0] \o s[m] /\ s[m] \in Seq(X)
    BY <1>1, <1>4, <1>6, <2>1
  <2> HIDE DEF n0
  <2>4. Lists(f[n0] \o s[n0 + 1], s, n0 + 1)
    BY <2>1, <2>2, <2>3, ListsNext
  <2>5. f[m] \in Seq(X)
    BY <2>2, <2>3, ConcatProperties
  <2> QED
    BY <1>3, <2>1, <2>3, <2>4, <2>5
<1> QED
  BY <1>5, <1>6

(* FlattenSeq lists the members of all the sequences, each once. *)
LEMMA FlattenLists ==
  ASSUME NEW X, NEW s \in Seq(Seq(X))
  PROVE  FlattenSeq(s) \in Seq(X) /\ Lists(FlattenSeq(s), s, Len(s))
<1>1. Len(s) \in Nat
  BY LenProperties
<1>2. CASE Len(s) = 0
  <2>1. s = <<>>
    BY <1>2, EmptySeq
  <2>2. FlattenSeq(s) = <<>>
    BY <1>2, <2>1 DEF FlattenSeq
  <2>3. Places(s, 0) = {}
    BY DEF Places
  <2>4. DOMAIN <<>> = {}
    OBVIOUS
  <2>5. Lists(<<>>, s, 0)
    BY <2>3, <2>4 DEF Lists
  <2> QED
    BY <1>2, <2>2, <2>5
<1>3. CASE Len(s) # 0
  <2>1. PICK f : IsFlat(f, s, Len(s)) /\ FlattenSeq(s) = f[Len(s)]
    BY <1>1, <1>3, FlattenIs
  <2>2. Len(s) \in 1..Len(s)
    BY <1>1, <1>3
  <2> QED
    BY <2>1, <2>2, FlatLists
<1> QED
  BY <1>2, <1>3

-----------------------------------------------------------------------------
(* The request: sequences of operating systems and majors; a config that    *)
(* Load accepts has no major twice.                                         *)
LEMMA RequestTypes ==
  ASSUME flags \in Flags, cfg \in Config
  PROVE  /\ Targets \in Seq(OS)
         /\ \A os \in OS : Majors(os) \in Seq(Major) /\ Majors(os) # <<>>
         /\ Valid(cfg) => \A os \in OS : IsInjective(Majors(os)) \/ Majors(os) = flags.node
<1>1. flags.targets \in Seq(OS) /\ flags.node \in Seq(Major) /\ cfg.targets \in Seq(OS)
  BY InputAssumption
<1>2. \A os \in DOMAIN cfg.node : cfg.node[os] \in Seq(Major)
  BY InputAssumption
<1>3. Targets \in Seq(OS)
  BY <1>1 DEF Targets
<1>4. ASSUME NEW os \in OS PROVE Majors(os) \in Seq(Major) /\ Majors(os) # <<>>
  BY <1>1, <1>2, LTSAssumption DEF Majors
<1>5. ASSUME NEW os \in OS, Valid(cfg) PROVE IsInjective(Majors(os)) \/ Majors(os) = flags.node
  <2>1. \A o \in DOMAIN cfg.node : IsInjective(cfg.node[o])
    BY <1>5 DEF Valid, ValidNode
  <2> QED
    BY <2>1, LTSAssumption DEF Majors
<1> QED
  BY <1>3, <1>4, <1>5

(* The blocks of runs that Build makes, one for each target. *)
Blocks(registry) == [i \in DOMAIN Targets |-> RunsOf(registry, Targets[i])]

(* There are as many blocks as targets, and all are sequences of runs. *)
LEMMA BlockTypes ==
  ASSUME flags \in Flags, cfg \in Config, NEW registry
  PROVE  /\ Blocks(registry) \in Seq(Seq([os : OS, node : Major]))
         /\ Len(Blocks(registry)) = Len(Targets) /\ DOMAIN Targets = 1..Len(Targets)
         /\ BuildRuns(registry) \in Seq([os : OS, node : Major])
<1>1. Targets \in Seq(OS) /\ DOMAIN Targets = 1..Len(Targets) /\ Len(Targets) \in Nat
  BY RequestTypes, LenProperties
<1>2. ASSUME NEW i \in 1..Len(Targets)
      PROVE  RunsOf(registry, Targets[i]) \in Seq([os : OS, node : Major])
  <2>1. Targets[i] \in OS
    BY <1>1, ElementOfSeq
  <2> DEFINE os == Targets[i]
             m == Majors(os)
  <2>2. m \in Seq(Major)
    BY <2>1, RequestTypes
  <2>3. Len(m) \in Nat /\ DOMAIN m = 1..Len(m) /\ \A j \in 1..Len(m) : m[j] \in Major
    BY <2>2, LenProperties, ElementOfSeq
  <2> HIDE DEF m
  <2>4. [j \in DOMAIN m |-> [os |-> os, node |-> m[j]]] \in Seq([os : OS, node : Major])
    <3>1. \A j \in 1..Len(m) : [os |-> os, node |-> m[j]] \in [os : OS, node : Major]
      BY <2>1, <2>3
    <3> DEFINE f == [j \in 1..Len(m) |-> [os |-> os, node |-> m[j]]]
    <3>2. f \in [1..Len(m) -> [os : OS, node : Major]]
      BY <3>1
    <3> QED
      BY <2>3, <3>2, SeqDef
  <2>5. <<>> \in Seq([os : OS, node : Major])
    OBVIOUS
  <2> QED
    BY <2>4, <2>5 DEF RunsOf, m
<1>3. Blocks(registry) \in [1..Len(Targets) -> Seq([os : OS, node : Major])]
  BY <1>1, <1>2 DEF Blocks
<1>4. Blocks(registry) \in Seq(Seq([os : OS, node : Major])) /\ Len(Blocks(registry)) = Len(Targets)
  <2> DEFINE b == Blocks(registry)
             n == Len(Targets)
  <2>1. b \in [1..n -> Seq([os : OS, node : Major])] /\ n \in Nat
    BY <1>1, <1>3
  <2> HIDE DEF b, n
  <2> DEFINE R == Seq([os : OS, node : Major])
  <2>2. b \in Seq(R)
    <3> HIDE DEF R
    <3>1. b \in [1..n -> R]
      BY <2>1 DEF R
    <3> QED
      BY <2>1, <3>1, SeqDef
  <2>3. Len(b) = n
    BY <2>1, <2>2, LenProperties
  <2> QED
    BY <2>2, <2>3 DEF b, n
<1>5. BuildRuns(registry) = FlattenSeq(Blocks(registry))
  BY DEF BuildRuns, Blocks
<1> QED
  BY <1>1, <1>4, <1>5, FlattenLists

-----------------------------------------------------------------------------
(* What Build skips is a target. *)
LEMMA SkipsTargets ==
  ASSUME NEW registry, NEW k \in BuildSkips(registry) \cup AddUnreachable(registry)
  PROVE  k.os \in ToSet(Targets)
BY DEF BuildSkips, AddUnreachable

(* Only Plan changes the plan, ... *)
LEMMA PlanKept ==
  ASSUME [Next]_vars, ~ Plan
  PROVE  UNCHANGED planVars
BY DEF Next, vars, SetupFails, LoadFails, PlanRefused, PrepareWorktree, FanOut,
   Cancel, NotRun, Begin, EnsureFails, EnsureOk, Emit, PipelineReturns, PumpCloses,
   Render, StreamEnds, ScheduleReturns, Collect, RendererWait, Report

(* ... for one within the bound, with skips that are targets, ... *)
LEMMA PlanTypesKept ==
  ASSUME PlanTypes, [Next]_vars
  PROVE  PlanTypes'
<1>1. CASE Plan
  <2>1. PICK registry \in Reachable :
          /\ Len(BuildRuns(registry)) <= MaxCells /\ runs' = BuildRuns(registry)
          /\ skipped' = BuildSkips(registry) \cup AddUnreachable(registry)
    BY <1>1 DEF Plan
  <2>2. runs' \in Seq([os : OS, node : Major])
    BY <2>1, BlockTypes DEF PlanTypes
  <2>3. DOMAIN runs' = 1..Len(runs') /\ Len(runs') \in Nat /\ Len(runs') <= MaxCells
    BY <2>1, <2>2, LenProperties
  <2>4. DOMAIN runs' \subseteq Cell
    BY <2>3, BoundAssumption DEF Cell
  <2>5. Targets' = Targets
    BY <1>1 DEF Plan, Targets
  <2>6. \A k \in skipped' : k.os \in ToSet(Targets)'
    BY <2>1, <2>5, SkipsTargets
  <2> QED
    BY <1>1, <2>2, <2>4, <2>6 DEF Plan, PlanTypes, planned
<1>2. CASE ~ Plan
  <2>1. UNCHANGED planVars
    BY <1>2, PlanKept
  <2>2. Targets' = Targets
    BY <2>1 DEF planVars, Targets
  <2>3. flags' = flags /\ cfg' = cfg /\ runs' = runs /\ skipped' = skipped
    BY <2>1 DEF planVars
  <2>4. ToSet(Targets)' = ToSet(Targets)
    BY <2>2 DEF ToSet
  <2> QED
    BY <2>3, <2>4 DEF PlanTypes, planned
<1> QED
  BY <1>1, <1>2

(* Every step keeps the types, ... *)
LEMMA TypesKept ==
  ASSUME TypeOK, StreamInv, [Next]_vars
  PROVE  TypeOK'
<1> USE PlanTypesKept, BoundAssumption DEF TypeOK, planVars, schedVars, streamVars,
      resultVars, outVars, None, Running, Value, ReportValue
<1>1. ASSUME SetupFails PROVE TypeOK'
  BY <1>1 DEF SetupFails, WriteVerdict, Leave
<1>2. ASSUME LoadFails PROVE TypeOK'
  BY <1>2 DEF LoadFails, WriteVerdict, Leave
<1>3. ASSUME PlanRefused PROVE TypeOK'
  BY <1>3 DEF PlanRefused, WriteVerdict, Leave
<1>4. ASSUME Plan PROVE TypeOK'
  BY <1>4 DEF Plan
<1>5. ASSUME PrepareWorktree PROVE TypeOK'
  BY <1>5 DEF PrepareWorktree
<1>6. ASSUME FanOut PROVE TypeOK'
  BY <1>6 DEF FanOut
<1>7. ASSUME Cancel PROVE TypeOK'
  BY <1>7 DEF Cancel
<1>8. ASSUME NEW c \in Cell, NotRun(c) PROVE TypeOK'
  BY <1>8 DEF NotRun, Scheduled, Answer
<1>9. ASSUME NEW c \in Cell, Begin(c) PROVE TypeOK'
  BY <1>9 DEF Begin, Scheduled
<1>10. ASSUME NEW c \in Cell, EnsureFails(c) PROVE TypeOK'
  BY <1>10 DEF EnsureFails, Scheduled, Answer
<1>11. ASSUME NEW c \in Cell, EnsureOk(c) PROVE TypeOK'
  BY <1>11 DEF EnsureOk, Scheduled
<1>12. ASSUME NEW c \in Cell, Emit(c) PROVE TypeOK'
  BY <1>12 DEF Emit, Scheduled
<1>13. ASSUME NEW c \in Cell, PipelineReturns(c) PROVE TypeOK'
  BY <1>13 DEF PipelineReturns, Scheduled, Answer
<1>14. ASSUME NEW c \in Cell, PumpCloses(c) PROVE TypeOK'
  BY <1>14 DEF PumpCloses
<1>15. ASSUME NEW c \in Cell, Render(c) PROVE TypeOK'
  BY <1>15 DEF Render
<1>16. ASSUME NEW c \in Cell, StreamEnds(c) PROVE TypeOK'
  BY <1>16 DEF StreamEnds
<1>17. ASSUME ScheduleReturns PROVE TypeOK'
  BY <1>17 DEF ScheduleReturns
<1>18. ASSUME NEW c \in Cell, Collect(c) PROVE TypeOK'
  <2>1. value[c] \in Value
    BY <1>18 DEF Collect, StreamInv
  <2>2. inputs' \in Seq(Value)
    BY <1>18, <2>1, AppendProperties DEF Collect
  <2> QED
    BY <1>18, <2>1, <2>2 DEF Collect
<1>19. ASSUME RendererWait PROVE TypeOK'
  BY <1>19 DEF RendererWait
<1>20. ASSUME Report PROVE TypeOK'
  <2>1. Outcome \in {"passed", "failed", "infra_error"} /\ ExitCode \in {0, 1, 2}
    BY DEF Outcome, ExitCode
  <2> QED
    BY <1>20, <2>1 DEF Report, WriteVerdict, Leave
<1>21. ASSUME UNCHANGED vars PROVE TypeOK'
  BY <1>21 DEF vars
<1> QED
  BY <1>1, <1>2, <1>3, <1>4, <1>5, <1>6, <1>7, <1>8, <1>9, <1>10, <1>11, <1>12,
     <1>13, <1>14, <1>15, <1>16, <1>17, <1>18, <1>19, <1>20, <1>21 DEF Next

(* ... and what it is made of stays what it was. *)
LEMMA RequestKept ==
  ASSUME UNCHANGED planVars
  PROVE  /\ Reachable' = Reachable
         /\ \A registry : PlanIs(registry)' <=> PlanIs(registry)
<1>1. flags' = flags /\ cfg' = cfg /\ runs' = runs /\ skipped' = skipped
  BY DEF planVars
<1>2. /\ Targets' = Targets /\ Pin' = Pin /\ Exclude' = Exclude /\ Registry' = Registry
      /\ \A os : Majors(os)' = Majors(os)
  BY <1>1 DEF Targets, Pin, Exclude, Registry, Majors
<1>3. Reachable' = Reachable
  BY <1>1, <1>2 DEF Reachable
<1>4. ASSUME NEW registry PROVE PlanIs(registry)' <=> PlanIs(registry)
  <2>1. Refused(registry)' <=> Refused(registry)
    BY <1>2 DEF Refused
  <2>2. \A os : Unplannable(registry, os)' = Unplannable(registry, os)
    BY <1>1, <1>2 DEF Unplannable, BenchesForOS, Selectable
  <2>3. \A os : RunsOf(registry, os)' = RunsOf(registry, os)
    BY <1>2, <2>2 DEF RunsOf
  <2>4. BuildRuns(registry)' = BuildRuns(registry)
    BY <1>2, <2>3 DEF BuildRuns
  <2>5. BuildSkips(registry)' = BuildSkips(registry)
    BY <1>2, <2>2 DEF BuildSkips
  <2>6. AddUnreachable(registry)' = AddUnreachable(registry)
    BY <1>2, <2>4, <2>5 DEF AddUnreachable
  <2>7. Valid(cfg)' <=> Valid(cfg)
    BY <1>1
  <2> QED
    BY <1>1, <2>1, <2>4, <2>5, <2>6, <2>7 DEF PlanIs
<1> QED
  BY <1>3, <1>4

(* Plan makes the plan that it says. *)
LEMMA PlanMakes ==
  ASSUME Plan
  PROVE  \E registry \in Reachable' : PlanIs(registry)'
<1>1. PICK registry \in Reachable :
        /\ Valid(cfg) /\ ~ Refused(registry) /\ runs' = BuildRuns(registry)
        /\ skipped' = BuildSkips(registry) \cup AddUnreachable(registry)
  BY DEF Plan
<1>2. flags' = flags /\ cfg' = cfg
  BY DEF Plan
<1>3. /\ Targets' = Targets /\ Pin' = Pin /\ Exclude' = Exclude /\ Registry' = Registry
      /\ \A os : Majors(os)' = Majors(os)
  BY <1>2 DEF Targets, Pin, Exclude, Registry, Majors
<1>4. Reachable' = Reachable
  BY <1>2, <1>3 DEF Reachable
<1>5. Refused(registry)' <=> Refused(registry)
  BY <1>3 DEF Refused
<1>6. \A os : Unplannable(registry, os)' = Unplannable(registry, os)
  BY <1>2, <1>3 DEF Unplannable, BenchesForOS, Selectable
<1>7. \A os : RunsOf(registry, os)' = RunsOf(registry, os)
  BY <1>3, <1>6 DEF RunsOf
<1>8. BuildRuns(registry)' = BuildRuns(registry)
  BY <1>3, <1>7 DEF BuildRuns
<1>9. BuildSkips(registry)' = BuildSkips(registry)
  BY <1>3, <1>6 DEF BuildSkips
<1>10. AddUnreachable(registry)' = AddUnreachable(registry)
  BY <1>3, <1>8, <1>9 DEF AddUnreachable
<1> QED
  BY <1>1, <1>2, <1>4, <1>5, <1>8, <1>9, <1>10 DEF PlanIs

(* ... and the plan is always one that Build has made, or none. *)
LEMMA PlanInvKept ==
  ASSUME PlanInv, [Next]_vars
  PROVE  PlanInv'
<1>1. CASE Plan
  <2>1. main' = "preparing"
    BY <1>1 DEF Plan
  <2> QED
    BY <1>1, <2>1, PlanMakes DEF PlanInv
<1>2. CASE ~ Plan
  <2>1. UNCHANGED planVars
    BY <1>2, PlanKept
  <2>2. NoPlan' <=> NoPlan
    BY <2>1 DEF planVars, NoPlan
  <2>3. (\E registry \in Reachable : PlanIs(registry))' <=>
          \E registry \in Reachable : PlanIs(registry)
    BY <2>1, RequestKept
  <2>4. /\ main' = "loading" => main = "loading"
        /\ main = "loading" => main' \in {"loading", "exited"}
    BY <1>2 DEF Next, vars, WriteVerdict, Leave, SetupFails, LoadFails, PlanRefused,
       PrepareWorktree, FanOut, Cancel, NotRun, Begin, EnsureFails, EnsureOk, Emit,
       PipelineReturns, PumpCloses, Render, StreamEnds, ScheduleReturns, Collect,
       RendererWait, Report
  <2>5. main = "exited" => main' = "exited"
    BY <1>2 DEF Next, vars, WriteVerdict, Leave, SetupFails, LoadFails, PlanRefused,
       PrepareWorktree, FanOut, Cancel, NotRun, Begin, EnsureFails, EnsureOk, Emit,
       PipelineReturns, PumpCloses, Render, StreamEnds, ScheduleReturns, Collect,
       RendererWait, Report, Scheduled
  <2> QED
    BY <2>2, <2>3, <2>4, <2>5 DEF PlanInv
<1> QED
  BY <1>1, <1>2

(* Every step keeps the life of the cells' consumers, ... *)
LEMMA CellKept ==
  ASSUME TypeOK, CellInv, StreamInv, VerdictInv, [Next]_vars
  PROVE  CellInv'
<1> USE DEF CellInv, StreamInv, TypeOK, Untouched, Ran, Early, planned, planVars,
      schedVars, streamVars, resultVars, outVars, None, Running, Value, ReportValue
<1>1. ASSUME SetupFails PROVE CellInv'
  BY <1>1 DEF SetupFails, WriteVerdict, Leave
<1>2. ASSUME LoadFails PROVE CellInv'
  BY <1>2 DEF LoadFails, WriteVerdict, Leave
<1>3. ASSUME PlanRefused PROVE CellInv'
  BY <1>3 DEF PlanRefused, WriteVerdict, Leave
<1>4. ASSUME Plan PROVE CellInv'
  BY <1>4 DEF Plan
<1>5. ASSUME PrepareWorktree PROVE CellInv'
  BY <1>5 DEF PrepareWorktree
<1>6. ASSUME FanOut PROVE CellInv'
  BY <1>6 DEF FanOut
<1>7. ASSUME Cancel PROVE CellInv'
  BY <1>7 DEF Cancel
<1>8. ASSUME NEW c \in Cell, NotRun(c) PROVE CellInv'
  BY <1>8 DEF NotRun, Scheduled, Answer
<1>9. ASSUME NEW c \in Cell, Begin(c) PROVE CellInv'
  BY <1>9 DEF Begin, Scheduled
<1>10. ASSUME NEW c \in Cell, EnsureFails(c) PROVE CellInv'
  BY <1>10 DEF EnsureFails, Scheduled, Answer
<1>11. ASSUME NEW c \in Cell, EnsureOk(c) PROVE CellInv'
  BY <1>11 DEF EnsureOk, Scheduled
<1>12. ASSUME NEW c \in Cell, Emit(c) PROVE CellInv'
  <2>1. cell[c] = "running" /\ value[c] = None
    BY <1>12 DEF Emit, Scheduled
  <2>2. closes[c] = 0
    BY <2>1
  <2>3. consumer[c] \notin {"none", "done"}
    BY <2>1, <2>2
  <2>4. UNCHANGED <<main, planVars, schedVars, flushing, closes, consumer, resultVars>>
    BY <1>12 DEF Emit
  <2>5. \A d \in Cell : d # c => pending'[d] = pending[d]
    BY <1>12 DEF Emit
  <2> QED
    BY <2>3, <2>4, <2>5
<1>13. ASSUME NEW c \in Cell, PipelineReturns(c) PROVE CellInv'
  BY <1>13 DEF PipelineReturns, Scheduled, Answer
<1>14. ASSUME NEW c \in Cell, PumpCloses(c) PROVE CellInv'
  BY <1>14 DEF PumpCloses
<1>15. ASSUME NEW c \in Cell, Render(c) PROVE CellInv'
  BY <1>15 DEF Render
<1>16. ASSUME NEW c \in Cell, StreamEnds(c) PROVE CellInv'
  BY <1>16 DEF StreamEnds
<1>17. ASSUME ScheduleReturns PROVE CellInv'
  BY <1>17 DEF ScheduleReturns
<1>18. ASSUME NEW c \in Cell, Collect(c) PROVE CellInv'
  BY <1>18 DEF Collect
<1>19. ASSUME RendererWait PROVE CellInv'
  BY <1>19 DEF RendererWait
<1>20. ASSUME Report PROVE CellInv'
  BY <1>20 DEF Report, WriteVerdict, Leave
<1>21. ASSUME UNCHANGED vars PROVE CellInv'
  BY <1>21 DEF vars
<1> QED
  BY <1>1, <1>2, <1>3, <1>4, <1>5, <1>6, <1>7, <1>8, <1>9, <1>10, <1>11, <1>12,
     <1>13, <1>14, <1>15, <1>16, <1>17, <1>18, <1>19, <1>20, <1>21 DEF Next

(* ... and that of their streams, ... *)
LEMMA StreamKept ==
  ASSUME TypeOK, CellInv, StreamInv, [Next]_vars
  PROVE  StreamInv'
<1> USE DEF CellInv, StreamInv, TypeOK, Untouched, Ran, Early, planned, planVars,
      schedVars, streamVars, resultVars, outVars, None, Running, Value, ReportValue
<1>1. ASSUME SetupFails PROVE StreamInv'
  BY <1>1 DEF SetupFails, WriteVerdict, Leave
<1>2. ASSUME LoadFails PROVE StreamInv'
  BY <1>2 DEF LoadFails, WriteVerdict, Leave
<1>3. ASSUME PlanRefused PROVE StreamInv'
  BY <1>3 DEF PlanRefused, WriteVerdict, Leave
<1>4. ASSUME Plan PROVE StreamInv'
  BY <1>4 DEF Plan
<1>5. ASSUME PrepareWorktree PROVE StreamInv'
  BY <1>5 DEF PrepareWorktree
<1>6. ASSUME FanOut PROVE StreamInv'
  BY <1>6 DEF FanOut
<1>7. ASSUME Cancel PROVE StreamInv'
  BY <1>7 DEF Cancel
<1>8. ASSUME NEW c \in Cell, NotRun(c) PROVE StreamInv'
  BY <1>8 DEF NotRun, Scheduled, Answer
<1>9. ASSUME NEW c \in Cell, Begin(c) PROVE StreamInv'
  BY <1>9 DEF Begin, Scheduled
<1>10. ASSUME NEW c \in Cell, EnsureFails(c) PROVE StreamInv'
  BY <1>10 DEF EnsureFails, Scheduled, Answer
<1>11. ASSUME NEW c \in Cell, EnsureOk(c) PROVE StreamInv'
  BY <1>11 DEF EnsureOk, Scheduled
<1>12. ASSUME NEW c \in Cell, Emit(c) PROVE StreamInv'
  BY <1>12 DEF Emit, Scheduled
<1>13. ASSUME NEW c \in Cell, PipelineReturns(c) PROVE StreamInv'
  BY <1>13 DEF PipelineReturns, Scheduled, Answer
<1>14. ASSUME NEW c \in Cell, PumpCloses(c) PROVE StreamInv'
  BY <1>14 DEF PumpCloses
<1>15. ASSUME NEW c \in Cell, Render(c) PROVE StreamInv'
  BY <1>15 DEF Render
<1>16. ASSUME NEW c \in Cell, StreamEnds(c) PROVE StreamInv'
  BY <1>16 DEF StreamEnds
<1>17. ASSUME ScheduleReturns PROVE StreamInv'
  BY <1>17 DEF ScheduleReturns
<1>18. ASSUME NEW c \in Cell, Collect(c) PROVE StreamInv'
  BY <1>18 DEF Collect
<1>19. ASSUME RendererWait PROVE StreamInv'
  BY <1>19 DEF RendererWait
<1>20. ASSUME Report PROVE StreamInv'
  BY <1>20 DEF Report, WriteVerdict, Leave
<1>21. ASSUME UNCHANGED vars PROVE StreamInv'
  BY <1>21 DEF vars
<1> QED
  BY <1>1, <1>2, <1>3, <1>4, <1>5, <1>6, <1>7, <1>8, <1>9, <1>10, <1>11, <1>12,
     <1>13, <1>14, <1>15, <1>16, <1>17, <1>18, <1>19, <1>20, <1>21 DEF Next

(* Received is about the inputs alone. *)
LEMMA ReceivedKept ==
  ASSUME UNCHANGED <<inputs, skipped>>
  PROVE  /\ ExitCode' = ExitCode /\ Outcome' = Outcome
         /\ \A S : Received(S)' <=> Received(S)
BY DEF ExitCode, Outcome, Received

(* An input more is one value more that is received. *)
LEMMA AppendReceives ==
  ASSUME inputs \in Seq(Value), NEW w \in Value, inputs' = Append(inputs, w), NEW v
  PROVE  Received({v})' <=> Received({v}) \/ v = w
<1>1. /\ Len(inputs) \in Nat /\ DOMAIN inputs = 1..Len(inputs)
      /\ Len(inputs') = Len(inputs) + 1 /\ DOMAIN inputs' = 1..(Len(inputs) + 1)
      /\ inputs'[Len(inputs) + 1] = w
      /\ \A i \in 1..Len(inputs) : inputs'[i] = inputs[i]
  BY LenProperties, AppendProperties
<1>2. ASSUME Received({v}) PROVE Received({v})'
  <2>1. PICK i \in DOMAIN inputs : inputs[i] \in {v}
    BY <1>2 DEF Received
  <2>2. i \in DOMAIN inputs' /\ inputs'[i] \in {v}
    BY <1>1, <2>1
  <2> QED
    BY <2>2 DEF Received
<1>3. ASSUME v = w PROVE Received({v})'
  <2>1. Len(inputs) + 1 \in DOMAIN inputs'
    BY <1>1
  <2> QED
    BY <1>1, <1>3, <2>1 DEF Received
<1>4. ASSUME Received({v})', v # w PROVE Received({v})
  <2>1. PICK i \in DOMAIN inputs' : inputs'[i] \in {v}
    BY <1>4 DEF Received
  <2>2. i \in 1..Len(inputs)
    BY <1>1, <1>4, <2>1
  <2> QED
    BY <1>1, <2>1, <2>2 DEF Received
<1> QED
  BY <1>2, <1>3, <1>4

(* ... the inputs are the values of the cells that are shown, ... *)
LEMMA InputsKept ==
  ASSUME TypeOK, StreamInv, InputsInv, [Next]_vars
  PROVE  InputsInv'
<1>1. ASSUME NEW c \in Cell, Collect(c) PROVE InputsInv'
  <2>1. value[c] \in Value /\ shown[c] = None /\ value' = value
    BY <1>1 DEF Collect, StreamInv, TypeOK, schedVars
  <2>2. shown'[c] # None /\ \A d \in Cell : d # c => shown'[d] = shown[d]
    BY <1>1 DEF Collect, TypeOK, ReportValue, None
  <2>3. inputs \in Seq(Value) /\ inputs' = Append(inputs, value[c])
    BY <1>1 DEF Collect, TypeOK
  <2>4. \A v : Received({v})' <=> Received({v}) \/ v = value[c]
    BY <2>1, <2>3, AppendReceives
  <2>5. ASSUME NEW v \in Value
        PROVE  Received({v})' <=> \E d \in Cell : shown'[d] # None /\ value'[d] = v
    BY <2>1, <2>2, <2>4, <2>5 DEF InputsInv
  <2> QED
    BY <2>5 DEF InputsInv
<1>2. ASSUME ~ \E c \in Cell : Collect(c) PROVE InputsInv'
  <2>1. UNCHANGED <<shown, inputs>>
    BY <1>2 DEF Next, vars, resultVars, SetupFails, LoadFails, PlanRefused, Plan,
       PrepareWorktree, FanOut, Cancel, NotRun, Begin, EnsureFails, EnsureOk, Emit,
       PipelineReturns, PumpCloses, Render, StreamEnds, ScheduleReturns,
       RendererWait, Report
  <2>2. \A v : Received({v})' <=> Received({v})
    BY <2>1 DEF Received
  <2>3. \A c \in Cell : shown[c] # None => value'[c] = value[c]
    <3>1. ASSUME NEW c \in Cell, NEW v, Answer(c, v), value[c] = None
          PROVE  \A d \in Cell : shown[d] # None => value'[d] = value[d]
      BY <3>1 DEF Answer, StreamInv, TypeOK
    <3>2. ASSUME NEW c \in Cell, NotRun(c) \/ EnsureFails(c) \/ PipelineReturns(c)
          PROVE  value[c] = None /\ \E v : Answer(c, v)
      BY <3>2 DEF NotRun, EnsureFails, PipelineReturns, Scheduled, StreamInv
    <3>3. CASE \E c \in Cell : NotRun(c) \/ EnsureFails(c) \/ PipelineReturns(c)
      BY <3>1, <3>2, <3>3
    <3>4. CASE ~ \E c \in Cell : NotRun(c) \/ EnsureFails(c) \/ PipelineReturns(c)
      <4>1. value' = value
        BY <3>4, <1>2 DEF Next, vars, schedVars, SetupFails, LoadFails, PlanRefused,
           Plan, PrepareWorktree, FanOut, Cancel, Begin, EnsureOk, Emit, PumpCloses,
           Render, StreamEnds, ScheduleReturns, RendererWait, Report
      <4> QED
        BY <4>1
    <3> QED
      BY <3>3, <3>4
  <2> QED
    BY <2>1, <2>2, <2>3 DEF InputsInv
<1> QED
  BY <1>1, <1>2

(* A verdict that has been told stays so. *)
LEMMA ToldKept ==
  ASSUME Told, UNCHANGED <<planVars, resultVars, outcome, exit>>
  PROVE  Told'
<1>1. /\ UNCHANGED planVars /\ UNCHANGED <<inputs, skipped, shown, outcome, exit>>
      /\ planned' = planned
  BY DEF planVars, resultVars, planned
<1>2. ExitCode' = ExitCode /\ Outcome' = Outcome
  BY <1>1, ReceivedKept
<1>3. (\E registry \in Reachable : PlanIs(registry))' <=>
          \E registry \in Reachable : PlanIs(registry)
  BY <1>1, RequestKept
<1> QED
  BY <1>1, <1>2, <1>3 DEF Told

(* Before the fan-out no cell has been shown. *)
LEMMA EarlyShowsNone ==
  ASSUME PlanTypes, CellInv, main \in Early
  PROVE  \A c \in planned : shown[c] = None
BY DEF PlanTypes, CellInv, Untouched

(* ... and one verdict ends the run. *)
LEMMA VerdictKept ==
  ASSUME TypeOK, PlanInv, CellInv, StreamInv, VerdictInv, [Next]_vars
  PROVE  VerdictInv'
<1>1. ASSUME SetupFails PROVE VerdictInv'
  <2>1. /\ main' = "exited" /\ main \in Early /\ planned' = planned /\ shown' = shown
        /\ exit' = 2 /\ outcome' = "infra_error"
        /\ lastLine' = "verdict" /\ verdicts' = verdicts + 1
        /\ main # "exited" /\ worktree' # "live"
    BY <1>1 DEF SetupFails, WriteVerdict, Leave, Early, planVars, resultVars,
       planned
  <2>2. \A c \in planned : shown[c] = None
    BY <2>1, EarlyShowsNone DEF TypeOK
  <2>3. Told'
    BY <2>1, <2>2 DEF Told
  <2> QED
    BY <2>1, <2>3 DEF VerdictInv
<1>2. ASSUME LoadFails PROVE VerdictInv'
  <2>1. /\ main' = "exited" /\ main \in Early /\ planned' = planned /\ shown' = shown
        /\ exit' = 2 /\ outcome' = "infra_error"
        /\ lastLine' = "verdict" /\ verdicts' = verdicts + 1
        /\ main # "exited" /\ worktree' # "live"
    BY <1>2 DEF LoadFails, WriteVerdict, Leave, Early, planVars, resultVars, planned
  <2>2. \A c \in planned : shown[c] = None
    BY <2>1, EarlyShowsNone DEF TypeOK
  <2>3. Told'
    BY <2>1, <2>2 DEF Told
  <2> QED
    BY <2>1, <2>3 DEF VerdictInv
<1>3. ASSUME PlanRefused PROVE VerdictInv'
  <2>1. /\ main' = "exited" /\ main \in Early /\ planned' = planned /\ shown' = shown
        /\ exit' = 2 /\ outcome' = "infra_error"
        /\ lastLine' = "verdict" /\ verdicts' = verdicts + 1
        /\ main # "exited" /\ worktree' # "live"
    BY <1>3 DEF PlanRefused, WriteVerdict, Leave, Early, planVars, resultVars,
       planned
  <2>2. \A c \in planned : shown[c] = None
    BY <2>1, EarlyShowsNone DEF TypeOK
  <2>3. Told'
    BY <2>1, <2>2 DEF Told
  <2> QED
    BY <2>1, <2>3 DEF VerdictInv
<1>4. ASSUME Plan PROVE VerdictInv'
  <2>1. main # "exited" /\ main' # "exited" /\ verdicts' = verdicts
    BY <1>4 DEF Plan, outVars
  <2>2. worktree' = "live" => main' \in {"minting", "scheduling", "collecting", "reporting"}
    BY <1>4 DEF Plan, VerdictInv
  <2> QED
    BY <2>1, <2>2 DEF VerdictInv
<1>5. ASSUME PrepareWorktree PROVE VerdictInv'
  <2>1. main # "exited" /\ main' # "exited" /\ verdicts' = verdicts
    BY <1>5 DEF PrepareWorktree, outVars
  <2>2. worktree' = "live" => main' \in {"minting", "scheduling", "collecting", "reporting"}
    BY <1>5 DEF PrepareWorktree, VerdictInv
  <2> QED
    BY <2>1, <2>2 DEF VerdictInv
<1>6. ASSUME FanOut PROVE VerdictInv'
  <2>1. main # "exited" /\ main' # "exited" /\ verdicts' = verdicts
    BY <1>6 DEF FanOut, outVars
  <2>2. worktree' = "live" => main' \in {"minting", "scheduling", "collecting", "reporting"}
    BY <1>6 DEF FanOut, VerdictInv
  <2> QED
    BY <2>1, <2>2 DEF VerdictInv
<1>7. ASSUME Cancel PROVE VerdictInv'
  <2>1. main # "exited" /\ main' # "exited" /\ verdicts' = verdicts
    BY <1>7 DEF Cancel, outVars
  <2>2. worktree' = "live" => main' \in {"minting", "scheduling", "collecting", "reporting"}
    BY <1>7 DEF Cancel, VerdictInv
  <2> QED
    BY <2>1, <2>2 DEF VerdictInv
<1>8. ASSUME NEW c \in Cell, NotRun(c) PROVE VerdictInv'
  <2>1. main # "exited" /\ main' # "exited" /\ verdicts' = verdicts
    BY <1>8 DEF NotRun, Scheduled, Answer, outVars
  <2>2. worktree' = "live" => main' \in {"minting", "scheduling", "collecting", "reporting"}
    BY <1>8 DEF NotRun, Scheduled, Answer, VerdictInv
  <2> QED
    BY <2>1, <2>2 DEF VerdictInv
<1>9. ASSUME NEW c \in Cell, Begin(c) PROVE VerdictInv'
  <2>1. main # "exited" /\ main' # "exited" /\ verdicts' = verdicts
    BY <1>9 DEF Begin, Scheduled, outVars
  <2>2. worktree' = "live" => main' \in {"minting", "scheduling", "collecting", "reporting"}
    BY <1>9 DEF Begin, Scheduled, VerdictInv
  <2> QED
    BY <2>1, <2>2 DEF VerdictInv
<1>10. ASSUME NEW c \in Cell, EnsureFails(c) PROVE VerdictInv'
  <2>1. main # "exited" /\ main' # "exited" /\ verdicts' = verdicts
    BY <1>10 DEF EnsureFails, Scheduled, Answer, outVars
  <2>2. worktree' = "live" => main' \in {"minting", "scheduling", "collecting", "reporting"}
    BY <1>10 DEF EnsureFails, Scheduled, Answer, VerdictInv
  <2> QED
    BY <2>1, <2>2 DEF VerdictInv
<1>11. ASSUME NEW c \in Cell, EnsureOk(c) PROVE VerdictInv'
  <2>1. main # "exited" /\ main' # "exited" /\ verdicts' = verdicts
    BY <1>11 DEF EnsureOk, Scheduled, outVars
  <2>2. worktree' = "live" => main' \in {"minting", "scheduling", "collecting", "reporting"}
    BY <1>11 DEF EnsureOk, Scheduled, VerdictInv
  <2> QED
    BY <2>1, <2>2 DEF VerdictInv
<1>12. ASSUME NEW c \in Cell, Emit(c) PROVE VerdictInv'
  <2>1. main # "exited" /\ main' # "exited" /\ verdicts' = verdicts
    BY <1>12 DEF Emit, Scheduled, outVars
  <2>2. worktree' = "live" => main' \in {"minting", "scheduling", "collecting", "reporting"}
    BY <1>12 DEF Emit, Scheduled, VerdictInv
  <2> QED
    BY <2>1, <2>2 DEF VerdictInv
<1>13. ASSUME NEW c \in Cell, PipelineReturns(c) PROVE VerdictInv'
  <2>1. main # "exited" /\ main' # "exited" /\ verdicts' = verdicts
    BY <1>13 DEF PipelineReturns, Scheduled, Answer, outVars
  <2>2. worktree' = "live" => main' \in {"minting", "scheduling", "collecting", "reporting"}
    BY <1>13 DEF PipelineReturns, Scheduled, Answer, VerdictInv
  <2> QED
    BY <2>1, <2>2 DEF VerdictInv
<1>14. ASSUME NEW c \in Cell, PumpCloses(c) PROVE VerdictInv'
  <2>1. UNCHANGED <<main, planVars, resultVars, outcome, exit, verdicts, worktree>>
    BY <1>14 DEF PumpCloses, outVars
  <2>2. main = "exited" => lastLine' = lastLine
    BY <1>14 DEF PumpCloses, outVars, CellInv
  <2>3. main = "exited" => Told'
    BY <2>1, ToldKept DEF VerdictInv, resultVars
  <2> QED
    BY <2>1, <2>2, <2>3 DEF VerdictInv
<1>15. ASSUME NEW c \in Cell, Render(c) PROVE VerdictInv'
  <2>1. UNCHANGED <<main, planVars, resultVars, outcome, exit, verdicts, worktree>>
    BY <1>15 DEF Render, outVars
  <2>2. main = "exited" => lastLine' = lastLine
    BY <1>15 DEF Render, outVars, CellInv
  <2>3. main = "exited" => Told'
    BY <2>1, ToldKept DEF VerdictInv, resultVars
  <2> QED
    BY <2>1, <2>2, <2>3 DEF VerdictInv
<1>16. ASSUME NEW c \in Cell, StreamEnds(c) PROVE VerdictInv'
  <2>1. UNCHANGED <<main, planVars, resultVars, outcome, exit, verdicts, worktree>>
    BY <1>16 DEF StreamEnds, outVars
  <2>2. main = "exited" => lastLine' = lastLine
    BY <1>16 DEF StreamEnds, outVars, CellInv
  <2>3. main = "exited" => Told'
    BY <2>1, ToldKept DEF VerdictInv, resultVars
  <2> QED
    BY <2>1, <2>2, <2>3 DEF VerdictInv
<1>17. ASSUME ScheduleReturns PROVE VerdictInv'
  <2>1. main # "exited" /\ main' # "exited" /\ verdicts' = verdicts
    BY <1>17 DEF ScheduleReturns, outVars
  <2>2. worktree' = "live" => main' \in {"minting", "scheduling", "collecting", "reporting"}
    BY <1>17 DEF ScheduleReturns, VerdictInv
  <2> QED
    BY <2>1, <2>2 DEF VerdictInv
<1>18. ASSUME NEW c \in Cell, Collect(c) PROVE VerdictInv'
  <2>1. main # "exited" /\ main' # "exited" /\ verdicts' = verdicts
    BY <1>18 DEF Collect, outVars
  <2>2. worktree' = "live" => main' \in {"minting", "scheduling", "collecting", "reporting"}
    BY <1>18 DEF Collect, VerdictInv
  <2> QED
    BY <2>1, <2>2 DEF VerdictInv
<1>19. ASSUME RendererWait PROVE VerdictInv'
  <2>1. main # "exited" /\ main' # "exited" /\ verdicts' = verdicts
    BY <1>19 DEF RendererWait, outVars
  <2>2. worktree' = "live" => main' \in {"minting", "scheduling", "collecting", "reporting"}
    BY <1>19 DEF RendererWait, VerdictInv
  <2> QED
    BY <2>1, <2>2 DEF VerdictInv
<1>20. ASSUME Report PROVE VerdictInv'
  <2>1. /\ main' = "exited" /\ main = "reporting" /\ UNCHANGED planVars /\ shown' = shown
        /\ UNCHANGED <<inputs, skipped>> /\ planned' = planned
        /\ exit' = ExitCode /\ outcome' = Outcome
        /\ lastLine' = "verdict" /\ verdicts' = verdicts + 1
        /\ worktree' # "live"
    BY <1>20 DEF Report, WriteVerdict, Leave, planVars, resultVars, planned
  <2>2. \A c \in planned : shown[c] # None
    BY <2>1 DEF StreamInv, TypeOK, PlanTypes
  <2>3. \E registry \in Reachable : PlanIs(registry)
    BY <2>1 DEF PlanInv
  <2>4. (\E registry \in Reachable : PlanIs(registry))'
    BY <2>1, <2>3, RequestKept
  <2>5. Told'
    BY <2>1, <2>2, <2>4, ReceivedKept DEF Told
  <2>6. verdicts' = 1
    BY <2>1 DEF VerdictInv
  <2> QED
    BY <2>1, <2>5, <2>6 DEF VerdictInv
<1>21. ASSUME UNCHANGED vars PROVE VerdictInv'
  <2>1. UNCHANGED <<main, planVars, resultVars, outcome, exit, verdicts, worktree, lastLine>>
    BY <1>21 DEF vars, outVars
  <2>2. main = "exited" => Told'
    BY <2>1, ToldKept DEF VerdictInv
  <2> QED
    BY <2>1, <2>2 DEF VerdictInv
<1> QED
  BY <1>1, <1>2, <1>3, <1>4, <1>5, <1>6, <1>7, <1>8, <1>9, <1>10, <1>11, <1>12,
     <1>13, <1>14, <1>15, <1>16, <1>17, <1>18, <1>19, <1>20, <1>21 DEF Next

-----------------------------------------------------------------------------
(* The run that Build makes for the j-th major of the i-th target, and the  *)
(* pairs of positions that it makes one for.                                *)
RunAt(p) == [os |-> Targets[p[1]], node |-> Majors(Targets[p[1]])[p[2]]]
RunPlace(registry, p) ==
  /\ p = <<p[1], p[2]>>
  /\ p[1] \in DOMAIN Targets /\ Unplannable(registry, Targets[p[1]]) = None
  /\ p[2] \in DOMAIN Majors(Targets[p[1]])

(* These are the places in the blocks. *)
LEMMA BlockPlaces ==
  ASSUME flags \in Flags, cfg \in Config, NEW registry
  PROVE  LET b == Blocks(registry) IN
         \A p : /\ p \in Places(b, Len(b)) <=> RunPlace(registry, p)
                /\ RunPlace(registry, p) => b[p[1]][p[2]] = RunAt(p)
<1> DEFINE b == Blocks(registry)
<1>1. /\ DOMAIN b = DOMAIN Targets /\ DOMAIN Targets = 1..Len(b) /\ Len(b) \in Nat
      /\ \A i \in DOMAIN Targets : b[i] = RunsOf(registry, Targets[i])
  <2>1. DOMAIN Targets = 1..Len(Targets) /\ Len(b) = Len(Targets)
    BY BlockTypes
  <2>2. Len(Targets) \in Nat
    BY RequestTypes, LenProperties
  <2> QED
    BY <2>1, <2>2 DEF Blocks
<1>2. ASSUME NEW i \in DOMAIN Targets, Unplannable(registry, Targets[i]) # None
      PROVE  DOMAIN b[i] = {}
  <2>1. b[i] = <<>>
    BY <1>1, <1>2 DEF RunsOf
  <2> QED
    BY <2>1
<1>3. ASSUME NEW i \in DOMAIN Targets, Unplannable(registry, Targets[i]) = None
      PROVE  /\ DOMAIN b[i] = DOMAIN Majors(Targets[i])
             /\ \A j \in DOMAIN b[i] : b[i][j] = RunAt(<<i, j>>)
  <2>1. b[i] = [j \in DOMAIN Majors(Targets[i]) |->
                  [os |-> Targets[i], node |-> Majors(Targets[i])[j]]]
    BY <1>1, <1>3 DEF RunsOf
  <2> QED
    BY <2>1 DEF RunAt
<1> HIDE DEF b
<1>4. ASSUME NEW p, p \in Places(b, Len(b)) PROVE RunPlace(registry, p)
  <2>1. p[1] \in DOMAIN Targets /\ p[2] \in DOMAIN b[p[1]] /\ p = <<p[1], p[2]>>
    BY <1>1, <1>4, InPlaces
  <2> QED
    BY <1>2, <1>3, <2>1 DEF RunPlace
<1>5. ASSUME NEW p, RunPlace(registry, p) PROVE p \in Places(b, Len(b)) /\ b[p[1]][p[2]] = RunAt(p)
  <2>1. p[1] \in 1..Len(b) /\ p[2] \in DOMAIN b[p[1]] /\ p = <<p[1], p[2]>>
    BY <1>1, <1>3, <1>5 DEF RunPlace
  <2>2. p \in Places(b, Len(b))
    BY <1>1, <2>1, InPlaces
  <2>3. b[p[1]][p[2]] = RunAt(<<p[1], p[2]>>)
    BY <1>3, <1>5, <2>1 DEF RunPlace
  <2> QED
    BY <2>1, <2>2, <2>3
<1> QED
  BY <1>4, <1>5 DEF b

(* The plan is the runs of these places, each once. *)
LEMMA PlanListsRuns ==
  ASSUME PlanTypes, NEW registry, PlanIs(registry)
  PROVE  /\ \A p : RunPlace(registry, p) => \E c \in planned : runs[c] = RunAt(p)
         /\ \A c \in planned : \E p : RunPlace(registry, p) /\ runs[c] = RunAt(p)
         /\ \A c, d \in planned : c # d =>
              \E p, q : /\ RunPlace(registry, p) /\ RunPlace(registry, q) /\ p # q
                        /\ runs[c] = RunAt(p) /\ runs[d] = RunAt(q)
<1> DEFINE b == Blocks(registry)
<1>1. flags \in Flags /\ cfg \in Config
  BY DEF PlanTypes
<1>2. runs = FlattenSeq(b)
  BY DEF PlanIs, BuildRuns, Blocks
<1>3. Lists(runs, b, Len(b))
  BY <1>1, <1>2, BlockTypes, FlattenLists
<1>4. /\ \A p : p \in Places(b, Len(b)) <=> RunPlace(registry, p)
      /\ \A p : RunPlace(registry, p) => b[p[1]][p[2]] = RunAt(p)
  BY <1>1, BlockPlaces
<1> HIDE DEF b
<1>5. ASSUME NEW p, RunPlace(registry, p) PROVE \E c \in planned : runs[c] = RunAt(p)
  BY <1>3, <1>4, <1>5 DEF Lists, planned
<1>6. ASSUME NEW c \in planned PROVE \E p : RunPlace(registry, p) /\ runs[c] = RunAt(p)
  BY <1>3, <1>4 DEF Lists, planned
<1>7. ASSUME NEW c \in planned, NEW d \in planned, c # d
      PROVE  \E p, q : /\ RunPlace(registry, p) /\ RunPlace(registry, q) /\ p # q
                       /\ runs[c] = RunAt(p) /\ runs[d] = RunAt(q)
  <2>1. PICK p, q \in Places(b, Len(b)) :
          p # q /\ runs[c] = b[p[1]][p[2]] /\ runs[d] = b[q[1]][q[2]]
    BY <1>3, <1>7 DEF Lists, planned
  <2> QED
    BY <1>4, <2>1
<1> QED
  BY <1>5, <1>6, <1>7

(* Two cells of the same run come from a target or a major named twice. *)
LEMMA PlanDistinct ==
  ASSUME PlanTypes, NEW registry, PlanIs(registry)
  PROVE  CellsDistinct
<1>1. SUFFICES ASSUME NEW c \in planned, NEW d \in planned, runs[c] = runs[d], c # d,
                      IsInjective(Targets)
               PROVE  ~ IsInjective(flags.node)
  BY DEF CellsDistinct
<1>2. PICK p, q : /\ RunPlace(registry, p) /\ RunPlace(registry, q) /\ p # q
                  /\ runs[c] = RunAt(p) /\ runs[d] = RunAt(q)
  BY <1>1, PlanListsRuns
<1>3. RunAt(p).os = RunAt(q).os /\ RunAt(p).node = RunAt(q).node
  BY <1>1, <1>2
<1>4. Targets[p[1]] = Targets[q[1]] /\ p[1] \in DOMAIN Targets /\ q[1] \in DOMAIN Targets
  BY <1>2, <1>3 DEF RunAt, RunPlace
<1>5. p[1] = q[1]
  BY <1>1, <1>4 DEF IsInjective
<1>6. p[2] # q[2]
  BY <1>2, <1>5 DEF RunPlace
<1> DEFINE m == Majors(Targets[p[1]])
<1>7. m[p[2]] = m[q[2]] /\ p[2] \in DOMAIN m /\ q[2] \in DOMAIN m
  BY <1>2, <1>3, <1>5 DEF RunAt, RunPlace
<1>8. ~ IsInjective(m)
  BY <1>6, <1>7 DEF IsInjective
<1>9. Targets[p[1]] \in OS /\ Valid(cfg)
  <2>1. Targets \in Seq(OS)
    BY RequestTypes DEF PlanTypes
  <2> QED
    BY <1>4, <2>1, ElementOfSeq, LenProperties DEF PlanIs
<1> QED
  BY <1>8, <1>9, RequestTypes DEF PlanTypes

(* What is wanted of a target that is planned is planned, ... *)
LEMMA PlannedIsWanted ==
  ASSUME PlanTypes, NEW registry, PlanIs(registry), skipped = {}, NEW w \in Wanted
  PROVE  \E c \in planned : runs[c] = w
<1>1. PICK t \in ToSet(Targets) : \E m \in ToSet(Majors(t)) : w = [os |-> t, node |-> m]
  BY DEF Wanted
<1>2. PICK i \in DOMAIN Targets : t = Targets[i]
  BY DEF ToSet
<1>3. PICK j \in DOMAIN Majors(t) : w = [os |-> t, node |-> Majors(t)[j]]
  BY <1>1 DEF ToSet
<1>4. Unplannable(registry, t) = None
  BY DEF PlanIs, BuildSkips
<1>5. RunPlace(registry, <<i, j>>) /\ RunAt(<<i, j>>) = w
  BY <1>2, <1>3, <1>4 DEF RunPlace, RunAt
<1> QED
  BY <1>5, PlanListsRuns

(* ... and of a target that is skipped something wanted is not. *)
LEMMA SkippedIsMissed ==
  ASSUME PlanTypes, NEW registry, PlanIs(registry), skipped # {}
  PROVE  \E w \in Wanted : \A c \in planned : runs[c] # w
<1>1. PICK k \in skipped : TRUE
  OBVIOUS
<1> DEFINE t == k.os
<1>2. t \in ToSet(Targets)
  BY DEF PlanTypes
<1>3. PICK i \in DOMAIN Targets : t = Targets[i]
  BY <1>2 DEF ToSet
<1>4. t \in OS
  <2>1. Targets \in Seq(OS)
    BY RequestTypes DEF PlanTypes
  <2> QED
    BY <1>3, <2>1, ElementOfSeq, LenProperties
<1>5. Majors(t) \in Seq(Major) /\ Majors(t) # <<>>
  BY <1>4, RequestTypes DEF PlanTypes
<1>6. 1 \in DOMAIN Majors(t)
  BY <1>5, EmptySeq, LenProperties
<1> DEFINE w == [os |-> t, node |-> Majors(t)[1]]
<1>7. w \in Wanted
  <2>1. Majors(t)[1] \in ToSet(Majors(t))
    BY <1>6 DEF ToSet
  <2> QED
    BY <1>2, <2>1 DEF Wanted
<1>8. ASSUME NEW c \in planned, runs[c] = w PROVE FALSE
  <2>1. PICK p : RunPlace(registry, p) /\ runs[c] = RunAt(p)
    BY PlanListsRuns
  <2>2. Unplannable(registry, t) = None
    <3>1. RunAt(p).os = t
      BY <1>8, <2>1
    <3> QED
      BY <2>1, <3>1 DEF RunAt, RunPlace
  <2>3. k \notin BuildSkips(registry)
    BY <2>2 DEF BuildSkips
  <2>4. k \in AddUnreachable(registry)
    BY <2>3 DEF PlanIs
  <2>5. \A r \in ToSet(BuildRuns(registry)) : r.os # t
    BY <2>4 DEF AddUnreachable
  <2>6. runs[c] \in ToSet(BuildRuns(registry))
    BY DEF PlanIs, planned, ToSet
  <2> QED
    BY <1>8, <2>5, <2>6
<1> QED
  BY <1>7, <1>8

-----------------------------------------------------------------------------
(* The inductive invariant: the plan and the request it is made from, the   *)
(* cells and their streams, what Aggregate has been handed, the verdict.    *)
THEOREM Inductive == Spec => []IInv
<1>1. Init => IInv
  <2> SUFFICES ASSUME Init PROVE IInv
    OBVIOUS
  <2> USE DEF Init
  <2>1. TypeOK
    <3>1. <<>> \in Seq([os : OS, node : Major]) /\ <<>> \in Seq(Value) /\ DOMAIN <<>> = {}
      OBVIOUS
    <3>2. PlanTypes
      BY <3>1 DEF PlanTypes, planned
    <3>3. emitted \in [Cell -> 0..MaxEvents]
      BY BoundAssumption
    <3> QED
      BY <3>1, <3>2, <3>3 DEF TypeOK, None, Running
  <2>2. PlanInv
    BY DEF PlanInv, NoPlan
  <2>3. CellInv /\ StreamInv
    BY DEF CellInv, StreamInv, Untouched, None, planned
  <2>4. InputsInv
    BY DEF InputsInv, Received
  <2>5. VerdictInv
    BY DEF VerdictInv
  <2> QED
    BY <2>1, <2>2, <2>3, <2>4, <2>5 DEF IInv
<1>2. IInv /\ [Next]_vars => IInv'
  BY TypesKept, PlanInvKept, CellKept, StreamKept, InputsKept, VerdictKept DEF IInv
<1> QED
  BY <1>1, <1>2, PTL DEF Spec

(* Nothing is left to happen when Run has returned, no stream is closed     *)
(* twice, and no cell is there twice, in the states of the invariant.       *)
LEMMA InvFollows ==
  ASSUME IInv
  PROVE  Inv
<1> USE DEF IInv
<1>1. VerdictIsLast
  <2>1. ASSUME main = "exited", NEW c \in planned
        PROVE  pending[c] = 0 /\ cell[c] \notin {"ensuring", "running"}
    <3>1. c \in Cell
      BY DEF TypeOK, PlanTypes
    <3>2. CASE consumer[c] = "none"
      BY <3>1, <3>2 DEF CellInv, Untouched
    <3>3. CASE consumer[c] = "done"
      <4>1. pending[c] = 0 /\ closes[c] = 1
        BY <3>1, <3>3 DEF CellInv, StreamInv, TypeOK
      <4>2. value[c] # None
        BY <3>1, <4>1 DEF StreamInv, Ran, ReportValue, None
      <4> QED
        BY <3>1, <4>1, <4>2 DEF StreamInv
    <3> QED
      BY <2>1, <3>1, <3>2, <3>3 DEF CellInv, TypeOK
  <2> QED
    BY <2>1 DEF VerdictIsLast, VerdictInv
<1>2. ClosedOnce
  <2> SUFFICES ASSUME NEW c \in Cell
               PROVE  /\ closes[c] + (IF c \in flushing THEN 1 ELSE 0) <= 1
                      /\ closes[c] > 0 => cell[c] = "answered"
    BY DEF ClosedOnce
  <2> QED
    BY DEF StreamInv, Ran, ReportValue, None
<1>3. CellsDistinct
  <2>1. CASE NoPlan
    BY <2>1 DEF NoPlan, CellsDistinct, planned
  <2>2. CASE \E registry \in Reachable : PlanIs(registry)
    BY <2>2, PlanDistinct DEF TypeOK
  <2> QED
    BY <2>1, <2>2 DEF PlanInv
<1> QED
  BY <1>1, <1>2, <1>3 DEF Inv

(* The verdict is one, the last line, after everything else is over; every  *)
(* stream is closed once; and no cell is planned twice but on request.      *)
THEOREM RunCorrect == Spec => []Inv
<1>1. IInv => Inv
  BY InvFollows
<1> QED
  BY <1>1, Inductive, PTL

(* What is told when Run returns is true of the plan and of its cells: what *)
(* is received is what they have answered, and what is skipped is wanted.   *)
LEMMA TruthFollows ==
  ASSUME IInv, main = "exited"
  PROVE  ExitTellsTruth
<1> USE DEF IInv
<1>1. \A c \in planned : c \in Cell
  BY DEF TypeOK, PlanTypes
<1>2. CASE exit = 2 /\ outcome = "infra_error" /\ \A c \in planned : shown[c] = None
  <2>1. (\A c \in planned : shown[c] # None) => runs = <<>>
    <3>1. ASSUME runs # <<>> PROVE planned # {}
      <4> DEFINE R == [os : OS, node : Major]
      <4>1. runs \in Seq(R)
        BY DEF TypeOK, PlanTypes
      <4> HIDE DEF R
      <4>2. Len(runs) \in Nat /\ Len(runs) # 0 /\ DOMAIN runs = 1..Len(runs)
        BY <3>1, <4>1, EmptySeq, LenProperties
      <4>3. 1 \in DOMAIN runs
        BY <4>2
      <4> QED
        BY <4>3 DEF planned
    <3> QED
      BY <1>2, <3>1
  <2> QED
    BY <1>2, <2>1 DEF ExitTellsTruth
<1>3. CASE /\ exit = ExitCode /\ outcome = Outcome
           /\ \A c \in planned : shown[c] # None
           /\ \E registry \in Reachable : PlanIs(registry)
  <2>1. PICK registry \in Reachable : PlanIs(registry)
    BY <1>3
  <2>2. \A c \in planned : value[c] \in Value /\ Received({value[c]})
    <3>1. ASSUME NEW c \in planned PROVE value[c] \in Value /\ Received({value[c]})
      <4>1. c \in Cell /\ shown[c] # None /\ value[c] \in Value
        BY <1>1, <1>3 DEF StreamInv, TypeOK
      <4> QED
        BY <4>1 DEF InputsInv
    <3> QED
      BY <3>1
  <2>3. \A v \in Value : Received({v}) => \E c \in planned : value[c] = v
    <3>1. ASSUME NEW v \in Value, Received({v}) PROVE \E c \in planned : value[c] = v
      <4>1. PICK c \in Cell : shown[c] # None /\ value[c] = v
        BY <3>1 DEF InputsInv
      <4>2. consumer[c] # "none"
        BY <4>1 DEF CellInv, Untouched
      <4> QED
        BY <4>1, <4>2 DEF CellInv
    <3> QED
      BY <3>1
  <2>4. Received({"legErr", "ensureErr", "notRun"}) <=>
          Received({"legErr"}) \/ Received({"ensureErr"}) \/ Received({"notRun"})
    BY DEF Received
  <2> DEFINE Err == Received({"legErr", "ensureErr", "notRun"})
  <2>5. Err => \E c \in planned : value[c] \notin ReportValue
    BY <2>3, <2>4 DEF Value, ReportValue
  <2>6. ~ Err => \A c \in planned : value[c] \in ReportValue
    BY <2>2, <2>4 DEF Value, ReportValue
  <2>7. ~ Err /\ ~ Received({"failed"}) => \A c \in planned : value[c] = "passed"
    BY <2>2, <2>6 DEF ReportValue
  <2>8. Received({"failed"}) => \E c \in planned : value[c] = "failed"
    BY <2>3 DEF Value, ReportValue
  <2>9. skipped = {} => \A w \in Wanted : \E c \in planned : runs[c] = w
    BY <2>1, PlannedIsWanted DEF TypeOK
  <2>10. skipped # {} => \E w \in Wanted : \A c \in planned : runs[c] # w
    BY <2>1, SkippedIsMissed DEF TypeOK
  <2>11. /\ exit = IF Err \/ skipped # {} THEN 2 ELSE IF Received({"failed"}) THEN 1 ELSE 0
         /\ outcome = IF Err THEN "infra_error"
                      ELSE IF Received({"failed"}) THEN "failed" ELSE "passed"
    BY <1>3 DEF ExitCode, Outcome
  <2> HIDE DEF Err
  <2>12. ASSUME exit = 0
         PROVE  Verified({"passed"}) /\ \A c \in planned : value[c] = "passed"
    <3>1. ~ Err /\ ~ Received({"failed"}) /\ skipped = {}
      BY <2>11, <2>12
    <3> QED
      BY <2>7, <2>9, <3>1 DEF Verified
  <2>13. ASSUME exit = 1
         PROVE  Verified(ReportValue) /\ \E c \in planned : value[c] = "failed"
    <3>1. ~ Err /\ Received({"failed"}) /\ skipped = {}
      BY <2>11, <2>13
    <3> QED
      BY <2>6, <2>8, <2>9, <3>1 DEF Verified
  <2>14. ASSUME exit = 2
         PROVE  ~ Verified(ReportValue) \/ \E c \in planned : value[c] \notin ReportValue
    <3>1. CASE Err
      BY <2>5, <3>1
    <3>2. CASE skipped # {}
      BY <2>10, <3>2 DEF Verified
    <3> QED
      BY <2>11, <2>14, <3>1, <3>2
  <2>15. skipped = {} =>
           exit = CASE outcome = "passed" -> 0 [] outcome = "failed" -> 1 [] OTHER -> 2
    <3>1. CASE Err
      BY <2>11, <3>1
    <3>2. CASE ~ Err /\ Received({"failed"})
      BY <2>11, <3>2
    <3>3. CASE ~ Err /\ ~ Received({"failed"})
      BY <2>11, <3>3
    <3> QED
      BY <3>1, <3>2, <3>3
  <2> QED
    BY <2>12, <2>13, <2>14, <2>15 DEF ExitTellsTruth
<1> QED
  BY <1>2, <1>3 DEF VerdictInv, Told

(* The exit code, and the verdict's outcome with it, tell the truth about   *)
(* the request whatever has become of it.                                   *)
THEOREM ExitIsTrue == Spec => []ExitTellsTruth
<1>1. IInv => ExitTellsTruth
  BY TruthFollows DEF ExitTellsTruth
<1> QED
  BY <1>1, Inductive, PTL
=============================================================================
