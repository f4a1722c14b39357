--------------------------- MODULE ScheduleProofs ---------------------------
(***************************************************************************)
(* Proofs about schedule.Run, for every number of units, every routing and *)
(* every capacity.                                                         *)
(***************************************************************************)
EXTENDS Schedule, FiniteSetTheorems, TLAPS

(* What the goroutines know that no single variable says. *)
WorkerInv ==
  \A w \in Worker :
    /\ hold[w] # NoUnit <=> pc[w] \in {"received", "working"}
    /\ hold[w] # NoUnit => UnitOS[hold[w]] = w.os
    /\ pc[w] # "off" <=> w.os \in launched /\ w.bench \in BenchesByOS[w.os]
    /\ pc[w] = "exited" => queue[w.os] = {}

QueueInv == \A o \in OS : \A u \in queue[o] : UnitOS[u] = o

(* Once Run has returned, every group is handled and no worker is running. *)
ReturnedInv ==
  returned =>
    /\ \A o \in UsedOS : IF BenchesByOS[o] = {} THEN queue[o] = {} ELSE o \in launched
    /\ \A w \in Worker : pc[w] \in {"off", "exited"}

IInv == TypeOK /\ WorkerInv /\ QueueInv /\ Conservation /\ ReturnedInv

-----------------------------------------------------------------------------
(* What a worker record is made of. *)
LEMMA WorkerFields ==
  ASSUME NEW w \in Worker
  PROVE  w.os \in OS /\ w.bench \in Bench /\ w.slot \in 1..Slots(w.bench)
         /\ w = [os |-> w.os, bench |-> w.bench, slot |-> w.slot]
<1>1. PICK o \in OS : w \in UNION {WorkersAt(o, b) : b \in Bench}
  BY DEF Worker
<1>2. PICK b \in Bench : w \in WorkersAt(o, b)
  BY <1>1
<1> QED
  BY <1>2 DEF WorkersAt

(* A candidate bench always contributes a worker: the floor of the         *)
(* capacity is what guarantees it.                                         *)
LEMMA BenchHasWorker ==
  ASSUME NEW o \in OS, NEW b \in Bench
  PROVE  \E w \in Worker : w.os = o /\ w.bench = b
<1> DEFINE w == [os |-> o, bench |-> b, slot |-> 1]
<1>1. 1 \in 1..Slots(b)
  BY BenchAssumption DEF Slots
<1>2. w \in WorkersAt(o, b)
  BY <1>1 DEF WorkersAt
<1>3. w \in Worker
  BY <1>2 DEF Worker
<1> QED
  BY <1>3

(* Appending a result for a unit that has none keeps results unique.       *)
LEMMA AppendResult ==
  ASSUME TypeOK, NEW r \in [unit : Unit, bench : Bench \cup {NoBench}, value : Value],
         results' = Append(results, r)
  PROVE  /\ results' \in Seq([unit : Unit, bench : Bench \cup {NoBench}, value : Value])
         /\ DOMAIN results' = DOMAIN results \cup {Len(results) + 1}
         /\ Len(results) + 1 \notin DOMAIN results
         /\ \A i \in DOMAIN results : results'[i] = results[i]
         /\ results'[Len(results) + 1] = r
         /\ \A u \in Unit : Answered(u)' <=> (Answered(u) \/ u = r.unit)
<1>1. results \in Seq([unit : Unit, bench : Bench \cup {NoBench}, value : Value])
  BY DEF TypeOK
<1>2. /\ results' \in Seq([unit : Unit, bench : Bench \cup {NoBench}, value : Value])
      /\ Len(results') = Len(results) + 1
      /\ DOMAIN results = 1..Len(results)
      /\ DOMAIN results' = 1..Len(results')
      /\ Len(results) \in Nat
  BY <1>1
<1>3. /\ \A i \in DOMAIN results : results'[i] = results[i]
      /\ results'[Len(results) + 1] = r
  BY <1>1
<1>4. DOMAIN results' = DOMAIN results \cup {Len(results) + 1}
  BY <1>2
<1>5. Len(results) + 1 \notin DOMAIN results
  BY <1>2
<1>6. \A u \in Unit : Answered(u)' <=> (Answered(u) \/ u = r.unit)
  BY <1>3, <1>4 DEF Answered
<1> QED
  BY <1>2, <1>3, <1>4, <1>5, <1>6

-----------------------------------------------------------------------------
(* The groups of the initial state are the units by their OS.              *)
LEMMA InitIInv == Init => IInv
<1> SUFFICES ASSUME Init PROVE IInv
  OBVIOUS
<1> USE NAssumption, BenchAssumption DEF Init
<1>1. TypeOK
  <2>1. results \in Seq([unit : Unit, bench : Bench \cup {NoBench}, value : Value])
    OBVIOUS
  <2>2. queue \in [OS -> SUBSET Unit] /\ hold \in [Worker -> Unit \cup {NoUnit}]
    BY DEF UnitsOf
  <2> QED
    BY <2>1, <2>2 DEF TypeOK
<1>2. WorkerInv
  BY DEF WorkerInv, NoUnit
<1>3. QueueInv
  BY DEF QueueInv, UnitsOf
<1>4. Conservation
  <2>1. \A u \in Unit : Queued(u)
    BY DEF Queued, UnitsOf, Unit
  <2>2. \A u \in Unit : ~Held(u) /\ ~Answered(u)
    BY DEF Held, Answered, Unit, NoUnit
  <2> QED
    BY <2>1, <2>2 DEF Conservation
<1>5. ReturnedInv
  BY DEF ReturnedInv
<1> QED
  BY <1>1, <1>2, <1>3, <1>4, <1>5 DEF IInv

(* The types are preserved by every step. *)
LEMMA StepTypeOK ==
  ASSUME IInv, [Next]_vars
  PROVE  TypeOK'
<1> USE NAssumption, BenchAssumption DEF IInv
<1>1. ASSUME NEW o \in OS, Surface(o) PROVE TypeOK'
  <2>1. PICK u \in queue[o] : /\ queue' = [queue EXCEPT ![o] = @ \ {u}]
                              /\ results' = Append(results, Result(u, NoBench, "noBench"))
    BY <1>1 DEF Surface
  <2>2. Result(u, NoBench, "noBench") \in [unit : Unit, bench : Bench \cup {NoBench}, value : Value]
    BY DEF Result, Value, TypeOK
  <2>3. results' \in Seq([unit : Unit, bench : Bench \cup {NoBench}, value : Value])
    BY <2>1, <2>2, AppendResult
  <2> QED
    BY <1>1, <2>1, <2>3 DEF Surface, TypeOK
<1>2. ASSUME NEW o \in OS, Launch(o) PROVE TypeOK'
  BY <1>2 DEF Launch, TypeOK
<1>3. ASSUME NEW w \in Worker, Pull(w) PROVE TypeOK'
  <2>1. w.os \in OS
    BY WorkerFields
  <2> QED
    BY <1>3, <2>1 DEF Pull, TypeOK
<1>4. ASSUME NEW w \in Worker, Exit(w) PROVE TypeOK'
  BY <1>4 DEF Exit, TypeOK
<1>5. ASSUME NEW w \in Worker, Skip(w) PROVE TypeOK'
  <2>1. hold[w] \in Unit
    BY <1>5 DEF Skip, TypeOK, WorkerInv, NoUnit
  <2>2. Result(hold[w], NoBench, "cancelled") \in [unit : Unit, bench : Bench \cup {NoBench}, value : Value]
    BY <2>1 DEF Result, Value
  <2>3. results' \in Seq([unit : Unit, bench : Bench \cup {NoBench}, value : Value])
    BY <1>5, <2>2, AppendResult DEF Skip
  <2> QED
    BY <1>5, <2>3 DEF Skip, TypeOK
<1>6. ASSUME NEW w \in Worker, Begin(w) PROVE TypeOK'
  BY <1>6 DEF Begin, TypeOK
<1>7. ASSUME NEW w \in Worker, Finish(w) PROVE TypeOK'
  <2>1. hold[w] \in Unit /\ w.bench \in Bench
    BY <1>7, WorkerFields DEF Finish, TypeOK, WorkerInv, NoUnit
  <2>2. Result(hold[w], w.bench, "worked") \in [unit : Unit, bench : Bench \cup {NoBench}, value : Value]
    BY <2>1 DEF Result, Value
  <2>3. results' \in Seq([unit : Unit, bench : Bench \cup {NoBench}, value : Value])
    BY <1>7, <2>2, AppendResult DEF Finish
  <2> QED
    BY <1>7, <2>3 DEF Finish, TypeOK
<1>8. CASE Cancel
  BY <1>8 DEF Cancel, TypeOK
<1>9. CASE Return
  BY <1>9 DEF Return, TypeOK
<1>10. CASE UNCHANGED vars
  BY <1>10 DEF vars, TypeOK
<1> QED
  BY <1>1, <1>2, <1>3, <1>4, <1>5, <1>6, <1>7, <1>8, <1>9, <1>10 DEF Next

(* A group only ever holds units of its own OS. *)
LEMMA StepQueueInv ==
  ASSUME IInv, [Next]_vars
  PROVE  QueueInv'
<1> USE DEF IInv, QueueInv
<1>1. \A o \in OS : queue'[o] \subseteq queue[o]
  <2>1. ASSUME NEW o \in OS, Surface(o) PROVE <1>1
    BY <2>1 DEF Surface, TypeOK
  <2>2. ASSUME NEW w \in Worker, Pull(w) PROVE <1>1
    BY <2>2, WorkerFields DEF Pull, TypeOK
  <2>3. ASSUME queue' = queue PROVE <1>1
    BY <2>3
  <2> QED
    BY <2>1, <2>2, <2>3 DEF Next, vars, Launch, Exit, Skip, Begin, Finish, Cancel, Return
<1> QED
  BY <1>1

(* Taking the least unit of a group moves it and disturbs no other unit.   *)
LEMMA TakeUnit ==
  ASSUME TypeOK, QueueInv, NEW o \in OS, NEW u \in queue[o],
         queue' = [queue EXCEPT ![o] = @ \ {u}]
  PROVE  /\ u \in Unit /\ UnitOS[u] = o /\ Queued(u)
         /\ \A v \in Unit : Queued(v)' <=> Queued(v) /\ v # u
<1>1. u \in Unit /\ UnitOS[u] = o
  BY DEF TypeOK, QueueInv
<1>2. \A v \in Unit : UnitOS[v] \in OS
  BY BenchAssumption DEF Unit
<1>3. \A v \in Unit : Queued(v)' <=> Queued(v) /\ v # u
  BY <1>1, <1>2 DEF Queued, TypeOK
<1> QED
  BY <1>1, <1>3 DEF Queued

(* The workers' bookkeeping is preserved by every step. *)
LEMMA StepWorkerInv ==
  ASSUME IInv, [Next]_vars
  PROVE  WorkerInv'
<1> USE DEF IInv
<1>0. \A w \in Worker : w.os \in OS /\ w.bench \in Bench
  BY WorkerFields
<1>1. ASSUME NEW o \in OS, Surface(o) PROVE WorkerInv'
  BY <1>0, <1>1 DEF Surface, WorkerInv, TypeOK
<1>2. ASSUME NEW o \in OS, Launch(o) PROVE WorkerInv'
  <2>1. \A w \in Worker : w \in WorkersOf(o) => pc[w] = "off"
    BY <1>2 DEF Launch, WorkersOf, WorkerInv, TypeOK
  <2> QED
    BY <1>0, <1>2, <2>1 DEF Launch, WorkersOf, WorkerInv, TypeOK
<1>3. ASSUME NEW w \in Worker, Pull(w) PROVE WorkerInv'
  <2>1. PICK u \in queue[w.os] : /\ queue' = [queue EXCEPT ![w.os] = @ \ {u}]
                                 /\ hold' = [hold EXCEPT ![w] = u]
    BY <1>3 DEF Pull
  <2>2. u \in Unit /\ UnitOS[u] = w.os /\ u # NoUnit
    BY <1>0 DEF TypeOK, QueueInv, Unit, NoUnit
  <2> QED
    BY <1>0, <1>3, <2>1, <2>2 DEF Pull, WorkerInv, TypeOK
<1>4. ASSUME NEW w \in Worker, Exit(w) PROVE WorkerInv'
  BY <1>4 DEF Exit, WorkerInv, TypeOK
<1>5. ASSUME NEW w \in Worker, Skip(w) PROVE WorkerInv'
  BY <1>5 DEF Skip, WorkerInv, TypeOK
<1>6. ASSUME NEW w \in Worker, Begin(w) PROVE WorkerInv'
  BY <1>6 DEF Begin, WorkerInv, TypeOK
<1>7. ASSUME NEW w \in Worker, Finish(w) PROVE WorkerInv'
  BY <1>7 DEF Finish, WorkerInv, TypeOK
<1>8. CASE Cancel
  BY <1>8 DEF Cancel, WorkerInv
<1>9. CASE Return
  BY <1>9 DEF Return, WorkerInv
<1>10. CASE UNCHANGED vars
  BY <1>10 DEF vars, WorkerInv
<1> QED
  BY <1>1, <1>2, <1>3, <1>4, <1>5, <1>6, <1>7, <1>8, <1>9, <1>10 DEF Next

(* A worker that answers the unit it holds moves it from its hand to the   *)
(* results.                                                                *)
LEMMA AnswerHeld ==
  ASSUME IInv, NEW w \in Worker, hold[w] # NoUnit,
         NEW r \in [unit : Unit, bench : Bench \cup {NoBench}, value : Value],
         r.unit = hold[w],
         results' = Append(results, r),
         hold' = [hold EXCEPT ![w] = NoUnit],
         queue' = queue
  PROVE  Conservation'
<1> USE DEF IInv
<1>1. hold[w] \in Unit /\ Held(hold[w])
  BY DEF TypeOK, Held
<1>2. \A u \in Unit : Answered(u)' <=> (Answered(u) \/ u = hold[w])
  BY AppendResult
<1>3. \A u \in Unit : Held(u)' <=> (Held(u) /\ u # hold[w])
  BY <1>1 DEF Held, TypeOK, Conservation, NoUnit, Unit
<1>4. \A u \in Unit : Queued(u)' <=> Queued(u)
  BY DEF Queued
<1>5. \A v, x \in Worker : hold'[v] = hold'[x] /\ hold'[v] # NoUnit => v = x
  BY DEF TypeOK, Conservation
<1>6. ~Answered(hold[w])
  BY <1>1 DEF Conservation
<1>7. \A i, j \in DOMAIN results' : results'[i].unit = results'[j].unit => i = j
  <2>1. \A i \in DOMAIN results : results[i].unit # hold[w]
    BY <1>6 DEF Answered
  <2> QED
    BY <2>1, AppendResult DEF Conservation
<1> QED
  BY <1>1, <1>2, <1>3, <1>4, <1>5, <1>6, <1>7 DEF Conservation

(* No step loses a unit or puts it in two places. *)
LEMMA StepConservation ==
  ASSUME IInv, [Next]_vars
  PROVE  Conservation'
<1> USE DEF IInv
<1>1. ASSUME NEW o \in OS, Surface(o) PROVE Conservation'
  <2>1. PICK u \in queue[o] : /\ queue' = [queue EXCEPT ![o] = @ \ {u}]
                              /\ results' = Append(results, Result(u, NoBench, "noBench"))
    BY <1>1 DEF Surface
  <2>2. /\ u \in Unit /\ Queued(u)
        /\ \A v \in Unit : Queued(v)' <=> Queued(v) /\ v # u
    BY <2>1, TakeUnit
  <2>3. Result(u, NoBench, "noBench") \in [unit : Unit, bench : Bench \cup {NoBench}, value : Value]
        /\ Result(u, NoBench, "noBench").unit = u
    BY <2>2 DEF Result, Value
  <2>4. \A v \in Unit : Answered(v)' <=> (Answered(v) \/ v = u)
    BY <2>1, <2>3, AppendResult
  <2>5. \A v \in Unit : Held(v)' <=> Held(v)
    BY <1>1 DEF Surface, Held
  <2>6. \A i, j \in DOMAIN results' : results'[i].unit = results'[j].unit => i = j
    <3>1. \A i \in DOMAIN results : results[i].unit # u
      BY <2>2 DEF Conservation, Answered
    <3> QED
      BY <2>1, <2>3, <3>1, AppendResult DEF Conservation
  <2>7. \A v, x \in Worker : hold'[v] = hold'[x] /\ hold'[v] # NoUnit => v = x
    BY <1>1 DEF Surface, Conservation
  <2> QED
    BY <2>2, <2>4, <2>5, <2>6, <2>7 DEF Conservation
<1>2. ASSUME NEW w \in Worker, Pull(w) PROVE Conservation'
  <2>0. w.os \in OS
    BY WorkerFields
  <2>1. PICK u \in queue[w.os] : /\ queue' = [queue EXCEPT ![w.os] = @ \ {u}]
                                 /\ hold' = [hold EXCEPT ![w] = u]
    BY <1>2 DEF Pull
  <2>2. /\ u \in Unit /\ Queued(u)
        /\ \A v \in Unit : Queued(v)' <=> Queued(v) /\ v # u
    BY <2>0, <2>1, TakeUnit
  <2>3. hold[w] = NoUnit
    BY <1>2 DEF Pull, WorkerInv
  <2>4. \A v \in Unit : Held(v)' <=> (Held(v) \/ v = u)
    BY <2>1, <2>2, <2>3 DEF Held, TypeOK, NoUnit, Unit
  <2>5. \A v \in Unit : Answered(v)' <=> Answered(v)
    BY <1>2 DEF Pull, Answered
  <2>6. \A v, x \in Worker : hold'[v] = hold'[x] /\ hold'[v] # NoUnit => v = x
    <3>1. \A x \in Worker : hold[x] # u
      BY <2>2 DEF Conservation, Held
    <3> QED
      BY <2>1, <3>1 DEF TypeOK, Conservation
  <2>7. \A i, j \in DOMAIN results' : results'[i].unit = results'[j].unit => i = j
    BY <1>2 DEF Pull, Conservation
  <2> QED
    BY <2>2, <2>4, <2>5, <2>6, <2>7 DEF Conservation
<1>3. ASSUME NEW w \in Worker, Skip(w) PROVE Conservation'
  <2>1. hold[w] # NoUnit /\ hold[w] \in Unit
    BY <1>3 DEF Skip, TypeOK, WorkerInv, NoUnit
  <2>2. Result(hold[w], NoBench, "cancelled") \in [unit : Unit, bench : Bench \cup {NoBench}, value : Value]
        /\ Result(hold[w], NoBench, "cancelled").unit = hold[w]
    BY <2>1 DEF Result, Value
  <2> QED
    BY <1>3, <2>1, <2>2, AnswerHeld DEF Skip
<1>4. ASSUME NEW w \in Worker, Finish(w) PROVE Conservation'
  <2>1. hold[w] # NoUnit /\ hold[w] \in Unit /\ w.bench \in Bench
    BY <1>4, WorkerFields DEF Finish, TypeOK, WorkerInv, NoUnit
  <2>2. Result(hold[w], w.bench, "worked") \in [unit : Unit, bench : Bench \cup {NoBench}, value : Value]
        /\ Result(hold[w], w.bench, "worked").unit = hold[w]
    BY <2>1 DEF Result, Value
  <2> QED
    BY <1>4, <2>1, <2>2, AnswerHeld DEF Finish
<1>5. ASSUME UNCHANGED <<queue, hold, results>> PROVE Conservation'
  BY <1>5 DEF Conservation, Queued, Held, Answered
<1> QED
  BY <1>1, <1>2, <1>3, <1>4, <1>5 DEF Next, vars, Launch, Exit, Begin, Cancel, Return

(* The guard of Return makes the results complete: the group of every unit *)
(* is drained, because a pool always has a worker and it has exited.       *)
LEMMA AllAnswered ==
  ASSUME IInv,
         \A o \in UsedOS : IF BenchesByOS[o] = {} THEN queue[o] = {} ELSE o \in launched,
         \A w \in Worker : pc[w] \in {"off", "exited"}
  PROVE  /\ \A o \in UsedOS : queue[o] = {}
         /\ \A u \in Unit : Answered(u)
         /\ \A w \in Worker : hold[w] = NoUnit
<1> USE DEF IInv
<1>1. ASSUME NEW o \in UsedOS, BenchesByOS[o] # {} PROVE queue[o] = {}
  <2>1. o \in OS /\ o \in launched
    BY <1>1, BenchAssumption DEF UsedOS, Unit
  <2>2. PICK b \in Bench : b \in BenchesByOS[o]
    BY <1>1, <2>1, BenchAssumption
  <2>3. PICK w \in Worker : w.os = o /\ w.bench = b
    BY <2>1, BenchHasWorker
  <2>4. pc[w] = "exited"
    BY <2>1, <2>2, <2>3 DEF WorkerInv
  <2> QED
    BY <2>3, <2>4 DEF WorkerInv
<1>2. \A o \in UsedOS : queue[o] = {}
  BY <1>1
<1>3. \A w \in Worker : hold[w] = NoUnit
  BY DEF WorkerInv
<1>4. \A u \in Unit : ~Queued(u) /\ ~Held(u)
  BY <1>2, <1>3 DEF Queued, Held, UsedOS, NoUnit, Unit
<1> QED
  BY <1>2, <1>3, <1>4 DEF Conservation

(* After Run has returned nothing but the context can change. *)
LEMMA StepReturnedInv ==
  ASSUME IInv, [Next]_vars
  PROVE  ReturnedInv'
<1> USE DEF IInv
<1>1. CASE returned
  <2>0. /\ \A o \in UsedOS : queue[o] = {}
        /\ \A w \in Worker : pc[w] \in {"off", "exited"}
        /\ \A o \in UsedOS : IF BenchesByOS[o] = {} THEN queue[o] = {} ELSE o \in launched
    BY <1>1, AllAnswered DEF ReturnedInv
  <2>1. ASSUME NEW o \in OS, Surface(o) PROVE FALSE
    BY <2>0, <2>1 DEF Surface, MainAt
  <2>2. ASSUME NEW o \in OS, Launch(o) PROVE FALSE
    BY <2>0, <2>2 DEF Launch, MainAt
  <2>3. ASSUME NEW w \in Worker, WorkerStep(w) PROVE FALSE
    BY <2>0, <2>3 DEF WorkerStep, Pull, Exit, Skip, Begin, Finish
  <2>4. CASE Return
    BY <1>1, <2>4 DEF Return
  <2>5. CASE Cancel \/ UNCHANGED vars
    BY <2>0, <2>5 DEF Cancel, vars, ReturnedInv
  <2> QED
    BY <2>1, <2>2, <2>3, <2>4, <2>5 DEF Next, WorkerStep
<1>2. CASE ~returned
  <2>1. CASE Return
    BY <2>1 DEF Return, ReturnedInv
  <2>2. CASE ~Return
    <3>1. returned' = FALSE
      BY <1>2, <2>2 DEF Next, vars, Surface, Launch, Pull, Exit, Skip, Begin, Finish, Cancel, TypeOK
    <3> QED
      BY <3>1 DEF ReturnedInv
  <2> QED
    BY <2>1, <2>2
<1> QED
  BY <1>1, <1>2

(* The inductive invariant holds in every reachable state. *)
THEOREM Inductive == Spec => []IInv
<1>1. Init => IInv
  BY InitIInv
<1>2. IInv /\ [Next]_vars => IInv'
  BY StepTypeOK, StepWorkerInv, StepQueueInv, StepConservation, StepReturnedInv DEF IInv
<1> QED
  BY <1>1, <1>2, PTL DEF Spec

-----------------------------------------------------------------------------
(* "Run executes every Unit exactly once": at any moment a unit is in      *)
(* exactly one of the queue, one worker's hand and one result; and every   *)
(* variable keeps its type.                                                *)
THEOREM UnitsConserved == Spec => []Inv
<1>1. IInv => Inv
  BY DEF IInv, Inv
<1> QED
  BY <1>1, Inductive, PTL

(* "returns one Result per Unit": none is missing when Run returns, for    *)
(* every capacity the callback may answer, below one included.             *)
THEOREM ReturnsAll == Spec => []CompleteWhenReturned
<1>1. IInv => CompleteWhenReturned
  BY AllAnswered DEF IInv, ReturnedInv, CompleteWhenReturned
<1> QED
  BY <1>1, Inductive, PTL

(* "capacity returns the max concurrent Units a given Bench may run at     *)
(* once": the workers that run a unit on a bench are told apart by their   *)
(* slot, because a bench is a candidate for one OS only.                   *)
THEOREM CapacityBound == Spec => []CapacityRespected
<1>1. IInv => CapacityRespected
  <2> SUFFICES ASSUME IInv, NEW b \in Bench
               PROVE  Cardinality({w \in Worker : w.bench = b /\ pc[w] = "working"}) <= Slots(b)
    BY DEF CapacityRespected
  <2> DEFINE T == {w \in Worker : w.bench = b /\ pc[w] = "working"}
             f == [w \in T |-> w.slot]
  <2>1. Slots(b) \in Nat
    BY BenchAssumption DEF Slots
  <2>2. IsFiniteSet(1..Slots(b)) /\ Cardinality(1..Slots(b)) = Slots(b)
    BY <2>1, FS_Interval
  <2>3. \A w \in T : w.slot \in 1..Slots(b) /\ w.os \in OS /\ b \in BenchesByOS[w.os]
    BY WorkerFields DEF IInv, WorkerInv
  <2>4. \A v, w \in T : v.os = w.os
    BY <2>3, OneOSPerBench
  <2>5. \A v, w \in T : v.slot = w.slot => v = w
    BY <2>4, WorkerFields
  <2>6. f \in Injection(T, 1..Slots(b))
    BY <2>3, <2>5 DEF Injection, IsInjective
  <2>7. Cardinality(T) <= Cardinality(1..Slots(b))
    BY <2>2, <2>6, FS_Injection
  <2> QED
    BY <2>2, <2>7
<1> QED
  BY <1>1, Inductive, PTL

(* A unit is answered by a bench of its own OS, and as without a bench     *)
(* exactly when its OS has none.                                           *)
THEOREM RoutingCorrect == Spec => []AnswerMatchesRouting
<1>1. Init => AnswerMatchesRouting
  BY DEF Init, AnswerMatchesRouting
<1>2. IInv /\ AnswerMatchesRouting /\ [Next]_vars => AnswerMatchesRouting'
  <2> SUFFICES ASSUME IInv, AnswerMatchesRouting, [Next]_vars
               PROVE  AnswerMatchesRouting'
    OBVIOUS
  <2> USE DEF IInv
  <2>1. ASSUME NEW r \in [unit : Unit, bench : Bench \cup {NoBench}, value : Value],
               results' = Append(results, r), cancelled' = cancelled,
               r.value = "noBench" <=> BenchesByOS[UnitOS[r.unit]] = {},
               r.value = "worked" => r.bench \in BenchesByOS[UnitOS[r.unit]],
               r.value = "cancelled" => cancelled
        PROVE  AnswerMatchesRouting'
    BY <2>1, AppendResult DEF AnswerMatchesRouting
  <2>2. ASSUME NEW o \in OS, Surface(o) PROVE AnswerMatchesRouting'
    <3>1. PICK u \in queue[o] : results' = Append(results, Result(u, NoBench, "noBench"))
      BY <2>2 DEF Surface
    <3>2. u \in Unit /\ UnitOS[u] = o
      BY DEF TypeOK, QueueInv
    <3>3. Result(u, NoBench, "noBench") \in [unit : Unit, bench : Bench \cup {NoBench}, value : Value]
      BY <3>2 DEF Result, Value
    <3> QED
      BY <2>1, <2>2, <3>1, <3>2, <3>3 DEF Surface, Result
  <2>3. ASSUME NEW w \in Worker, hold[w] # NoUnit
        PROVE  /\ hold[w] \in Unit
               /\ w.bench \in Bench
               /\ w.bench \in BenchesByOS[UnitOS[hold[w]]]
    BY <2>3, WorkerFields DEF TypeOK, WorkerInv
  <2>4. ASSUME NEW w \in Worker, Skip(w) PROVE AnswerMatchesRouting'
    <3>1. hold[w] # NoUnit
      BY <2>4 DEF Skip, WorkerInv
    <3>2. Result(hold[w], NoBench, "cancelled") \in [unit : Unit, bench : Bench \cup {NoBench}, value : Value]
      BY <2>3, <3>1 DEF Result, Value
    <3> QED
      BY <2>1, <2>3, <2>4, <3>1, <3>2 DEF Skip, Result
  <2>5. ASSUME NEW w \in Worker, Finish(w) PROVE AnswerMatchesRouting'
    <3>1. hold[w] # NoUnit
      BY <2>5 DEF Finish, WorkerInv
    <3>2. Result(hold[w], w.bench, "worked") \in [unit : Unit, bench : Bench \cup {NoBench}, value : Value]
      BY <2>3, <3>1 DEF Result, Value
    <3> QED
      BY <2>1, <2>3, <2>5, <3>1, <3>2 DEF Finish, Result
  <2>6. ASSUME UNCHANGED results, cancelled => cancelled' PROVE AnswerMatchesRouting'
    BY <2>6 DEF AnswerMatchesRouting
  <2> QED
    BY <2>2, <2>4, <2>5, <2>6
       DEF Next, vars, Launch, Pull, Exit, Begin, Cancel, Return
<1> QED
  BY <1>1, <1>2, Inductive, PTL DEF Spec

(* The results only grow, and no goroutine writes to them after Run has    *)
(* returned.                                                               *)
THEOREM ResultsOnlyGrow == Spec => ResultsStable
<1> DEFINE A == /\ Len(results') >= Len(results)
                /\ \A i \in DOMAIN results : results'[i] = results[i]
                /\ returned => UNCHANGED <<results, pc, hold>>
<1>1. IInv /\ [Next]_vars => [A]_vars
  <2> SUFFICES ASSUME IInv, [Next]_vars PROVE A
    OBVIOUS
  <2> USE DEF IInv
  <2>1. results \in Seq([unit : Unit, bench : Bench \cup {NoBench}, value : Value])
    BY DEF TypeOK
  <2>2. returned => UNCHANGED <<results, pc, hold>>
    <3> SUFFICES ASSUME returned PROVE UNCHANGED <<results, pc, hold>>
      OBVIOUS
    <3>0. /\ \A o \in UsedOS : queue[o] = {}
          /\ \A w \in Worker : pc[w] \in {"off", "exited"}
          /\ \A o \in UsedOS : IF BenchesByOS[o] = {} THEN queue[o] = {} ELSE o \in launched
      BY AllAnswered DEF ReturnedInv
    <3>1. ASSUME NEW o \in OS, Surface(o) PROVE FALSE
      BY <3>0, <3>1 DEF Surface, MainAt
    <3>2. ASSUME NEW o \in OS, Launch(o) PROVE FALSE
      BY <3>0, <3>2 DEF Launch, MainAt
    <3>3. ASSUME NEW w \in Worker, WorkerStep(w) PROVE FALSE
      BY <3>0, <3>3 DEF WorkerStep, Pull, Exit, Skip, Begin, Finish
    <3> QED
      BY <3>1, <3>2, <3>3 DEF Next, WorkerStep, Cancel, Return, vars
  <2>3. \/ UNCHANGED results
        \/ \E r : results' = Append(results, r)
    BY DEF Next, Surface, Launch, Pull, Exit, Skip, Begin, Finish, Cancel, Return, vars
  <2>4. Len(results') >= Len(results) /\ \A i \in DOMAIN results : results'[i] = results[i]
    BY <2>1, <2>3
  <2> QED
    BY <2>2, <2>4
<1> QED
  BY <1>1, Inductive, PTL DEF Spec, ResultsStable

-----------------------------------------------------------------------------
(* A unit's answer is the value of any result that answers it: there is    *)
(* only one.                                                               *)
LEMMA AnswerUnique ==
  ASSUME Conservation, NEW i \in DOMAIN results
  PROVE  Answered(results[i].unit) /\ AnswerOf(results[i].unit) = results[i].value
<1> DEFINE u == results[i].unit
           j == CHOOSE k \in DOMAIN results : results[k].unit = u
<1>1. j \in DOMAIN results /\ results[j].unit = u
  OBVIOUS
<1>2. j = i
  BY <1>1 DEF Conservation
<1> QED
  BY <1>2 DEF Answered, AnswerOf

(* Appending the result of an unanswered unit is the abstract answer.      *)
LEMMA AppendAnswers ==
  ASSUME IInv, Conservation', ~returned, returned' = returned,
         NEW r \in [unit : Unit, bench : Bench \cup {NoBench}, value : Value],
         ~Answered(r.unit),
         r.value = "worked" <=> AtWork(r.unit),
         \A v \in Unit : v # r.unit => (AtWork(v)' <=> AtWork(v)),
         results' = Append(results, r)
  PROVE  Promise!Answer(r.unit)
<1> USE DEF IInv
<1> DEFINE ans == [u \in Unit |-> AnswerOf(u)]
<1>1. AnswerOf(r.unit) = IF r.value = "worked" THEN "begun" ELSE "pending"
  BY DEF AnswerOf
<1>2. \A i \in DOMAIN results' : AnswerOf(results[i].unit)' = results'[i].value
  <2> DEFINE j(u) == CHOOSE k \in DOMAIN results' : results'[k].unit = u
  <2> SUFFICES ASSUME NEW i \in DOMAIN results'
               PROVE  AnswerOf(results[i].unit)' = results'[i].value
    OBVIOUS
  <2>1. j(results'[i].unit) \in DOMAIN results' /\ results'[j(results'[i].unit)].unit = results'[i].unit
    OBVIOUS
  <2>2. j(results'[i].unit) = i
    BY <2>1 DEF Conservation
  <2> QED
    BY <2>2 DEF AnswerOf, Answered
<1>3. AnswerOf(r.unit)' = r.value
  <2>1. Len(results) + 1 \in DOMAIN results' /\ results'[Len(results) + 1] = r
    BY AppendResult
  <2> QED
    BY <1>2, <2>1
<1>4. ASSUME NEW v \in Unit, v # r.unit PROVE AnswerOf(v)' = AnswerOf(v)
  <2>1. CASE Answered(v)
    <3>1. PICK i \in DOMAIN results : results[i].unit = v
      BY <2>1 DEF Answered
    <3>2. AnswerOf(v) = results[i].value
      BY <3>1, AnswerUnique
    <3>3. i \in DOMAIN results' /\ results'[i] = results[i]
      BY AppendResult
    <3>4. AnswerOf(v)' = results'[i].value
      BY <1>2, <3>1, <3>3
    <3> QED
      BY <3>2, <3>3, <3>4
  <2>2. CASE ~Answered(v)
    <3>1. ~Answered(v)'
      BY <1>4, <2>2, AppendResult
    <3>2. AtWork(v)' <=> AtWork(v)
      BY <1>4
    <3> HIDE DEF IInv
    <3>3. AnswerOf(v) = IF AtWork(v) THEN "begun" ELSE "pending"
      BY <2>2 DEF AnswerOf
    <3>4. AnswerOf(v)' = IF AtWork(v)' THEN "begun" ELSE "pending"
      BY <3>1 DEF AnswerOf
    <3> QED
      BY <3>2, <3>3, <3>4
  <2> QED
    BY <2>1, <2>2
<1>5. ans' = [ans EXCEPT ![r.unit] = r.value]
  BY <1>3, <1>4
<1>6. ans[r.unit] = IF r.value = "worked" THEN "begun" ELSE "pending"
  BY <1>1
<1>7. r.value \in Value
  OBVIOUS
<1> QED
  BY <1>5, <1>6, <1>7 DEF Promise!Answer

(* schedule.Run implements its promise: from the caller's side every step  *)
(* answers one unit for good, ends the call with all units answered, or    *)
(* is invisible.                                                           *)
THEOREM ImplementsPromise == Spec => PromiseSpec
<1> DEFINE ans == [u \in Unit |-> AnswerOf(u)]
<1>1. Init => Promise!Init
  <2> SUFFICES ASSUME Init PROVE Promise!Init
    OBVIOUS
  <2>1. \A u \in Unit : ~Answered(u) /\ ~AtWork(u)
    BY DEF Init, Answered, AtWork
  <2>2. ans = [u \in Unit |-> "pending"]
    BY <2>1 DEF AnswerOf
  <2> QED
    BY <2>2 DEF Init, Promise!Init
<1>2. IInv /\ IInv' /\ [Next]_vars => [Promise!Next]_(Promise!vars)
  <2> SUFFICES ASSUME IInv, IInv', [Next]_vars
               PROVE  [Promise!Next]_(Promise!vars)
    OBVIOUS
  <2> USE DEF IInv
  <2>1. ASSUME NEW o \in OS, Surface(o) PROVE Promise!Next
    <3>1. PICK u \in queue[o] : results' = Append(results, Result(u, NoBench, "noBench"))
      BY <2>1 DEF Surface
    <3>2. u \in Unit /\ Queued(u) /\ ~Answered(u) /\ ~Held(u)
      BY DEF TypeOK, QueueInv, Queued, Conservation
    <3>3. Result(u, NoBench, "noBench") \in [unit : Unit, bench : Bench \cup {NoBench}, value : Value]
          /\ Result(u, NoBench, "noBench").unit = u /\ Result(u, NoBench, "noBench").value = "noBench"
      BY <3>2 DEF Result, Value
    <3>4. ~returned
      BY <2>1, AllAnswered DEF Surface, MainAt, ReturnedInv
    <3>5. ~AtWork(u)
      BY <3>2 DEF AtWork, Held
    <3>6. \A v \in Unit : AtWork(v)' <=> AtWork(v)
      BY <2>1 DEF Surface, AtWork
    <3> QED
      BY <2>1, <3>1, <3>2, <3>3, <3>4, <3>5, <3>6, AppendAnswers DEF Surface, Promise!Next
  <2>2. ASSUME NEW w \in Worker, pc[w] \in {"received", "working"}
        PROVE  /\ hold[w] \in Unit /\ ~Answered(hold[w])
               /\ w.bench \in Bench
               /\ ~returned
               /\ AtWork(hold[w]) <=> pc[w] = "working"
    <3>1. hold[w] \in Unit /\ ~Answered(hold[w]) /\ w.bench \in Bench /\ ~returned
      BY <2>2, WorkerFields DEF TypeOK, WorkerInv, Conservation, Held, ReturnedInv, NoUnit
    <3>2. \A v \in Worker : hold[v] = hold[w] => v = w
      BY <2>2 DEF WorkerInv, Conservation
    <3> QED
      BY <2>2, <3>1, <3>2 DEF AtWork
  <2>3. ASSUME NEW w \in Worker, Skip(w) PROVE Promise!Next
    <3>1. pc[w] = "received"
      BY <2>3 DEF Skip
    <3>2. Result(hold[w], NoBench, "cancelled") \in [unit : Unit, bench : Bench \cup {NoBench}, value : Value]
          /\ Result(hold[w], NoBench, "cancelled").unit = hold[w]
          /\ Result(hold[w], NoBench, "cancelled").value = "cancelled"
      BY <2>2, <3>1 DEF Result, Value
    <3>3. \A v \in Unit : v # hold[w] => (AtWork(v)' <=> AtWork(v))
      BY <2>3 DEF Skip, AtWork, TypeOK
    <3> QED
      BY <2>2, <2>3, <3>1, <3>2, <3>3, AppendAnswers DEF Skip, Promise!Next
  <2>4. ASSUME NEW w \in Worker, Finish(w) PROVE Promise!Next
    <3>1. pc[w] = "working"
      BY <2>4 DEF Finish
    <3>2. Result(hold[w], w.bench, "worked") \in [unit : Unit, bench : Bench \cup {NoBench}, value : Value]
          /\ Result(hold[w], w.bench, "worked").unit = hold[w]
          /\ Result(hold[w], w.bench, "worked").value = "worked"
      BY <2>2, <3>1 DEF Result, Value
    <3>3. \A v \in Unit : v # hold[w] => (AtWork(v)' <=> AtWork(v))
      BY <2>4 DEF Finish, AtWork, TypeOK
    <3> QED
      BY <2>2, <2>4, <3>1, <3>2, <3>3, AppendAnswers DEF Finish, Promise!Next
  <2>5. ASSUME NEW w \in Worker, Begin(w) PROVE Promise!Next
    <3>1. pc[w] = "received" /\ pc' = [pc EXCEPT ![w] = "working"] /\ UNCHANGED <<hold, results, returned>>
      BY <2>5 DEF Begin
    <3>2. AnswerOf(hold[w]) = "pending" /\ ~returned /\ hold[w] \in Unit
      BY <2>2, <3>1 DEF AnswerOf
    <3>3. AnswerOf(hold[w])' = "begun"
      <4>1. AtWork(hold[w])'
        BY <3>1 DEF AtWork, TypeOK
      <4>2. ~Answered(hold[w])'
        BY <2>2, <3>1 DEF Answered
      <4> QED
        BY <3>1, <4>1, <4>2 DEF AnswerOf
    <3>4. ASSUME NEW v \in Unit, v # hold[w] PROVE AnswerOf(v)' = AnswerOf(v)
      <4>1. AtWork(v)' <=> AtWork(v)
        BY <3>1, <3>4 DEF AtWork, TypeOK
      <4> QED
        BY <3>1, <4>1 DEF AnswerOf, Answered
    <3>5. ans' = [ans EXCEPT ![hold[w]] = "begun"]
      BY <3>1, <3>2, <3>3, <3>4
    <3>6. Promise!Begin(hold[w])
      BY <3>1, <3>2, <3>5 DEF Promise!Begin
    <3> QED
      BY <3>2, <3>6 DEF Promise!Next
  <2>6. CASE Return
    <3>1. \A u \in Unit : Answered(u)
      BY <2>6, AllAnswered DEF Return
    <3>2. ASSUME NEW u \in Unit PROVE AnswerOf(u) \in Value
      <4>1. PICK i \in DOMAIN results : results[i].unit = u
        BY <3>1 DEF Answered
      <4>2. AnswerOf(u) = results[i].value
        BY <4>1, AnswerUnique
      <4> DEFINE R == [unit : Unit, bench : Bench \cup {NoBench}, value : Value]
      <4>3. results \in Seq(R)
        BY DEF TypeOK
      <4>4. results[i] \in R
        <5> HIDE DEF R
        <5> QED BY <4>3
      <4> QED
        BY <4>2, <4>4
    <3>3. ans' = ans
      BY <2>6 DEF Return, AnswerOf, Answered, AtWork
    <3> QED
      BY <2>6, <3>2, <3>3 DEF Return, Promise!Next, Promise!Finish
  <2>7. ASSUME UNCHANGED <<results, returned>>, \A u \in Unit : AtWork(u)' <=> AtWork(u)
        PROVE  UNCHANGED Promise!vars
    BY <2>7 DEF Promise!vars, AnswerOf, Answered
  <2>8. ASSUME NEW o \in OS, Launch(o) PROVE UNCHANGED Promise!vars
    <3>1. ASSUME NEW u \in Unit PROVE AtWork(u)' <=> AtWork(u)
      BY <2>8 DEF Launch, MainAt, AtWork, TypeOK, WorkerInv
    <3> QED
      BY <2>7, <2>8, <3>1 DEF Launch
  <2>9. ASSUME NEW w \in Worker, Pull(w) \/ Exit(w) PROVE UNCHANGED Promise!vars
    <3>1. ASSUME NEW u \in Unit PROVE AtWork(u)' <=> AtWork(u)
      BY <2>9 DEF Pull, Exit, AtWork, TypeOK
    <3> QED
      BY <2>7, <2>9, <3>1 DEF Pull, Exit
  <2>10. ASSUME UNCHANGED <<results, returned, pc, hold>> PROVE UNCHANGED Promise!vars
    BY <2>7, <2>10 DEF AtWork
  <2> QED
    BY <2>1, <2>3, <2>4, <2>5, <2>6, <2>8, <2>9, <2>10 DEF Next, vars, Cancel
<1> QED
  BY <1>1, <1>2, Inductive, PTL DEF Spec, PromiseSpec, Promise!Spec
=============================================================================
