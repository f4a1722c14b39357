------------------------------ MODULE Schedule ------------------------------
(***************************************************************************)
(* schedule.Run: a set of OS-routed units pulled by worker goroutines, a   *)
(* fixed number of them per bench.  Units are numbered in plan order.      *)
(* A channel is filled before it is closed and before a worker of its OS   *)
(* exists, so its content is the set of the units not yet received, and    *)
(* the next one received is the least of them.                             *)
(***************************************************************************)
EXTENDS Integers, Sequences, FiniteSets

CONSTANTS
  N,           \* number of units
  OS,          \* operating systems a unit or a bench can have
  Bench,       \* benches
  UnitOS,      \* [1..N -> OS]: the OS a unit is routed to
  BenchesByOS, \* [OS -> SUBSET Bench]: the caller's candidate benches
  Capacity     \* [Bench -> Int]: what the capacity callback answers

ASSUME NAssumption == N \in Nat
ASSUME BenchAssumption ==
  /\ IsFiniteSet(Bench)
  /\ UnitOS \in [1..N -> OS]
  /\ BenchesByOS \in [OS -> SUBSET Bench]
  /\ Capacity \in [Bench -> Int]
(* A bench has one OS (bench.Bench.OS), so the caller's lists are disjoint. *)
ASSUME OneOSPerBench ==
  \A o, p \in OS : BenchesByOS[o] \cap BenchesByOS[p] # {} => o = p

Unit == 1..N
NoUnit == 0

UnitsOf(o) == {u \in Unit : UnitOS[u] = o}
UsedOS == {UnitOS[u] : u \in Unit}

(* The number of workers a bench contributes: the callback's answer, at    *)
(* least one.                                                              *)
Slots(b) == IF Capacity[b] < 1 THEN 1 ELSE Capacity[b]

(* Variant with an error: the loop over the slots runs once too often. *)
WorkersAtOneMore(o, b) == {[os |-> o, bench |-> b, slot |-> i] : i \in 1..(Slots(b) + 1)}

(* One goroutine per OS, bench of that OS, and slot of the bench. *)
WorkersAt(o, b) == {[os |-> o, bench |-> b, slot |-> i] : i \in 1..Slots(b)}
Worker == UNION {UNION {WorkersAt(o, b) : b \in Bench} : o \in OS}
WorkersOf(o) == {w \in Worker : w.os = o /\ w.bench \in BenchesByOS[o]}

Value == {"noBench", "cancelled", "worked"}
NoBench == [none |-> TRUE]

VARIABLES
  queue,     \* [OS -> SUBSET Unit]: a group's units nobody has taken yet
  launched,  \* OSes whose channel is closed and whose workers are spawned
  pc,        \* [Worker -> ...]: where the goroutine is
  hold,      \* [Worker -> Unit \cup {NoUnit}]: the unit it received last
  results,   \* the slice of results, in append order
  cancelled, \* the context is done
  returned   \* Run has returned results

vars == <<queue, launched, pc, hold, results, cancelled, returned>>

-----------------------------------------------------------------------------
Init ==
  /\ queue = [o \in OS |-> UnitsOf(o)]
  /\ launched = {}
  /\ pc = [w \in Worker |-> "off"]
  /\ hold = [w \in Worker |-> NoUnit]
  /\ results = <<>>
  /\ cancelled = FALSE
  /\ returned = FALSE

IsNext(u, o) == u \in queue[o] /\ \A v \in queue[o] : u <= v

Result(u, b, v) == [unit |-> u, bench |-> b, value |-> v]

(* The main goroutine ranges over the groups one after the other (in map   *)
(* order): it is not inside the loop over another group without a bench.   *)
MainAt(o) ==
  /\ o \in UsedOS
  /\ \A p \in UsedOS \ {o} : BenchesByOS[p] = {} => queue[p] \in {{}, UnitsOf(p)}

(* Variant with an error: after a cancellation the wrong answer is given. *)
SurfaceChecksContext(o) ==
  /\ MainAt(o)
  /\ BenchesByOS[o] = {}
  /\ \E u \in queue[o] :
       /\ IsNext(u, o)
       /\ queue' = [queue EXCEPT ![o] = @ \ {u}]
       /\ results' = Append(results, Result(u, NoBench, IF cancelled THEN "cancelled" ELSE "noBench"))
  /\ UNCHANGED <<launched, pc, hold, cancelled, returned>>

(* One turn of the loop over a group that has no bench. *)
Surface(o) ==
  /\ MainAt(o)
  /\ BenchesByOS[o] = {}
  /\ \E u \in queue[o] :
       /\ IsNext(u, o)
       /\ queue' = [queue EXCEPT ![o] = @ \ {u}]
       /\ results' = Append(results, Result(u, NoBench, "noBench"))
  /\ UNCHANGED <<launched, pc, hold, cancelled, returned>>

(* A group with benches: fill and close the channel, spawn every worker. *)
Launch(o) ==
  /\ MainAt(o)
  /\ BenchesByOS[o] # {}
  /\ o \notin launched
  /\ launched' = launched \cup {o}
  /\ pc' = [w \in Worker |-> IF w \in WorkersOf(o) THEN "idle" ELSE pc[w]]
  /\ UNCHANGED <<queue, hold, results, cancelled, returned>>

(* Variant with an error: a shared index read without a lock. *)
PullUnlocked(w) ==
  /\ pc[w] = "idle"
  /\ \E u \in queue[w.os] : IsNext(u, w.os) /\ hold' = [hold EXCEPT ![w] = u]
  /\ pc' = [pc EXCEPT ![w] = "received"]
  /\ UNCHANGED <<queue, launched, results, cancelled, returned>>

(* range osChan: receive the next unit. *)
Pull(w) ==
  /\ pc[w] = "idle"
  /\ \E u \in queue[w.os] :
       /\ IsNext(u, w.os)
       /\ queue' = [queue EXCEPT ![w.os] = @ \ {u}]
       /\ hold' = [hold EXCEPT ![w] = u]
  /\ pc' = [pc EXCEPT ![w] = "received"]
  /\ UNCHANGED <<launched, results, cancelled, returned>>

(* Variant with an error: the channel is never closed. *)
ExitOnlyOnCancel(w) ==
  /\ pc[w] = "idle"
  /\ queue[w.os] = {} /\ cancelled
  /\ pc' = [pc EXCEPT ![w] = "exited"]
  /\ UNCHANGED <<queue, launched, hold, results, cancelled, returned>>

(* range osChan: closed and empty. *)
Exit(w) ==
  /\ pc[w] = "idle"
  /\ queue[w.os] = {}
  /\ pc' = [pc EXCEPT ![w] = "exited"]
  /\ UNCHANGED <<queue, launched, hold, results, cancelled, returned>>

(* ctx.Err() # nil: the unit is answered with the error. *)
Skip(w) ==
  /\ pc[w] = "received"
  /\ cancelled
  /\ results' = Append(results, Result(hold[w], NoBench, "cancelled"))
  /\ pc' = [pc EXCEPT ![w] = "idle"]
  /\ hold' = [hold EXCEPT ![w] = NoUnit]
  /\ UNCHANGED <<queue, launched, cancelled, returned>>

(* ctx.Err() = nil: work is called, whatever happens to the context later. *)
Begin(w) ==
  /\ pc[w] = "received"
  /\ ~cancelled
  /\ pc' = [pc EXCEPT ![w] = "working"]
  /\ UNCHANGED <<queue, launched, hold, results, cancelled, returned>>

(* Variant with an error: the context is looked at again after work. *)
FinishChecksContext(w) ==
  /\ pc[w] = "working"
  /\ results' = Append(results, IF cancelled THEN Result(hold[w], NoBench, "cancelled")
                                             ELSE Result(hold[w], w.bench, "worked"))
  /\ pc' = [pc EXCEPT ![w] = "idle"]
  /\ hold' = [hold EXCEPT ![w] = NoUnit]
  /\ UNCHANGED <<queue, launched, cancelled, returned>>

(* work has returned: append its value. *)
Finish(w) ==
  /\ pc[w] = "working"
  /\ results' = Append(results, Result(hold[w], w.bench, "worked"))
  /\ pc' = [pc EXCEPT ![w] = "idle"]
  /\ hold' = [hold EXCEPT ![w] = NoUnit]
  /\ UNCHANGED <<queue, launched, cancelled, returned>>

(* The caller's context is cancelled. *)
Cancel ==
  /\ ~cancelled
  /\ cancelled' = TRUE
  /\ UNCHANGED <<queue, launched, pc, hold, results, returned>>

(* The groups are all handled and wg.Wait() returns. *)
Return ==
  /\ ~returned
  /\ \A o \in UsedOS : IF BenchesByOS[o] = {} THEN queue[o] = {} ELSE o \in launched
  /\ \A w \in Worker : pc[w] \in {"off", "exited"}
  /\ returned' = TRUE
  /\ UNCHANGED <<queue, launched, pc, hold, results, cancelled>>

WorkerStep(w) == Pull(w) \/ Exit(w) \/ Skip(w) \/ Begin(w) \/ Finish(w)

Next ==
  \/ \E o \in OS : Surface(o)
  \/ \E o \in OS : Launch(o)
  \/ \E w \in Worker : Pull(w)
  \/ \E w \in Worker : Exit(w)
  \/ \E w \in Worker : Skip(w)
  \/ \E w \in Worker : Begin(w)
  \/ \E w \in Worker : Finish(w)
  \/ Cancel
  \/ Return

(* The goroutines are scheduled, and every call of work returns: each leg  *)
(* it runs is a subprocess with an end.  The context may stay alive.       *)
Fairness ==
  /\ WF_vars(\E o \in OS : Surface(o) \/ Launch(o))
  /\ \A w \in Worker : WF_vars(WorkerStep(w))
  /\ WF_vars(Return)

Spec == Init /\ [][Next]_vars /\ Fairness

-----------------------------------------------------------------------------
(* Every variable has its type; results hold known units and benches. *)
TypeOK ==
  /\ queue \in [OS -> SUBSET Unit]
  /\ launched \subseteq OS
  /\ pc \in [Worker -> {"off", "idle", "received", "working", "exited"}]
  /\ hold \in [Worker -> Unit \cup {NoUnit}]
  /\ results \in Seq([unit : Unit, bench : Bench \cup {NoBench}, value : Value])
  /\ cancelled \in BOOLEAN
  /\ returned \in BOOLEAN

Answered(u) == \E i \in DOMAIN results : results[i].unit = u
Queued(u) == u \in queue[UnitOS[u]]
Held(u) == \E w \in Worker : hold[w] = u

(* A unit is never lost and never in two places: it waits in the group of  *)
(* its OS, or exactly one worker holds it, or exactly one result answers   *)
(* it.  (schedule.Run: "executes every Unit exactly once".)                *)
Conservation ==
  /\ \A u \in Unit :
       /\ Queued(u) \/ Held(u) \/ Answered(u)
       /\ ~(Queued(u) /\ Held(u)) /\ ~(Queued(u) /\ Answered(u)) /\ ~(Held(u) /\ Answered(u))
  /\ \A v, w \in Worker : hold[v] = hold[w] /\ hold[v] # NoUnit => v = w
  /\ \A i, j \in DOMAIN results : results[i].unit = results[j].unit => i = j

(* The scheduler's invariant. *)
Inv == TypeOK /\ Conservation

(* When Run returns it returns one result per unit: none is dropped, not   *)
(* the unit without a bench, not the one received after a cancellation,    *)
(* not the one whose only bench declares a capacity below one.             *)
CompleteWhenReturned ==
  returned => /\ \A u \in Unit : Answered(u)
              /\ \A w \in Worker : hold[w] = NoUnit

(* A bench never runs more units at once than its capacity, counted as one *)
(* when it is below one, however many groups and workers compete.          *)
CapacityRespected ==
  \A b \in Bench :
    Cardinality({w \in Worker : w.bench = b /\ pc[w] = "working"}) <= Slots(b)

(* The answer tells what happened: a unit is answered with no bench        *)
(* exactly when its OS has none, and a unit that ran was run by a bench of *)
(* its own OS; a unit is answered as cancelled only if the context was.    *)
AnswerMatchesRouting ==
  \A i \in DOMAIN results : LET r == results[i] o == UnitOS[r.unit] IN
    /\ r.value = "noBench" <=> BenchesByOS[o] = {}
    /\ r.value = "worked" => r.bench \in BenchesByOS[o]
    /\ r.value = "cancelled" => cancelled

(* The results only grow, and after Run has returned nothing writes to     *)
(* them: no worker goroutine outlives the call.                            *)
ResultsStable ==
  [][/\ Len(results') >= Len(results)
     /\ \A i \in DOMAIN results : results'[i] = results[i]
     /\ returned => UNCHANGED <<results, pc, hold>>]_vars

(* Run returns, cancelled or not. *)
Terminates == <>returned

-----------------------------------------------------------------------------
(* schedule.Run implements what its doc promises: seen from the caller,    *)
(* each unit is answered once, one whose work had begun when the context   *)
(* was cancelled with what work returned, an answer never changes, and Run *)
(* returns after the last one.  (That it returns at all is Terminates.)    *)
AtWork(u) == \E w \in Worker : pc[w] = "working" /\ hold[w] = u
AnswerOf(u) ==
  IF Answered(u)
    THEN results[CHOOSE i \in DOMAIN results : results[i].unit = u].value
    ELSE IF AtWork(u) THEN "begun" ELSE "pending"
Promise == INSTANCE ScheduleAbs WITH
  answer <- [u \in Unit |-> AnswerOf(u)],
  done <- returned
PromiseSpec == Promise!Spec
=============================================================================
