----------------------------- MODULE EventQueue -----------------------------
(***************************************************************************)
(* pipeline's bounded event queue (queue.go) and its pump (pipeline.go):   *)
(* the goroutines of a run emit events without ever blocking, one pump     *)
(* moves them to the consumer's channel.  At the high-water mark the       *)
(* oldest child output is evicted and a marker tells how much was lost.    *)
(* Every operation below runs under the queue's mutex.                     *)
(***************************************************************************)
EXTENDS Integers, FiniteSets, SequencesExt, Tally

CONSTANTS
  Producer, \* goroutines that emit: the legs, the output scanners, the tail
  Cap,      \* the high-water mark
  ChanCap,  \* capacity of the consumer's channel
  MaxEmit   \* bound on the emissions of one producer

ASSUME SizesAssumption == Cap \in Nat \ {0} /\ ChanCap \in Nat \ {0} /\ MaxEmit \in Nat

(* EventChildOutput is droppable; leg, test and failure events are not. *)
Event == [kind : {"output", "lossless"}, by : Producer, seq : 1..MaxEmit]
Output == {e \in Event : e.kind = "output"}
Marker(n) == [kind |-> "dropped", n |-> n]
Notice == [kind : {"dropped"}, n : Nat \ {0}]
Item == Event \cup Notice
IsOutput(e) == e.kind = "output"
IsMarker(e) == e.kind = "dropped"

VARIABLES
  items,      \* the queue: events and at most one marker
  closed,     \* closeEvents was called
  dropped,    \* outputs evicted since the last marker was taken
  hasMarker,  \* a marker of this episode is in items
  pump,       \* "off", "popping", "sending", "done"
  inflight,   \* the event the pump has popped and not yet sent, in a sequence
  chan,       \* the consumer's buffered channel
  chanClosed, \* the pump closed it
  ended,      \* the consumer's range over the channel has ended
  emitted,    \* [Producer -> Nat]: emissions so far, those after close included
  accepted,   \* outputs pushed onto the open queue
  seen,       \* outputs the consumer has received
  told        \* lost outputs the consumer's markers add up to

queueVars == <<items, closed, dropped, hasMarker>>
pumpVars == <<pump, inflight>>
chanVars == <<chan, chanClosed, ended>>
history == <<emitted, accepted, seen, told>>
streamVars == <<queueVars, pumpVars, chanVars, history>>

-----------------------------------------------------------------------------
QueueInit ==
  /\ items = <<>>
  /\ closed = FALSE
  /\ dropped = 0
  /\ hasMarker = FALSE
  /\ pump = "off"
  /\ inflight = <<>>
  /\ chan = <<>>
  /\ chanClosed = FALSE
  /\ ended = FALSE
  /\ emitted = [p \in Producer |-> 0]
  /\ accepted = 0
  /\ seen = 0
  /\ told = 0

(* Where s holds items of a kind. *)
Places(s, kind) == {i \in DOMAIN s : s[i].kind = kind}
Outputs(s) == Places(s, "output")
Markers(s) == Places(s, "dropped")

(* How many outputs an output pushed onto s evicts: enough to get below    *)
(* the mark, or all there are.                                             *)
EvictCount(s) ==
  LET need == Len(s) - Cap + 1
      have == Cardinality(Outputs(s))
  IN  IF need <= 0 THEN 0 ELSE IF need <= have THEN need ELSE have

(* Variant with an error: the front is evicted whatever it is. *)
EvictFront(s) == Tail(s)

(* One turn of the eviction loop: the output nearest the front goes. *)
EvictOldest(s) == RemoveAt(s, Min(Outputs(s)))

Evict(s, k) ==
  LET left[i \in 0..k] == IF i = 0 THEN s ELSE EvictOldest(left[i - 1])
  IN  left[k]

IsNewestMarker(s, i) ==
  IsMarker(s[i]) /\ \A j \in DOMAIN s : IsMarker(s[j]) => j <= i

(* The queue after evicting k outputs, with its marker added or updated.   *)
Marked(s, k) ==
  LET rest == Evict(s, k)
      lost == dropped + k
  IN  IF lost = 0 THEN rest
      ELSE IF hasMarker
        THEN [i \in DOMAIN rest |-> IF IsNewestMarker(rest, i) THEN Marker(lost) ELSE rest[i]]
        ELSE Append(rest, Marker(lost))

Overflow(e) == IsOutput(e) /\ Len(items) >= Cap

(* push: a no-op on a closed queue; a lossless event is always appended. *)
Push(e) ==
  IF closed THEN UNCHANGED <<items, dropped, hasMarker, accepted>>
  ELSE /\ LET k == EvictCount(items) IN
            IF Overflow(e)
              THEN /\ items' = Append(Marked(items, k), e)
                   /\ dropped' = dropped + k
                   /\ hasMarker' = (hasMarker \/ dropped + k > 0)
              ELSE /\ items' = Append(items, e)
                   /\ UNCHANGED <<dropped, hasMarker>>
       /\ accepted' = accepted + IF IsOutput(e) THEN 1 ELSE 0

StartPump == IF pump = "off" THEN "popping" ELSE pump

(* emit: start the pump on first use, then push. *)
EmitEvent(p) ==
  /\ emitted[p] < MaxEmit
  /\ emitted' = [emitted EXCEPT ![p] = @ + 1]
  /\ \E k \in {"output", "lossless"} : Push([kind |-> k, by |-> p, seq |-> emitted[p] + 1])
  /\ pump' = StartPump
  /\ UNCHANGED <<closed, inflight, chanVars, seen, told>>

(* closeEvents, on every exit of RunAll: a panic too, so at any moment. *)
CloseEvents ==
  /\ ~closed
  /\ closed' = TRUE
  /\ pump' = StartPump
  /\ UNCHANGED <<items, dropped, hasMarker, inflight, chanVars, history>>

(* Variant with an error: the episode ends with its count left over. *)
PopKeepsCount ==
  /\ pump = "popping"
  /\ items # <<>>
  /\ inflight' = <<Head(items)>>
  /\ items' = Tail(items)
  /\ hasMarker' = (hasMarker /\ ~IsMarker(Head(items)))
  /\ pump' = "sending"
  /\ UNCHANGED <<closed, dropped, chanVars, history>>

(* pop: taking the marker ends the drop episode. *)
Pop ==
  /\ pump = "popping"
  /\ items # <<>>
  /\ inflight' = <<Head(items)>>
  /\ items' = Tail(items)
  /\ IF IsMarker(Head(items))
       THEN dropped' = 0 /\ hasMarker' = FALSE
       ELSE UNCHANGED <<dropped, hasMarker>>
  /\ pump' = "sending"
  /\ UNCHANGED <<closed, chanVars, history>>

(* p.events <- e, blocked while the channel is full. *)
Send ==
  /\ pump = "sending"
  /\ Len(chan) < ChanCap
  /\ chan' = chan \o inflight
  /\ inflight' = <<>>
  /\ pump' = "popping"
  /\ UNCHANGED <<queueVars, chanClosed, ended, history>>

(* Variant with an error: the pump returns without its deferred close. *)
PumpExitOpen ==
  /\ pump = "popping"
  /\ items = <<>>
  /\ closed
  /\ pump' = "done"
  /\ UNCHANGED <<queueVars, inflight, chanVars, history>>

(* pop answers not-ok: the pump's deferred close of the channel. *)
PumpExit ==
  /\ pump = "popping"
  /\ items = <<>>
  /\ closed
  /\ pump' = "done"
  /\ chanClosed' = TRUE
  /\ UNCHANGED <<queueVars, inflight, chan, ended, history>>

(* The consumer's range over the channel. *)
Receive ==
  /\ chan # <<>>
  /\ LET e == Head(chan) IN
       /\ seen' = seen + IF IsOutput(e) THEN 1 ELSE 0
       /\ told' = told + IF IsMarker(e) THEN e.n ELSE 0
  /\ chan' = Tail(chan)
  /\ UNCHANGED <<queueVars, pumpVars, chanClosed, ended, emitted, accepted>>

ReceiveEnd ==
  /\ chan = <<>>
  /\ chanClosed
  /\ ~ended
  /\ ended' = TRUE
  /\ UNCHANGED <<queueVars, pumpVars, chan, chanClosed, history>>

QueueNext ==
  \/ \E p \in Producer : EmitEvent(p)
  \/ CloseEvents
  \/ Pop
  \/ Send
  \/ PumpExit
  \/ Receive
  \/ ReceiveEnd

(* RunAll ends, the pump is scheduled, and the consumer keeps receiving:   *)
(* the renderer's consumer does nothing but write a line per event.        *)
QueueFairness ==
  /\ WF_streamVars(CloseEvents)
  /\ WF_streamVars(Pop \/ Send \/ PumpExit)
  /\ WF_streamVars(Receive \/ ReceiveEnd)

QueueSpec == QueueInit /\ [][QueueNext]_streamVars /\ QueueFairness

-----------------------------------------------------------------------------
(* Types; a sequence of items is one of events and markers. *)
QueueTypeOK ==
  /\ items \in Seq(Item)
  /\ inflight \in Seq(Item) /\ Len(inflight) = (IF pump = "sending" THEN 1 ELSE 0)
  /\ chan \in Seq(Item) /\ Len(chan) <= ChanCap
  /\ pump \in {"off", "popping", "sending", "done"}
  /\ closed \in BOOLEAN /\ hasMarker \in BOOLEAN /\ chanClosed \in BOOLEAN /\ ended \in BOOLEAN
  /\ emitted \in [Producer -> 0..MaxEmit]
  /\ dropped \in Nat /\ accepted \in Nat /\ seen \in Nat /\ told \in Nat

(* Everything between the producers and the consumer, front first. *)
Flow == chan \o inflight \o items

(* The counts the markers of s announce, summed. *)
Announced(s) == Total([e \in Item |-> IF IsMarker(e) THEN e.n ELSE 0], s)

(* The queue's bookkeeping and the queue agree: during a drop episode      *)
(* there is one marker in it, and it carries the current count.            *)
MarkerTruth ==
  /\ hasMarker <=> dropped > 0
  /\ Cardinality(Markers(items)) = IF hasMarker THEN 1 ELSE 0
  /\ \A i \in Markers(items) : items[i].n = dropped

(* No output disappears unaccounted: each one pushed has been received, is *)
(* on its way, or is counted by exactly one marker, delivered or to come;  *)
(* and the queue knows its marker.  (queue.go: the marker is emitted "so   *)
(* consumers know".)                                                       *)
Accounting ==
  /\ accepted = seen + Cardinality(Outputs(Flow)) + told + Announced(Flow)
  /\ MarkerTruth

(* A stalled consumer cannot make the queue grow with child output: the    *)
(* high-water mark bounds it, whatever the mix with lossless events.       *)
OutputBounded == Cardinality(Outputs(items)) <= Cap

(* The invariant of the queue. *)
QueueInv == QueueTypeOK /\ Accounting /\ OutputBounded

-----------------------------------------------------------------------------
(* The queue, the pump and the channel together are a FIFO that loses      *)
(* nothing but child output (queue.go: "failure-first is lossless").       *)
Fifo == INSTANCE LossyFifo WITH
  Droppable <- Output,
  pending <- Without(Flow, Notice),
  open <- ~closed
ImplementsFifo == Fifo!Spec

(* The consumer sees the end of it, after the last event and however late  *)
(* a goroutine emits: the renderer's r.Wait() relies on it.                *)
StreamEnds == Fifo!Ends
=============================================================================
