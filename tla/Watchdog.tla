------------------------------ MODULE Watchdog ------------------------------
(***************************************************************************)
(* reporter/watchdog.mjs: the node process that wraps `node --test` inside *)
(* a container.  It follows the reporter's events on the runner's stdout,  *)
(* and when the deadline passes it snapshots what is in flight, sends      *)
(* SIGTERM to the process group and, after a grace time, SIGKILL.  The     *)
(* envelope it prints becomes a Report in dispatch.reportFromEnvelope.     *)
(* The watchdog is one event loop: each callback below is one step.        *)
(***************************************************************************)
EXTENDS Integers, Sequences, FiniteSets

CONSTANTS
  Test,     \* the tests of the suite
  File,     \* their files
  FileOf,   \* [Test -> File]
  Parent,   \* [Test -> Test \cup {NoTest}]: a subtest's parent
  NoTest,
  Helper,   \* processes the tests have forked, in the runner's group
  Stubborn  \* helpers that survive a SIGTERM

ASSUME TestAssumption ==
  /\ IsFiniteSet(Test) /\ NoTest \notin Test
  /\ FileOf \in [Test -> File]
  /\ Parent \in [Test -> Test \cup {NoTest}]
  /\ \A t \in Test : Parent[t] # NoTest => FileOf[Parent[t]] = FileOf[t]
  /\ Stubborn \subseteq Helper

None == "none"
NoCode == -2 \* the runner has not ended
Signal == -1 \* node's code = null: the process was ended by a signal
NoKill == [taken |-> FALSE, inFlight |-> <<>>]
NoResult == [outcome |-> None, exitCode |-> NoCode, perTest |-> <<>>]

VARIABLES
  code,      \* the runner's exit code once it has ended, NoCode before
  helpers,   \* helpers alive
  begun,     \* tests begun
  over,      \* tests completed
  termed,    \* SIGTERM has reached the group
  pipe,      \* the runner's stdout: events not yet read
  inFlight,  \* ActiveTracker._inFlight
  completed, \* ActiveTracker._completed
  deadline,  \* "armed", "fired", "cleared"
  killTimer, \* "off", "armed", "fired", "cleared"
  kill,      \* the kill record: NoKill, or taken with the snapshot of inFlight
  result,    \* NoResult, or what the promise resolved with
  report     \* None, or the outcome of the dispatcher's Report

groupVars == <<code, helpers, begun, over, termed>>
trackerVars == <<inFlight, completed>>
timerVars == <<deadline, killTimer, kill>>
vars == <<groupVars, pipe, trackerVars, timerVars, result, report>>

-----------------------------------------------------------------------------
(* No readyToken: the deadline is armed at the spawn. *)
Init ==
  /\ code = NoCode /\ helpers = Helper
  /\ begun = {} /\ over = {} /\ termed = FALSE
  /\ pipe = <<>>
  /\ inFlight = <<>> /\ completed = <<>>
  /\ deadline = "armed" /\ killTimer = "off" /\ kill = NoKill
  /\ result = NoResult /\ report = None

Alive == code = NoCode
Running == begun \ over
Event(type, t) == [type |-> type, test |-> t]
Events == [type : {"start", "end"}, test : Test]

(* A test begins inside its parent; the reporter passes test:start through. *)
BeginTest(t) ==
  /\ Alive
  /\ t \notin begun
  /\ Parent[t] # NoTest => Parent[t] \in Running
  /\ begun' = begun \cup {t}
  /\ pipe' = Append(pipe, Event("start", t))
  /\ UNCHANGED <<code, helpers, over, termed, trackerVars, timerVars, result, report>>

(* A test ends after its subtests: the reporter emits a test_event. *)
EndTest(t) ==
  /\ Alive
  /\ t \in Running
  /\ \A s \in Running : Parent[s] # t
  /\ over' = over \cup {t}
  /\ pipe' = Append(pipe, Event("end", t))
  /\ UNCHANGED <<code, helpers, begun, termed, trackerVars, timerVars, result, report>>

(* The runner exits by itself: with 0 when every test has ended well, with  *)
(* 1 when a test has failed.                                                *)
RunnerExits ==
  /\ Alive
  /\ \/ over = Test /\ code' \in {0, 1}
     \/ over # {} /\ Running = {} /\ code' = 1
  /\ UNCHANGED <<helpers, begun, over, termed, pipe, trackerVars, timerVars, result, report>>

(* The runner is ended by SIGTERM, or handles it and exits. *)
RunnerTermed ==
  /\ Alive /\ termed
  /\ code' \in {Signal, 1}
  /\ UNCHANGED <<helpers, begun, over, termed, pipe, trackerVars, timerVars, result, report>>

(* Something else kills the runner: the memory cap's OOM kill. *)
RunnerCrashes ==
  /\ Alive
  /\ code' = Signal
  /\ UNCHANGED <<helpers, begun, over, termed, pipe, trackerVars, timerVars, result, report>>

HelperEnds(h) ==
  /\ h \in helpers
  /\ h \notin Stubborn
  /\ helpers' = helpers \ {h}
  /\ UNCHANGED <<code, begun, over, termed, pipe, trackerVars, timerVars, result, report>>

-----------------------------------------------------------------------------
RemoveAt(s, i) == SubSeq(s, 1, i - 1) \o SubSeq(s, i + 1, Len(s))
IsFirst(i, P(_)) == P(i) /\ \A j \in 1..(i - 1) : ~P(j)

(* ActiveTracker.observe: a completion takes the oldest test of its file    *)
(* out of flight, whatever its name.                                        *)
Observe(e) ==
  LET same(i) == FileOf[inFlight[i]] = FileOf[e.test] IN
  IF e.type = "start"
    THEN inFlight' = Append(inFlight, e.test) /\ UNCHANGED completed
    ELSE /\ inFlight' = IF \E i \in DOMAIN inFlight : same(i)
                          THEN RemoveAt(inFlight, CHOOSE i \in DOMAIN inFlight : IsFirst(i, same))
                          ELSE inFlight
         /\ completed' = Append(completed, e.test)

(* The data handler. *)
ReadEvent ==
  /\ pipe # <<>>
  /\ result = NoResult
  /\ Observe(Head(pipe))
  /\ pipe' = Tail(pipe)
  /\ UNCHANGED <<groupVars, timerVars, result, report>>

(* Variant with an error: no second timer. *)
DeadlineSoft ==
  /\ deadline = "armed"
  /\ deadline' = "fired"
  /\ kill' = [taken |-> TRUE, inFlight |-> inFlight]
  /\ termed' = TRUE
  /\ UNCHANGED <<killTimer, code, helpers, begun, over, pipe, trackerVars, result, report>>

(* The deadline: snapshot, SIGTERM to the group, arm the kill timer. *)
DeadlineFires ==
  /\ deadline = "armed"
  /\ deadline' = "fired"
  /\ kill' = [taken |-> TRUE, inFlight |-> inFlight]
  /\ termed' = TRUE
  /\ killTimer' = "armed"
  /\ UNCHANGED <<code, helpers, begun, over, pipe, trackerVars, result, report>>

(* The grace time is over: SIGKILL to the whole group. *)
KillFires ==
  /\ killTimer = "armed"
  /\ killTimer' = "fired"
  /\ code' = IF Alive THEN Signal ELSE code
  /\ helpers' = {}
  /\ UNCHANGED <<begun, over, termed, pipe, trackerVars, deadline, kill, result, report>>

Stat(t, status) == [test |-> t, status |-> status]

(* Variant with an error: the completed tests only. *)
PerTestCompleted == [i \in DOMAIN completed |-> Stat(completed[i], "ended")]

(* perTest: a killed run lists what is still in flight, too. *)
PerTest ==
  [i \in DOMAIN completed |-> Stat(completed[i], "ended")] \o
    IF ~kill.taken THEN <<>> ELSE [i \in DOMAIN inFlight |-> Stat(inFlight[i], "killed")]

(* Variant with an error: a runner that ended by itself was not reaped,     *)
(* whatever made it end.                                                    *)
OnExitByCode ==
  /\ ~Alive
  /\ result = NoResult
  /\ deadline' = IF deadline = "armed" THEN "cleared" ELSE deadline
  /\ killTimer' = IF killTimer = "armed" THEN "cleared" ELSE killTimer
  /\ result' = IF kill.taken /\ killTimer = "fired"
                 THEN [outcome |-> "reaped", exitCode |-> code, perTest |-> PerTest]
                 ELSE [outcome |-> "completed", exitCode |-> IF code = Signal THEN 0 ELSE code,
                       perTest |-> PerTest]
  /\ UNCHANGED <<groupVars, pipe, trackerVars, kill, report>>

(* The exit handler, which may run before the last of stdout was read:      *)
(* clear the timers and resolve; `code ?? 0` makes a signal's null a 0.     *)
OnExit ==
  /\ ~Alive
  /\ result = NoResult
  /\ deadline' = IF deadline = "armed" THEN "cleared" ELSE deadline
  /\ killTimer' = IF killTimer = "armed" THEN "cleared" ELSE killTimer
  /\ result' = IF kill.taken
                 THEN [outcome |-> "reaped", exitCode |-> code, perTest |-> PerTest]
                 ELSE [outcome |-> "completed", exitCode |-> IF code = Signal THEN 0 ELSE code,
                       perTest |-> PerTest]
  /\ UNCHANGED <<groupVars, pipe, trackerVars, kill, report>>

(* reportFromEnvelope: reaped, failed by the exit code, or Finalize of a    *)
(* report without failures.                                                 *)
ReportFromEnvelope ==
  /\ result # NoResult /\ report = None
  /\ report' = CASE result.outcome = "reaped" -> "reaped"
                 [] result.outcome = "completed" /\ result.exitCode # 0 -> "failed"
                 [] OTHER -> "passed"
  /\ UNCHANGED <<groupVars, pipe, trackerVars, timerVars, result>>

Next ==
  \/ \E t \in Test : BeginTest(t)
  \/ \E t \in Test : EndTest(t)
  \/ RunnerExits
  \/ RunnerTermed
  \/ RunnerCrashes
  \/ \E h \in Helper : HelperEnds(h)
  \/ ReadEvent
  \/ DeadlineFires
  \/ KillFires
  \/ OnExit
  \/ ReportFromEnvelope

(* The event loop runs its callbacks and a SIGKILL works.  Nothing obliges  *)
(* a test to end or a runner to obey a SIGTERM.                             *)
Fairness ==
  /\ WF_vars(DeadlineFires)
  /\ WF_vars(KillFires)
  /\ WF_vars(OnExit)
  /\ WF_vars(ReportFromEnvelope)

Spec == Init /\ [][Next]_vars /\ Fairness

-----------------------------------------------------------------------------
(* Types of the variables. *)
Types ==
  /\ code \in {NoCode, Signal, 0, 1}
  /\ helpers \subseteq Helper
  /\ begun \subseteq Test /\ over \subseteq begun
  /\ termed \in BOOLEAN
  /\ pipe \in Seq(Events)
  /\ inFlight \in Seq(Test)
  /\ completed \in Seq(Test)
  /\ deadline \in {"armed", "fired", "cleared"}
  /\ killTimer \in {"off", "armed", "fired", "cleared"}
  /\ kill \in [taken : BOOLEAN, inFlight : Seq(Test)]
  /\ result \in [outcome : {None, "reaped", "completed"},
                 exitCode : {NoCode, Signal, 0, 1},
                 perTest : Seq([test : Test, status : {"ended", "killed"}])]
  /\ report \in {None, "passed", "failed", "reaped"}

(* The tracker never holds more than the suite has; a killed run's timers   *)
(* were armed in their order.                                               *)
TypeOK ==
  /\ Types
  /\ Len(inFlight) <= Cardinality(Test)
  /\ killTimer # "off" <=> deadline = "fired"

Count(s, type, f) == Cardinality({i \in DOMAIN s : s[i].type = type /\ FileOf[s[i].test] = f})

(* Per file the tracker counts right, however its tests nest or overlap:    *)
(* what it holds in flight and what is still in the pipe make up the tests  *)
(* that have begun and not ended.                                           *)
TrackerCounts ==
  \A f \in File :
    Cardinality({i \in DOMAIN inFlight : FileOf[inFlight[i]] = f})
        + Count(pipe, "start", f) - Count(pipe, "end", f)
      = Cardinality({t \in Running : FileOf[t] = f})

Ends(s) == {s[i].test : i \in {j \in DOMAIN s : s[j].type = "end"}}
Listed(status) ==
  {result.perTest[i].test : i \in {j \in DOMAIN result.perTest : result.perTest[j].status = status}}
KilledOf(f) ==
  {i \in DOMAIN result.perTest :
     result.perTest[i].status = "killed" /\ FileOf[result.perTest[i].test] = f}

(* What a reaped run's telemetry gets right.  The tests that it lists as    *)
(* ended are those that have ended, but for what is still in the pipe; of   *)
(* each file it lists as many as killed as were running, and as many tests  *)
(* in all as have begun, the pipe taken into account.  Which tests of the   *)
(* file it names as killed is another matter: tests that have begun, no     *)
(* more.  "Under process isolation attribution is precise" (watchdog.mjs)   *)
(* does not hold with a subtest: it may be listed as ended and as killed,   *)
(* in its parent's place.                                                   *)
ReapedCounts ==
  result.outcome = "reaped" =>
    /\ over = Listed("ended") \cup Ends(pipe)
    /\ Listed("killed") \subseteq begun
    /\ \A f \in File :
         Cardinality(KilledOf(f)) + Count(pipe, "start", f) - Count(pipe, "end", f)
           = Cardinality({t \in Running : FileOf[t] = f})
    /\ Len(result.perTest) = Cardinality(begun) - Cardinality({i \in DOMAIN pipe : pipe[i].type = "start"})

(* The invariant of the tracker and of the telemetry it feeds. *)
Inv == TypeOK /\ TrackerCounts /\ ReapedCounts

(* A run whose deadline has fired is reported as reaped, also when the      *)
(* runner exits in the grace time with a code of its own, and no other is.  *)
ReapedIsReported ==
  report # None => (report = "reaped" <=> termed)

(* The promise resolves, and the run has a report, whatever the tests do:   *)
(* "never a silent hang".                                                   *)
AlwaysReported == <>(report # None)

(* docs/run-and-die-reference.md: the watchdog "exits 0 (passed)": a run    *)
(* is reported as passed only if the runner ended with 0.                   *)
PassedMeansClean == report = "passed" => code = 0
=============================================================================
