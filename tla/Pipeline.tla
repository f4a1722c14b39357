------------------------------ MODULE Pipeline ------------------------------
(***************************************************************************)
(* pipeline.RunAll: the eight legs of one run on one Docker bench, the     *)
(* goroutine that tails the results file for live test events, and the     *)
(* deferred removal of the container and end of the event stream.          *)
(* The lines of child output are left out: module LineStream says how they *)
(* are read, module EventQueue how every event travels.                    *)
(***************************************************************************)
EXTENDS Integers, Sequences

CONSTANT MaxLines \* bound on the lines of the results file

ASSUME BoundAssumption == MaxLines \in Nat

(* The order in RunAll; each command but the two files' is one of docker's. *)
Legs == <<"check_image_version", "start_container", "copy_worktree", "npm_ci",
          "build", "run_tests", "drain", "parse">>
None == "none"
(* A line of the results file: a test_event, another event of the reporter, *)
(* or a line that is no JSON or misses a field: a torn last line, say.      *)
Line == {"pass", "fail", "other", "bad"}

VARIABLES
  leg,       \* index in Legs of the leg in hand
  at,        \* "begin", "check", "work", "joining", "unwinding", "closing", "returned"
  cancelled, \* ctx is done
  last,      \* the last event emitted, <<kind, leg>>
  request,   \* docker run at the daemon: "none", "sent", "served", "dropped"
  container, \* "none", "running", "removed", "refused" (by docker rm)
  known,     \* p.containerID is set
  code,      \* how the test command ended: "zero", "one", "crash", "lost"
  file,      \* the results file in the container, a sequence of lines
  tail,      \* the tail goroutine: "off", "streaming", "ended"
  tailed,    \* lines it has read
  drained,   \* p.drainedPath is set
  failures,  \* p.result.Failures: "unset", "empty", "some"
  result     \* what RunAll will return: None, "passed", "failed", "error"

runVars == <<leg, at, last, result>>
dockerVars == <<request, container, known>>
testVars == <<code, file, tail, tailed>>
outVars == <<drained, failures>>
vars == <<runVars, cancelled, dockerVars, testVars, outVars>>

-----------------------------------------------------------------------------
Init ==
  /\ leg = 1 /\ at = "begin" /\ last = <<"nothing", None>> /\ result = None
  /\ cancelled = FALSE
  /\ request = "none" /\ container = "none" /\ known = FALSE
  /\ code = None /\ file = <<>> /\ tail = "off" /\ tailed = 0
  /\ drained = FALSE /\ failures = "unset"

Working(l) == at = "work" /\ Legs[leg] = l
Emit(kind) == last' = <<kind, Legs[leg]>>

(* runLeg's three ways out; RunAll goes on to the next leg, or finalizes    *)
(* after the last, or returns the error.                                    *)
LegOver(kind) ==
  /\ Emit(kind)
  /\ IF leg < Len(Legs) THEN leg' = leg + 1 /\ at' = "begin" /\ UNCHANGED result
     ELSE /\ at' = "unwinding"
          /\ result' = IF failures' = "some" THEN "failed" ELSE "passed"
          /\ UNCHANGED leg
LegFails ==
  /\ Emit("failure")
  /\ at' = "unwinding"
  /\ result' = "error"
  /\ UNCHANGED leg

(* runLeg emits the start event, ... *)
BeginLeg ==
  /\ at = "begin"
  /\ Emit("start")
  /\ at' = "check"
  /\ UNCHANGED <<leg, result, cancelled, dockerVars, testVars, outVars>>

(* ... and looks at the context. *)
CheckContext ==
  /\ at = "check"
  /\ IF cancelled THEN LegFails ELSE at' = "work" /\ UNCHANGED <<leg, last, result>>
  /\ UNCHANGED <<cancelled, dockerVars, testVars, outVars>>

(* SIGINT or SIGTERM at the workstation. *)
Cancel ==
  /\ ~cancelled /\ at # "returned"
  /\ cancelled' = TRUE
  /\ UNCHANGED <<runVars, dockerVars, testVars, outVars>>

(* The command of a leg answers well; Build may find nothing to build.      *)
(* dockerexec looks at the context after the command: done, there is no     *)
(* good answer any more.                                                    *)
CommandOk ==
  /\ at = "work" /\ ~cancelled
  /\ Legs[leg] \in {"check_image_version", "copy_worktree", "npm_ci", "build"}
  /\ \/ LegOver("success")
     \/ Legs[leg] = "build" /\ LegOver("skipped")
  /\ UNCHANGED <<cancelled, dockerVars, testVars, outVars>>

(* The command of a leg answers with an error, its transport breaks, or a   *)
(* done context kills its client.  Of docker run the request may be on its  *)
(* way, or served.                                                          *)
CommandFails ==
  /\ at = "work"
  /\ Legs[leg] \notin {"run_tests", "parse"}
  /\ LegFails
  /\ UNCHANGED <<cancelled, dockerVars, testVars, outVars>>

-----------------------------------------------------------------------------
(* docker run -d: the client sends, the daemon serves, the client answers.  *)
SendRun ==
  /\ Working("start_container")
  /\ request = "none"
  /\ request' = "sent"
  /\ UNCHANGED <<runVars, cancelled, container, known, testVars, outVars>>

ServeRun ==
  /\ request = "sent"
  /\ \/ request' = "served" /\ container' = "running"
     \/ request' = "dropped" /\ UNCHANGED container
  /\ UNCHANGED <<runVars, cancelled, known, testVars, outVars>>

(* The client prints the container's id. *)
StartContainer ==
  /\ Working("start_container") /\ ~cancelled
  /\ request = "served"
  /\ known' = TRUE
  /\ LegOver("success")
  /\ UNCHANGED <<cancelled, request, container, testVars, outVars>>

-----------------------------------------------------------------------------
(* RunTests starts the tail and the test command ... *)
StartTests ==
  /\ Working("run_tests")
  /\ tail = "off"
  /\ tail' = "streaming"
  /\ UNCHANGED <<runVars, cancelled, dockerVars, code, file, tailed, outVars>>

TestsUp == Working("run_tests") /\ tail # "off"

(* ... whose reporter writes the results file, ... *)
WriteLine ==
  /\ TestsUp
  /\ Len(file) < MaxLines
  /\ \E l \in Line : file' = Append(file, l)
  /\ UNCHANGED <<runVars, cancelled, dockerVars, code, tail, tailed, outVars>>

(* ... and which exits with 0, with 1 (a failed test or a dead runner) or   *)
(* with a higher code.                                                      *)
TestsExit ==
  /\ TestsUp /\ ~cancelled
  /\ code' \in {"zero", "one", "crash"}
  /\ at' = "joining"
  /\ UNCHANGED <<leg, last, result, cancelled, dockerVars, file, tail, tailed, outVars>>

(* The client is killed by the context or loses its connection. *)
TestsLost ==
  /\ TestsUp
  /\ code' = "lost"
  /\ at' = "joining"
  /\ UNCHANGED <<leg, last, result, cancelled, dockerVars, file, tail, tailed, outVars>>

(* The tail reads a line: a test event is emitted, anything else dropped. *)
TailLine ==
  /\ tail = "streaming"
  /\ tailed < Len(file)
  /\ tailed' = tailed + 1
  /\ last' = IF file[tailed + 1] \in {"pass", "fail"}
               THEN <<file[tailed + 1], "run_tests">> ELSE last
  /\ UNCHANGED <<leg, at, result, cancelled, dockerVars, code, file, tail, outVars>>

(* Variant with an error: the tail's command has a context of its own. *)
TailStopsUnbound == FALSE /\ UNCHANGED vars

(* Its context, a child of ctx, is done: cancelTail or a cancellation. *)
TailStops ==
  /\ tail = "streaming"
  /\ at = "joining" \/ cancelled
  /\ tail' = "ended"
  /\ UNCHANGED <<runVars, cancelled, dockerVars, code, file, tailed, outVars>>

(* Its docker exec fails: a line of child output says so.  (The look at its *)
(* context precedes the emission, so the context may be done by then.)      *)
TailFails ==
  /\ tail = "streaming"
  /\ tail' = "ended"
  /\ last' = <<"output", "run_tests">>
  /\ UNCHANGED <<leg, at, result, cancelled, dockerVars, code, file, tailed, outVars>>

(* Variants with an error: RunTests does not wait for the tail; a crash is  *)
(* taken for failed tests.                                                  *)
JoinTailUnwaited ==
  /\ at = "joining"
  /\ IF code \in {"zero", "one"} THEN LegOver("success") ELSE LegFails
  /\ UNCHANGED <<cancelled, dockerVars, testVars, outVars>>
JoinTailLenient ==
  /\ at = "joining"
  /\ tail = "ended"
  /\ IF code # "lost" THEN LegOver("success") ELSE LegFails
  /\ UNCHANGED <<cancelled, dockerVars, testVars, outVars>>

(* tailWG.Wait(); exit code 1 is not a leg error. *)
JoinTail ==
  /\ at = "joining"
  /\ tail = "ended"
  /\ IF code \in {"zero", "one"} THEN LegOver("success") ELSE LegFails
  /\ UNCHANGED <<cancelled, dockerVars, testVars, outVars>>

-----------------------------------------------------------------------------
(* docker cp of the results file: an empty one is copied like any other, a  *)
(* missing one makes the command fail.                                      *)
Drain ==
  /\ Working("drain") /\ ~cancelled
  /\ drained' = TRUE
  /\ LegOver("success")
  /\ UNCHANGED <<cancelled, dockerVars, testVars, failures>>

Has(k) == \E i \in DOMAIN file : file[i] = k

(* A bad line, no test event at all or a file that cannot be read is an     *)
(* error of the leg.                                                        *)
Parse ==
  /\ Working("parse")
  /\ \/ LegFails /\ UNCHANGED failures
     \/ /\ ~Has("bad") /\ (Has("pass") \/ Has("fail"))
        /\ failures' = IF Has("fail") THEN "some" ELSE "empty"
        /\ LegOver("success")
  /\ UNCHANGED <<cancelled, dockerVars, testVars, drained>>

-----------------------------------------------------------------------------
(* The deferred docker rm -f: context.Background(), so that a cancellation  *)
(* does not reach it, and no deadline, so that a bench that does not answer *)
(* keeps RunAll here.  Its error, should docker refuse, is ignored.         *)
Cleanup ==
  /\ at = "unwinding"
  /\ at' = "closing"
  /\ IF known THEN container' \in {"removed", "refused"} ELSE UNCHANGED container
  /\ UNCHANGED <<leg, last, result, cancelled, request, known, testVars, outVars>>

(* The deferred closeEvents, and the return. *)
Close ==
  /\ at = "closing"
  /\ at' = "returned"
  /\ UNCHANGED <<leg, last, result, cancelled, dockerVars, testVars, outVars>>

Next ==
  \/ BeginLeg
  \/ CheckContext
  \/ Cancel
  \/ CommandOk
  \/ CommandFails
  \/ SendRun
  \/ ServeRun
  \/ StartContainer
  \/ StartTests
  \/ WriteLine
  \/ TestsExit
  \/ TestsLost
  \/ TailLine
  \/ TailStops
  \/ TailFails
  \/ JoinTail
  \/ Drain
  \/ Parse
  \/ Cleanup
  \/ Close

(* A done context kills the client of a command, the tail's included, and   *)
(* RunAll's own steps come to an end, Cleanup with nothing to remove being  *)
(* one.  Nothing obliges any command to: no leg has a deadline, and docker  *)
(* rm -f has neither that nor a context that ends.                          *)
Fairness ==
  /\ WF_vars(BeginLeg) /\ WF_vars(CheckContext) /\ WF_vars(StartTests)
  /\ WF_vars(cancelled /\ (CommandFails \/ TestsLost))
  /\ WF_vars(TailStops) /\ WF_vars(JoinTail)
  /\ WF_vars(Parse)
  /\ WF_vars(~known /\ Cleanup) /\ WF_vars(Close)

Spec == Init /\ [][Next]_vars /\ Fairness

-----------------------------------------------------------------------------
(* Types of the variables. *)
TypeOK ==
  /\ leg \in DOMAIN Legs
  /\ at \in {"begin", "check", "work", "joining", "unwinding", "closing", "returned"}
  /\ cancelled \in BOOLEAN
  /\ request \in {"none", "sent", "served", "dropped"}
  /\ container \in {"none", "running", "removed", "refused"} /\ known \in BOOLEAN
  /\ code \in {None, "zero", "one", "crash", "lost"}
  /\ file \in Seq(Line) /\ tailed \in 0..Len(file)
  /\ tail \in {"off", "streaming", "ended"}
  /\ drained \in BOOLEAN /\ failures \in {"unset", "empty", "some"}
  /\ result \in {None, "passed", "failed", "error"}

(* What the renderer relies on is kept, whatever the tail goroutine does    *)
(* when the tests end or are cancelled: the legs in order, one end to each  *)
(* start, nothing after a failure, the live events while the tests' leg is  *)
(* open, and no leg open, and no emitter left, when the stream closes.      *)
Shown == IF last[1] \in {"pass", "fail", "output"} THEN <<"inner", last[2]>> ELSE last
Stream == INSTANCE LegStream WITH last <- Shown, closed <- at = "returned"
ImplementsLegStream == Stream!Spec

(* A run passes only on evidence: the test command neither crashed nor was  *)
(* lost, and the results file is intact and holds a passed test and no      *)
(* failed one; a run is failed only if a test of the file did.              *)
ReportTruth ==
  /\ result = "passed" => /\ code \in {"zero", "one"} /\ drained
                          /\ Has("pass") /\ ~Has("fail") /\ ~Has("bad")
  /\ result = "failed" => code \in {"zero", "one"} /\ drained /\ Has("fail") /\ ~Has("bad")

(* A container whose id the run knows does not survive the run, cancelled   *)
(* or not, unless docker refuses to remove it.                              *)
KnownIsRemoved ==
  at = "returned" /\ known => container \in {"removed", "refused"}

(* The invariant of one run. *)
Inv == TypeOK /\ ReportTruth /\ KnownIsRemoved

(* The docker rm -f of the cleanup hangs, or may yet: a bench that has gone *)
(* silent keeps a cancelled run there.                                      *)
RemovalPends == at = "unwinding" /\ known

(* A cancelled run gets out of any point of any leg, with an error if the   *)
(* cancellation came before the last leg, and returns, unless the removal   *)
(* of its container hangs.                                                  *)
CancelReturns ==
  /\ cancelled ~> at = "returned" \/ RemovalPends
  /\ cancelled /\ leg < Len(Legs) ~> result = "error" /\ (at = "returned" \/ RemovalPends)
  /\ []<>~RemovalPends => (cancelled ~> at = "returned")
=============================================================================
