----------------------------- MODULE LineStream -----------------------------
(***************************************************************************)
(* dockerexec.Stream: a docker subprocess writes lines to two pipes, one   *)
(* scanner goroutine per pipe hands them to a callback, the caller waits   *)
(* for the process and then for the scanners.  cmd.Wait closes the reading *)
(* ends as soon as the process has ended (os/exec, StdoutPipe).            *)
(***************************************************************************)
EXTENDS Integers, Sequences

CONSTANTS
  MaxWritten,  \* bound on the lines the process writes to one pipe
  PipeCap      \* lines a pipe holds

ASSUME PipeAssumption == MaxWritten \in Nat /\ PipeCap \in Nat \ {0}

Source == {"stdout", "stderr"}
OutputLine == [seq : 1..MaxWritten, long : BOOLEAN]

VARIABLES
  process,   \* "up", "ended"
  written,   \* [Source -> Nat]: lines the process has written
  pipe,      \* [Source -> Seq(OutputLine)]: written and not yet read
  scanner,   \* [Source -> ...]: "scanning", "done", or "torn", done with a cut line
  handled,   \* [Source -> Seq(OutputLine)]: lines given to the callback
  waited,    \* cmd.Wait has returned and closed the reading ends
  ctxDone,   \* ctx is done: CommandContext kills the process
  returned   \* Stream has returned

lineVars == <<process, written, pipe, scanner, handled, waited, ctxDone, returned>>

LineInit ==
  /\ process = "up"
  /\ written = [s \in Source |-> 0]
  /\ pipe = [s \in Source |-> <<>>]
  /\ scanner = [s \in Source |-> "scanning"]
  /\ handled = [s \in Source |-> <<>>]
  /\ waited = FALSE /\ ctxDone = FALSE /\ returned = FALSE

(* The process writes a line; a full pipe blocks it. *)
Write(s) ==
  /\ process = "up"
  /\ written[s] < MaxWritten
  /\ Len(pipe[s]) < PipeCap
  /\ written' = [written EXCEPT ![s] = @ + 1]
  /\ \E long \in BOOLEAN :
       pipe' = [pipe EXCEPT ![s] = Append(@, [seq |-> written[s] + 1, long |-> long])]
  /\ UNCHANGED <<process, scanner, handled, waited, ctxDone, returned>>

(* The process ends, having written all it had to write. *)
ProcessEnds ==
  /\ process = "up"
  /\ \A s \in Source : written[s] = MaxWritten
  /\ process' = "ended"
  /\ UNCHANGED <<written, pipe, scanner, handled, waited, ctxDone, returned>>

(* The caller's context is done. *)
EndContext ==
  /\ ~ctxDone /\ ~returned
  /\ ctxDone' = TRUE
  /\ UNCHANGED <<process, written, pipe, scanner, handled, waited, returned>>

(* Variant with an error: exec.Command in place of exec.CommandContext. *)
KillNever == FALSE /\ UNCHANGED lineVars

(* CommandContext kills the process of a cancelled context. *)
Kill ==
  /\ ctxDone
  /\ process = "up"
  /\ process' = "ended"
  /\ UNCHANGED <<written, pipe, scanner, handled, waited, ctxDone, returned>>

(* Variant with an error: a line beyond the buffer is handed over as well,  *)
(* cut off.                                                                 *)
ScanCut(s) ==
  /\ scanner[s] = "scanning"
  /\ pipe[s] # <<>>
  /\ handled' = [handled EXCEPT ![s] = Append(@, Head(pipe[s]))]
  /\ pipe' = [pipe EXCEPT ![s] = Tail(@)]
  /\ UNCHANGED <<process, written, scanner, waited, ctxDone, returned>>

(* scanLines hands over one line.  What the scanner had read ahead when the *)
(* pipe was closed is still handed over, so this may happen after waited.   *)
Scan(s) ==
  /\ scanner[s] = "scanning"
  /\ pipe[s] # <<>>
  /\ ~Head(pipe[s]).long
  /\ handled' = [handled EXCEPT ![s] = Append(@, Head(pipe[s]))]
  /\ pipe' = [pipe EXCEPT ![s] = Tail(@)]
  /\ UNCHANGED <<process, written, scanner, waited, ctxDone, returned>>

(* A scanner hands over what it has of a line when there is no more to      *)
(* read: cmd.Wait has closed the pipe before it had the rest, or a kill has *)
(* come in the middle of the last line.                                     *)
ScanTorn(s) ==
  /\ scanner[s] = "scanning"
  /\ pipe[s] # <<>>
  /\ process = "ended"
  /\ waited \/ (ctxDone /\ Len(pipe[s]) = 1)
  /\ handled' = [handled EXCEPT ![s] = Append(@, Head(pipe[s]))]
  /\ pipe' = [pipe EXCEPT ![s] = Tail(@)]
  /\ scanner' = [scanner EXCEPT ![s] = "torn"]
  /\ UNCHANGED <<process, written, waited, ctxDone, returned>>

(* Scan answers false: end of file, a closed pipe, or a line that is too    *)
(* long for the buffer.  The goroutine reports done and reads no more.      *)
ScanEnds(s) ==
  /\ scanner[s] = "scanning"
  /\ \/ waited
     \/ process = "ended" /\ pipe[s] = <<>>
     \/ pipe[s] # <<>> /\ Head(pipe[s]).long
  /\ scanner' = [scanner EXCEPT ![s] = "done"]
  /\ UNCHANGED <<process, written, pipe, handled, waited, ctxDone, returned>>

(* cmd.Wait: needs the end of the process, not that of the scanners. *)
Wait ==
  /\ process = "ended"
  /\ ~waited
  /\ waited' = TRUE
  /\ UNCHANGED <<process, written, pipe, scanner, handled, ctxDone, returned>>

(* Variant with an error: the scanners are not waited for. *)
ReturnAtOnce ==
  /\ waited /\ ~returned
  /\ returned' = TRUE
  /\ UNCHANGED <<process, written, pipe, scanner, handled, waited, ctxDone>>

(* <-done, <-done, and the answer. *)
Return ==
  /\ waited /\ ~returned
  /\ \A s \in Source : scanner[s] # "scanning"
  /\ returned' = TRUE
  /\ UNCHANGED <<process, written, pipe, scanner, handled, waited, ctxDone>>

LineNext ==
  \/ \E s \in Source : Write(s)
  \/ ProcessEnds
  \/ EndContext
  \/ Kill
  \/ \E s \in Source : Scan(s)
  \/ \E s \in Source : ScanTorn(s)
  \/ \E s \in Source : ScanEnds(s)
  \/ Wait
  \/ Return

(* The goroutines are scheduled, a kill works, and the process makes        *)
(* progress as long as it can write.  Nothing obliges a user to cancel.     *)
LineFairness ==
  /\ \A s \in Source : WF_lineVars(Scan(s) \/ ScanEnds(s)) /\ WF_lineVars(Write(s))
  /\ WF_lineVars(ProcessEnds) /\ WF_lineVars(Kill)
  /\ WF_lineVars(Wait) /\ WF_lineVars(Return)

LineSpec == LineInit /\ [][LineNext]_lineVars /\ LineFairness

-----------------------------------------------------------------------------
(* Types of the variables. *)
LineTypeOK ==
  /\ process \in {"up", "ended"}
  /\ written \in [Source -> 0..MaxWritten]
  /\ pipe \in [Source -> Seq(OutputLine)] /\ \A s \in Source : Len(pipe[s]) <= PipeCap
  /\ scanner \in [Source -> {"scanning", "done", "torn"}]
  /\ handled \in [Source -> Seq(OutputLine)] /\ \A s \in Source : Len(handled[s]) <= MaxWritten
  /\ waited \in BOOLEAN /\ ctxDone \in BOOLEAN /\ returned \in BOOLEAN

(* The last line of a scanner that was cut short. *)
Cut(s, i) == scanner[s] = "torn" /\ i = Len(handled[s])

(* The callback is given what the process has written to a pipe, in order   *)
(* and without a gap, up to a line beyond the scanner's buffer at most, and *)
(* whole but for the last one, cut only if the pipe was closed before the   *)
(* scanner had all of it or the process was killed while it wrote; all that *)
(* follows is in the pipe, or was lost with it.                             *)
HandledInOrder ==
  \A s \in Source :
    /\ Len(handled[s]) + Len(pipe[s]) = written[s]
    /\ \A i \in DOMAIN handled[s] : handled[s][i].seq = i /\ (handled[s][i].long => Cut(s, i))
    /\ scanner[s] = "torn" => process = "ended" /\ (waited \/ ctxDone)
    /\ \A i \in DOMAIN pipe[s] : pipe[s][i].seq = Len(handled[s]) + i

(* The invariant of Stream. *)
LineInv == LineTypeOK /\ HandledInOrder

(* The callbacks are over when Stream returns: the buffers and the emit of  *)
(* streamAndCapture are not used behind the caller's back.                  *)
QuietAfterReturn == [][returned => UNCHANGED handled]_lineVars

LongLineLeft == \E s \in Source : \E i \in DOMAIN pipe[s] : pipe[s][i].long
(* Stream returns when it is cancelled, whatever the process wrote or still *)
(* writes, and when the process has come to its end, unless a line was      *)
(* beyond the scanner's buffer, which leaves a pipe without a reader.       *)
Returns == (ctxDone ~> returned) /\ <>(returned \/ LongLineLeft)
=============================================================================
