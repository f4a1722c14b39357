----------------------------- MODULE MCMultiRun -----------------------------
(* A linux and a windows bench, command lines that pin, exclude, probe,     *)
(* name a target twice or ask for another Node major, and config files with *)
(* two targets, with two majors, without a target, or that Load refuses: a  *)
(* bench name or a Node major twice, a [node] of an unknown OS.             *)
EXTENDS MultiRun

CONSTANTS linux, windows, solaris, n22, n24, l1, w1

MCPlain == [targets |-> <<>>, pin |-> None, exclude |-> {}, node |-> <<>>, probe |-> FALSE]
MCFlags ==
  {MCPlain,
   [MCPlain EXCEPT !.targets = <<linux, linux>>],
   [MCPlain EXCEPT !.pin = l1],
   [MCPlain EXCEPT !.node = <<n24>>, !.probe = TRUE],
   [MCPlain EXCEPT !.targets = <<windows>>, !.exclude = {w1}]}

MCFile ==
  [benches |-> <<[name |-> l1, os |-> linux], [name |-> w1, os |-> windows]>>,
   targets |-> <<linux, windows>>, pin |-> None, exclude |-> {},
   node |-> <<>>, versions |-> {linux, windows}]
MCNode(os, majors) == [o \in {os} |-> majors]
MCConfig ==
  {MCFile,
   [MCFile EXCEPT !.targets = <<linux>>, !.node = MCNode(windows, <<n22, n24>>), !.versions = {linux}],
   [MCFile EXCEPT !.targets = <<windows>>, !.node = MCNode(windows, <<n22, n24>>)],
   [MCFile EXCEPT !.targets = <<>>, !.exclude = {l1}, !.node = MCNode(linux, <<>>)],
   [MCFile EXCEPT !.benches[2].name = l1],
   [MCFile EXCEPT !.targets = <<linux>>, !.node = MCNode(linux, <<n22, n22>>)],
   [MCFile EXCEPT !.node = MCNode(solaris, <<n24>>)]}
MCDefaultNodeLTS == <<n22>>
-----------------------------------------------------------------------------
(* Run has returned and the process ends. *)
MCNext == Next \/ (main = "exited" /\ UNCHANGED vars)
MCSpec == Init /\ [][MCNext]_vars /\ Fairness
=============================================================================
