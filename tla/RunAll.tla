-------------------------------- MODULE RunAll --------------------------------
(***************************************************************************)
(* The evidence pipeline: run_all.py launches one child process after the  *)
(* other (tests, demonstrations, network demonstration, nonce analysis,    *)
(* performance), the children write the files of evidence/, and run_all    *)
(* turns their exit codes into its own.  The demonstrations report through *)
(* demo/evidence.py.                                                       *)
(***************************************************************************)
EXTENDS Naturals, Sequences

CONSTANTS Configurations,   \* how many AEAD configurations are demonstrated
          Demos,            \* how many demonstrations each transcript holds
          Pending           \* member2_pending(): whether modules are still stubs

ASSUME PipelineAssumption ==
  Configurations \in Nat /\ Demos \in Nat \ {0} /\ Pending \in BOOLEAN

VARIABLES options,      \* --skip-tests and --skip-bench
          queue,        \* stages still to be launched
          results,      \* <<stage, ok>> of the stages that ended
          child,        \* what the running child process does next
          transcript,   \* Evidence.outcomes of the transcript being written
          current,      \* Evidence._current: is a demonstration open, passed so far
          allPassed,    \* all_passed of run_demo.main
          comparison,   \* whether perf has its AES-NI comparison
          exit,         \* exit code, or "running"
          fresh,        \* history: evidence files written by this run
          saved,        \* history: the transcripts written by this run
          failed        \* history: <<configuration, demo>> of every failed check

demoVars == <<transcript, current, allPassed>>
pipelineVars ==
  <<options, queue, results, child, demoVars, comparison, exit, fresh, saved, failed>>

Transcript(c) == <<"demo.log", c>>
Charts == {<<"perf-throughput.png", 0>>, <<"perf-latency.png", 0>>,
           <<"perf-required-sizes.png", 0>>}
AesniChart == <<"perf-aesni.png", 0>>
EvidenceFiles ==
  {Transcript(c) : c \in 1 .. Configurations} \cup Charts \cup {AesniChart}
  \cup {<<"nonce-analysis.md", 0>>, <<"perf-results.json", 0>>, <<"perf-summary.md", 0>>}

NoDemo == [open |-> FALSE, passed |-> TRUE]

\* The stages main lists, in their order.
Stages(o) ==
  LET Unless(cond, stages) == IF cond THEN <<>> ELSE stages
  IN  Unless(o.skipTests, <<"tests">>)
        \o Unless(Pending, <<"demos", "network">>)
        \o <<"analysis">>
        \o Unless(o.skipBench \/ Pending, <<"perf">>)

PipelineInit ==
  /\ options \in [skipTests : BOOLEAN, skipBench : BOOLEAN]
  /\ queue = Stages(options)
  /\ results = <<>>
  /\ child = "none"
  /\ transcript = <<>> /\ current = NoDemo /\ allPassed = TRUE
  /\ comparison = FALSE
  /\ exit = "running"
  /\ fresh = {}
  /\ saved = [c \in 1 .. Configurations |-> <<>>]
  /\ failed = {}

(***************************************************************************)
(* run_all.py                                                              *)
(***************************************************************************)
Launch ==
  /\ child = "none"
  /\ queue # <<>>
  /\ child' = Head(queue)
  /\ UNCHANGED <<options, queue, results, demoVars, comparison, exit, fresh, saved, failed>>

\* (mutant) The pipeline goes on whatever the tests say.
ChildExits_GoesOn(ok) ==
  /\ results' = Append(results, <<Head(queue), ok>>)
  /\ queue' = Tail(queue)
  /\ child' = "none"
  /\ UNCHANGED <<options, exit>>

\* A child process ends, its code is noted; a failing test suite ends the loop.
ChildExits(ok) ==
  /\ results' = Append(results, <<Head(queue), ok>>)
  /\ queue' = IF Head(queue) = "tests" /\ ~ ok THEN <<>> ELSE Tail(queue)
  /\ child' = "none"
  /\ UNCHANGED <<options, exit>>

\* (mutant) Only the last stage decides.
Finish_LastDecides ==
  /\ child = "none" /\ queue = <<>> /\ exit = "running"
  /\ exit' = IF results[Len(results)][2] THEN "0" ELSE "1"
  /\ UNCHANGED <<options, queue, results, child, demoVars, comparison, fresh, saved, failed>>

Finish ==
  /\ child = "none" /\ queue = <<>> /\ exit = "running"
  /\ exit' = IF \A i \in DOMAIN results : results[i][2] THEN "0" ELSE "1"
  /\ UNCHANGED <<options, queue, results, child, demoVars, comparison, fresh, saved, failed>>

\* pytest and run_network_demo: only their exit codes matter here.
PlainStage(ok) ==
  /\ child \in {"tests", "network"}
  /\ ChildExits(ok)
  /\ UNCHANGED <<demoVars, comparison, fresh, saved, failed>>

\* nonce_analysis.main writes its report, or raises before it has.
Analysis(ok) ==
  /\ child = "analysis"
  /\ fresh' = fresh \cup (IF ok THEN {<<"nonce-analysis.md", 0>>} ELSE {})
  /\ ChildExits(ok)
  /\ UNCHANGED <<demoVars, comparison, saved, failed>>

(***************************************************************************)
(* run_demo.py and evidence.py                                             *)
(***************************************************************************)
\* The configuration whose transcript is being written: the first unsaved one.
Configuration == CHOOSE c \in 1 .. Configurations + 1 :
                   /\ c \in DOMAIN saved => saved[c] = <<>>
                   /\ \A d \in 1 .. c - 1 : saved[d] # <<>>

InDemos == child = "demos" /\ Configuration <= Configurations

\* Evidence.begin
Begin ==
  /\ InDemos
  /\ ~ current.open
  /\ Len(transcript) < Demos
  /\ current' = [open |-> TRUE, passed |-> TRUE]
  /\ UNCHANGED <<options, queue, results, child, transcript, allPassed, comparison,
                 exit, fresh, saved, failed>>

\* (mutant) The outcome is that of the last check.
Check_LastWins(condition) ==
  /\ InDemos
  /\ current.open
  /\ current' = [current EXCEPT !.passed = condition]
  /\ failed' = failed \cup
       (IF condition THEN {} ELSE {<<Configuration, Len(transcript) + 1>>})
  /\ UNCHANGED <<options, queue, results, child, transcript, allPassed, comparison,
                 exit, fresh, saved>>

\* Evidence.check
Check(condition) ==
  /\ InDemos
  /\ current.open
  /\ current' = [current EXCEPT !.passed = @ /\ condition]
  /\ failed' = failed \cup
       (IF condition THEN {} ELSE {<<Configuration, Len(transcript) + 1>>})
  /\ UNCHANGED <<options, queue, results, child, transcript, allPassed, comparison,
                 exit, fresh, saved>>

\* Evidence.end
End ==
  /\ InDemos
  /\ current.open
  /\ transcript' = Append(transcript, current.passed)
  /\ current' = NoDemo
  /\ UNCHANGED <<options, queue, results, child, allPassed, comparison, exit, fresh,
                 saved, failed>>

\* The end of run_for_suite: summary, save, and main's all_passed.
Save ==
  /\ InDemos
  /\ ~ current.open
  /\ Len(transcript) = Demos
  /\ fresh' = fresh \cup {Transcript(Configuration)}
  /\ saved' = [saved EXCEPT ![Configuration] = transcript]
  /\ allPassed' = (allPassed /\ \A d \in DOMAIN transcript : transcript[d])
  /\ transcript' = <<>>
  /\ UNCHANGED <<options, queue, results, child, current, comparison, exit, failed>>

DemosEnd ==
  /\ child = "demos" /\ ~ InDemos
  /\ ChildExits(allPassed)
  /\ UNCHANGED <<demoVars, comparison, fresh, saved, failed>>

\* An exception leaves a demonstration: what is unsaved stays unwritten.
DemosRaise ==
  /\ InDemos
  /\ ChildExits(FALSE)
  /\ UNCHANGED <<demoVars, comparison, fresh, saved, failed>>

(***************************************************************************)
(* perf.py                                                                 *)
(***************************************************************************)
\* The measurements, then the AES-NI child process, which may give nothing.
Measure(compared) ==
  /\ child = "perf"
  /\ comparison' = compared
  /\ child' = "write results"
  /\ UNCHANGED <<options, queue, results, demoVars, exit, fresh, saved, failed>>

PerfWritesResults ==
  /\ child = "write results"
  /\ fresh' = fresh \cup {<<"perf-results.json", 0>>}
  /\ child' = "write summary"
  /\ UNCHANGED <<options, queue, results, demoVars, comparison, exit, saved, failed>>

PerfWritesSummary ==
  /\ child = "write summary"
  /\ fresh' = fresh \cup {<<"perf-summary.md", 0>>}
  /\ child' = "draw charts"
  /\ UNCHANGED <<options, queue, results, demoVars, comparison, exit, saved, failed>>

\* Without matplotlib there are no charts, without a comparison not the last one.
PerfDrawsCharts(matplotlib) ==
  /\ child = "draw charts"
  /\ fresh' = fresh \cup (IF matplotlib THEN Charts ELSE {})
                    \cup (IF matplotlib /\ comparison THEN {AesniChart} ELSE {})
  /\ ChildExits(TRUE)
  /\ UNCHANGED <<demoVars, comparison, saved, failed>>

PerfRaises ==
  /\ child \in {"perf", "write results", "write summary", "draw charts"}
  /\ ChildExits(FALSE)
  /\ UNCHANGED <<demoVars, comparison, fresh, saved, failed>>

PipelineNext ==
  \/ Launch \/ Finish
  \/ \E ok \in BOOLEAN : PlainStage(ok) \/ Analysis(ok) \/ Check(ok)
                           \/ Measure(ok) \/ PerfDrawsCharts(ok)
  \/ Begin \/ End \/ Save \/ DemosEnd \/ DemosRaise
  \/ PerfWritesResults \/ PerfWritesSummary \/ PerfRaises

PipelineSpec == PipelineInit /\ [][PipelineNext]_pipelineVars

(***************************************************************************)
(* Properties                                                              *)
(***************************************************************************)
Ran(stage) == \E i \in DOMAIN results : results[i] = <<stage, TRUE>>

\* Exit code 0 is never given over a failure or an omission anywhere below: every
\* listed stage ran and passed, every transcript of this run was written with all
\* its demonstrations, and not one check in them failed (run_all.py:110-115, 134;
\* run_demo.py:870-884).
ZeroMeansPassed ==
  exit = "0" =>
    /\ \A i \in DOMAIN Stages(options) : Ran(Stages(options)[i])
    /\ failed = {}
    /\ ~ Pending => \A c \in 1 .. Configurations : Len(saved[c]) = Demos

\* "the test suite must pass before evidence is regenerated" (run_all.py:114):
\* unless the tests are skipped no file is touched while they have not passed.
TestsGateEvidence ==
  fresh # {} => options.skipTests \/ Ran("tests")

\* A transcript says of each demonstration what its checks said, however many
\* checks passed after the one that failed (evidence.py:104-120).
TranscriptsTruthful ==
  \A c \in 1 .. Configurations :
    saved[c] # <<>> =>
      /\ Len(saved[c]) = Demos
      /\ \A d \in 1 .. Demos : saved[c][d] <=> <<c, d>> \notin failed

\* README.md:93 says of run_all.py that it "Regenerates every file under
\* `evidence/` and exits non-zero if any stage fails"; perf.py:483-503 and 793-795
\* go on without an AES-NI comparison or matplotlib, and still exit with 0.
ZeroMeansRegenerated ==
  (exit = "0" /\ ~ options.skipTests /\ ~ options.skipBench /\ ~ Pending)
    => fresh = EvidenceFiles
=============================================================================
