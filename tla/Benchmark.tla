------------------------------ MODULE Benchmark ------------------------------
(***************************************************************************)
(* The performance evaluation (bench/perf.py): successive invocations of   *)
(* its main over one evidence directory.  An invocation sweeps a grid of   *)
(* measurements through senders and receivers, pools the samples, and      *)
(* writes the results, a summary and charts; --charts-only makes the last  *)
(* two again from the first.  Durations are not modelled, samples are      *)
(* counted.                                                                *)
(***************************************************************************)
EXTENDS ReplayWindow, NonceManager, Sequences, FiniteSets

CONSTANTS SizeLists,        \* values of --sizes, as sequences
          SweepCounts,      \* values of --sweeps
          Reps, MinOps, MaxOps, BatchBytes,
          Slack,            \* what the senders' limits add to the records planned
          MaxPayload,       \* MAX_PAYLOAD_LEN
          MaxRuns           \* bound: invocations of the program

\* --sizes, when given, names at least one size (1001-1002).
ASSUME BenchmarkAssumption ==
  /\ SizeLists \subseteq Seq(Int) \ {<<>>}
  /\ SweepCounts \subseteq Int /\ Slack \in Nat
  /\ {Reps, MinOps, MaxOps, BatchBytes, MaxPayload, MaxRuns} \subseteq Nat \ {0}

VARIABLES phase,        \* what the program is doing
          args,         \* sizes, sweeps, whether charts are wanted, --charts-only
          run,          \* which invocation this is
          cell, sweep,  \* the measurement of the grid, and the sweep
          batch, left,  \* the batch of the measurement, 0 for the warm-up; its records to come
          sender,       \* nonce manager of the sender measured
          receivers,    \* receivers left for the batches to come
          window,       \* replay window of the receiver measured
          pooled,       \* measurement -> its samples and its batches field
          compared,     \* is there an AES-NI comparison
          json,         \* perf-results.json
          summary, charts, aesniChart  \* perf-summary.md, the charts: of which run

measureVars == <<cell, sweep, batch, left, sender, receivers, window, pooled>>
fileVars == <<json, summary, charts, aesniChart>>
vars == <<phase, args, run, measureVars, compared, fileVars>>

SuiteNames == <<"aes-gcm", "chacha20-poly1305">>
Operations == <<"protect", "recover", "seal", "open">>

(***************************************************************************)
(* The grid: sizes, then operations, then suites                           *)
(***************************************************************************)
Cells == Len(args.sizes) * Len(Operations) * Len(SuiteNames)

Size == args.sizes[((cell - 1) \div (Len(Operations) * Len(SuiteNames))) + 1]
Operation == Operations[(((cell - 1) \div Len(SuiteNames)) % Len(Operations)) + 1]
Suite == SuiteNames[((cell - 1) % Len(SuiteNames)) + 1]

\* batch_size divides by the size; os.urandom takes no negative one; a sender
\* refuses a payload beyond the policy.
Measurable(size) == size \in 1 .. MaxPayload

Smaller(a, b) == IF a < b THEN a ELSE b
Larger(a, b) == IF a > b THEN a ELSE b

Ops == Larger(MinOps, Smaller(MaxOps, BatchBytes \div Size))

(***************************************************************************)
(* State between measurements                                              *)
(***************************************************************************)
Nobody == NewManager(CHOOSE p \in Prefixes : TRUE, 0, 1)

NoFile == [state |-> "none", run |-> 0, pooled |-> <<>>, sizes |-> <<>>, sweeps |-> 0,
           compared |-> FALSE]

Between == {"idle", "exited", "raised", "refused", "killed"}

NoMeasurement ==
  /\ cell' = 1 /\ batch' = 0 /\ left' = 0 /\ sender' = Nobody /\ receivers' = 0
  /\ window' = EmptyWindow

Init ==
  /\ phase = "idle" /\ run = 0
  /\ args = [sizes |-> <<>>, sweeps |-> 0, draw |-> FALSE, chartsOnly |-> FALSE]
  /\ cell = 1 /\ sweep = 1 /\ batch = 0 /\ left = 0 /\ sender = Nobody /\ receivers = 0
  /\ window = EmptyWindow /\ pooled = <<>>
  /\ compared = FALSE
  /\ json = NoFile /\ summary = 0 /\ charts = 0 /\ aesniChart = 0

(***************************************************************************)
(* main, up to the measurements                                            *)
(***************************************************************************)
Start(sizes, sweeps, draw) ==
  /\ phase \in Between /\ run < MaxRuns
  /\ run' = run + 1
  /\ args' = [sizes |-> sizes, sweeps |-> sweeps, draw |-> draw, chartsOnly |-> FALSE]
  /\ phase' = IF sweeps < 1 THEN "comparing" ELSE "measuring"
  /\ NoMeasurement /\ sweep' = 1 /\ pooled' = <<>>
  /\ compared' = FALSE
  /\ UNCHANGED fileVars

\* --charts-only: without results it says so; load_results raises on half a file.
StartChartsOnly ==
  /\ phase \in Between /\ run < MaxRuns
  /\ run' = run + 1
  /\ args' = [sizes |-> json.sizes, sweeps |-> json.sweeps, draw |-> TRUE, chartsOnly |-> TRUE]
  /\ phase' = CASE json.state = "none" -> "refused"
                [] json.state = "torn" -> "raised"
                [] json.state = "whole" -> "summarising"
  /\ NoMeasurement /\ sweep' = 1 /\ pooled' = json.pooled
  /\ compared' = json.compared
  /\ UNCHANGED fileVars

(***************************************************************************)
(* run_measurements and the measurers                                      *)
(***************************************************************************)
\* (mutant) The budget forgets the warm-up.
Budget_NoWarmUp == Ops * Reps + Slack

\* record_limit of the sender measure_subsystem_protect times.
Budget == Ops * (Reps + 2) + Slack

\* The receivers measure_subsystem_recover builds beforehand.
Receivers == Reps + 2

\* record_limit of the sender that makes the records for it.
RecoverBudget == Ops + Slack

\* The process ends, and what it held in memory with it.
Stops(how) ==
  /\ phase' = how
  /\ NoMeasurement /\ sweep' = 1 /\ pooled' = <<>> /\ compared' = FALSE
  /\ UNCHANGED <<args, run, fileVars>>

\* A measurer is called: it builds what it times.
Prepare ==
  /\ phase = "measuring"
  /\ IF Measurable(Size) /\ (Operation = "recover" => Ops <= RecoverBudget)
     THEN /\ phase' = "batch"
          /\ sender' = IF Operation = "protect" THEN NewManager(Nobody.prefix, 0, Budget)
                       ELSE Nobody
          /\ receivers' = IF Operation = "recover" THEN Receivers ELSE 0
          /\ batch' = 0
          /\ UNCHANGED <<args, run, cell, sweep, left, window, pooled, compared, fileVars>>
     ELSE Stops("raised")

\* (mutant) The batch goes on with the receiver of the one before.
BeginBatch_SameReceiver ==
  /\ phase = "batch"
  /\ batch <= Reps
  /\ IF Operation = "recover" /\ receivers = 0
     THEN Stops("raised")
     ELSE /\ left' = Ops
          /\ phase' = "timing"
          /\ UNCHANGED <<args, run, cell, sweep, batch, sender, receivers, window, pooled,
                         compared, fileVars>>

\* run_batch is called, first for the warm-up: a batch of recover takes the next
\* receiver, and the exhausted iterator would raise.
BeginBatch ==
  /\ phase = "batch"
  /\ batch <= Reps
  /\ IF Operation = "recover" /\ receivers = 0
     THEN Stops("raised")
     ELSE /\ left' = Ops
          /\ phase' = "timing"
          /\ receivers' = IF Operation = "recover" THEN receivers - 1 ELSE receivers
          /\ window' = EmptyWindow
          /\ UNCHANGED <<args, run, cell, sweep, batch, sender, pooled, compared, fileVars>>

\* One operation of the batch: the sender's next record, the receiver's, or a bare
\* AEAD call.
TimeOne ==
  /\ phase = "timing"
  /\ left > 0
  /\ IF Operation = "protect" /\ Exhausted(sender)
     THEN Stops("raised")
     ELSE /\ sender' = IF Operation = "protect" THEN Allocate(sender) ELSE sender
          /\ window' = IF Operation = "recover" THEN WindowCommit(window, Ops - left) ELSE window
          /\ left' = left - 1
          /\ UNCHANGED <<phase, args, run, cell, sweep, batch, receivers, pooled, compared,
                         fileVars>>

EndBatch ==
  /\ phase = "timing"
  /\ left = 0
  /\ batch' = batch + 1
  /\ phase' = "batch"
  /\ UNCHANGED <<args, run, cell, sweep, left, sender, receivers, window, pooled, compared,
                 fileVars>>

Key == <<Suite, Operation, Size>>

\* (mutant) A measurement made again takes the place of the earlier one.
Pooled_Replaced ==
  [k \in DOMAIN pooled \cup {Key} |->
     IF k = Key THEN [samples |-> Reps, batches |-> Reps] ELSE pooled[k]]

\* The samples join those of earlier sweeps of the same measurement.
Pooled ==
  [k \in DOMAIN pooled \cup {Key} |->
     IF k # Key THEN pooled[k]
     ELSE IF k \in DOMAIN pooled
          THEN [samples |-> pooled[k].samples + Reps, batches |-> pooled[k].batches + Reps]
          ELSE [samples |-> Reps, batches |-> Reps]]

\* The measurer returns; the next of the grid, the next sweep, or the end.
Pool ==
  /\ phase = "batch"
  /\ batch = Reps + 1
  /\ pooled' = Pooled
  /\ phase' = IF cell = Cells /\ sweep = args.sweeps THEN "comparing" ELSE "measuring"
  /\ sweep' = IF cell = Cells /\ sweep < args.sweeps THEN sweep + 1 ELSE sweep
  /\ cell' = IF cell = Cells THEN 1 ELSE cell + 1
  /\ batch' = 0 /\ left' = 0 /\ sender' = Nobody /\ receivers' = 0 /\ window' = EmptyWindow
  /\ UNCHANGED <<args, run, compared, fileVars>>

(***************************************************************************)
(* The comparison and the files                                            *)
(***************************************************************************)
\* measure_without_aesni, which may be switched off or give nothing.
Compare(outcome) ==
  /\ phase = "comparing"
  /\ compared' = outcome
  /\ phase' = "opening results"
  /\ UNCHANGED <<args, run, measureVars, fileVars>>

\* write_text truncates the file, then fills it.
OpenResults ==
  /\ phase = "opening results"
  /\ json' = [NoFile EXCEPT !.state = "torn", !.run = run]
  /\ phase' = "writing results"
  /\ UNCHANGED <<args, run, measureVars, compared, summary, charts, aesniChart>>

WriteResults ==
  /\ phase = "writing results"
  /\ json' = [state |-> "whole", run |-> run, pooled |-> pooled, sizes |-> args.sizes,
              sweeps |-> args.sweeps, compared |-> compared]
  /\ phase' = "summarising"
  /\ UNCHANGED <<args, run, measureVars, compared, summary, charts, aesniChart>>

\* (mutant) The summary of --charts-only is left as it is.
WriteSummary_Kept ==
  /\ phase = "summarising"
  /\ IF pooled = <<>>
     THEN Stops("raised")
     ELSE /\ summary' = IF args.chartsOnly THEN summary ELSE json.run
          /\ phase' = IF args.draw THEN "drawing" ELSE "exited"
          /\ UNCHANGED <<args, run, measureVars, compared, json, charts, aesniChart>>

\* write_summary takes the first of the results for the table's heading.
WriteSummary ==
  /\ phase = "summarising"
  /\ IF pooled = <<>>
     THEN Stops("raised")
     ELSE /\ summary' = json.run
          /\ phase' = IF args.draw THEN "drawing" ELSE "exited"
          /\ UNCHANGED <<args, run, measureVars, compared, json, charts, aesniChart>>

\* make_charts, without matplotlib nothing, without a comparison not the last one.
DrawCharts(matplotlib) ==
  /\ phase = "drawing"
  /\ charts' = IF matplotlib THEN json.run ELSE charts
  /\ aesniChart' = IF matplotlib /\ compared THEN json.run ELSE aesniChart
  /\ phase' = "exited"
  /\ UNCHANGED <<args, run, measureVars, compared, json, summary>>

\* The program is interrupted, or the machine stops.
Killed ==
  /\ phase \notin Between
  /\ Stops("killed")

Next ==
  \/ \E sizes \in SizeLists, sweeps \in SweepCounts, draw \in BOOLEAN :
       Start(sizes, sweeps, draw)
  \/ StartChartsOnly
  \/ Prepare \/ BeginBatch \/ TimeOne \/ EndBatch \/ Pool
  \/ \E b \in BOOLEAN : Compare(b) \/ DrawCharts(b)
  \/ OpenResults \/ WriteResults \/ WriteSummary \/ Killed

Spec == Init /\ [][Next]_vars

(***************************************************************************)
(* Properties                                                              *)
(***************************************************************************)
\* "Budget must cover warm-up plus every timed batch" (perf.py:307), and so must
\* the receivers (342): arguments apart, no measurement runs out of either, and a
\* run of the program raises only for sizes and sweeps that measure nothing, or
\* over results that an interrupted or empty run has left.
Usable(sizes, sweeps) == sweeps > 0 /\ \A i \in DOMAIN sizes : Measurable(sizes[i])

RaisesForArgumentsOnly ==
  phase = "raised" => ~ Usable(args.sizes, args.sweeps) \/ json.state = "torn"

\* "every record is seen for the first time" (perf.py:325): what recover times is
\* never the cheap rejection of a duplicate.
TimesOnlyRecoveries ==
  phase = "timing" /\ Operation = "recover" => window.accepted = Ops - left

\* Whatever sizes are named, twice perhaps, and however many sweeps: the results
\* written hold as many samples for a measurement as it was made times Reps, and
\* the divisor's number of batches agrees with them (425-429).
Occurrences(sizes, size) == Cardinality({i \in DOMAIN sizes : sizes[i] = size})

ResultsComplete ==
  json.state = "whole" /\ json.sweeps > 0 =>
    \A i \in DOMAIN json.sizes, s \in {"aes-gcm", "chacha20-poly1305"},
       o \in {"protect", "recover", "seal", "open"} :
      LET k == <<s, o, json.sizes[i]>>
          made == json.sweeps * Reps * Occurrences(json.sizes, json.sizes[i])
      IN  k \in DOMAIN json.pooled /\ json.pooled[k] = [samples |-> made, batches |-> made]

\* "guarantees the regenerated artefacts describe exactly the same run"
\* (perf.py:548-549): wherever earlier runs were interrupted, a run that exits leaves
\* the summary of the results on disk, and no chart is ever newer than they.
ArtefactsOfOneRun ==
  /\ {summary, charts, aesniChart} \subseteq 0 .. json.run
  /\ phase = "exited" => json.state = "whole" /\ summary = json.run
=============================================================================
