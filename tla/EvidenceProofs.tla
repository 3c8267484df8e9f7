---------------------------- MODULE EvidenceProofs ----------------------------
(***************************************************************************)
(* Proofs about the two programs that write evidence/: RunAll, for any     *)
(* number of configurations and demonstrations and whatever the command    *)
(* line says, and Benchmark, for any sizes, sweeps, numbers of operations  *)
(* and sequence of invocations.  In RunAll the invariant keeps two         *)
(* accounts: what is queued, running and noted is one walk along the       *)
(* listed stages, and every failed check is on record in a transcript,     *)
(* written or open.  In Benchmark the grid is walked by one counter from   *)
(* which size, operation and suite are computed with divisions; what is    *)
(* pooled for a measurement is how often the walk has passed it.           *)
(***************************************************************************)
EXTENDS RunAll, Benchmark, SequenceTheorems, FiniteSetTheorems, FunctionTheorems, TLAPS

(***************************************************************************)
(* RunAll: the pipeline                                                    *)
(***************************************************************************)
USE PipelineAssumption

PerfSteps == {"perf", "write results", "write summary", "draw charts"}
StageNames == {"tests", "demos", "network", "analysis", "perf"}
Options == [skipTests : BOOLEAN, skipBench : BOOLEAN]

PipelineTypeOK ==
  /\ options \in Options
  /\ queue \in Seq(StageNames)
  /\ results \in Seq(StageNames \X BOOLEAN)
  /\ child \in {"none"} \cup StageNames \cup PerfSteps
  /\ transcript \in Seq(BOOLEAN)
  /\ current \in [open : BOOLEAN, passed : BOOLEAN]
  /\ allPassed \in BOOLEAN
  /\ exit \in {"running", "0", "1"}
  /\ saved \in [1 .. Configurations -> Seq(BOOLEAN)]
  /\ failed \subseteq (1 .. Configurations) \X (1 .. Demos)

\* A child is the first queued stage, or a later step of perf.
ChildQueued ==
  child # "none" =>
    /\ queue # <<>>
    /\ child = Head(queue) \/ (child \in PerfSteps /\ Head(queue) = "perf")

\* The loop of main stopped where the tests failed.
Stopped == queue = <<>> /\ child = "none" /\ \E i \in DOMAIN results : ~ results[i][2]

\* What was noted and what is queued are the listed stages, in their order.
OnTheWay ==
  /\ Len(results) + Len(queue) = Len(Stages(options))
  /\ \A i \in 1 .. Len(results) : results[i][1] = Stages(options)[i]
  /\ \A i \in 1 .. Len(queue) : queue[i] = Stages(options)[Len(results) + i]

\* No stage follows tests that failed, and no evidence precedes those that pass.
TestsFirst ==
  /\ \A i \in 1 .. Len(results) : results[i] = <<"tests", FALSE>> => queue = <<>>
  /\ TestsGateEvidence

\* The transcripts are written one configuration after the other.
SavedInOrder(k) == \A c \in 1 .. Configurations : saved[c] # <<>> <=> c <= k

\* The open transcript and the open demonstration tell the failed checks of
\* configuration k + 1; there is no failed check after them.
OpenTruthful(k) ==
  /\ Len(transcript) <= Demos
  /\ current.open => Len(transcript) < Demos
  /\ ~ current.open => current.passed
  /\ k < Configurations =>
       /\ \A d \in 1 .. Len(transcript) : transcript[d] <=> <<k + 1, d>> \notin failed
       /\ current.passed <=> <<k + 1, Len(transcript) + 1>> \notin failed
  /\ \A x \in failed : x[1] <= k + 1 /\ (x[1] = k + 1 => x[2] <= Len(transcript) + 1)

\* all_passed knows every failed demonstration of a written transcript, and a
\* demonstration stage that passed has written them all.
OutcomeTruthful(k) ==
  /\ allPassed => \A c \in 1 .. k : \A d \in 1 .. Demos : saved[c][d]
  /\ Ran("demos") => k = Configurations /\ allPassed
  /\ Pending => failed = {}

ExitTruthful ==
  exit = "0" => queue = <<>> /\ child = "none" /\ \A i \in DOMAIN results : results[i][2]

Account(k) == SavedInOrder(k) /\ OpenTruthful(k) /\ OutcomeTruthful(k)

PipelineInv ==
  /\ PipelineTypeOK
  /\ ChildQueued
  /\ Stopped \/ OnTheWay
  /\ TestsFirst
  /\ TranscriptsTruthful
  /\ \E k \in 0 .. Configurations : Account(k)
  /\ ExitTruthful

-----------------------------------------------------------------------------
\* A stage of the concatenation of two lists is one of the first or of the second.
LEMMA ListedOneAfterTheOther ==
  ASSUME NEW S, NEW s \in Seq(S), NEW t \in Seq(S)
  PROVE  /\ s \o t \in Seq(S)
         /\ Len(s \o t) = Len(s) + Len(t)
         /\ \A i \in 1 .. Len(s) : (s \o t)[i] = s[i]
         /\ \A i \in 1 .. Len(t) : (s \o t)[Len(s) + i] = t[i]
         /\ \A i \in 1 .. Len(s \o t) :
              i \in 1 .. Len(s) \/ (i - Len(s) \in 1 .. Len(t) /\ i = Len(s) + (i - Len(s)))
OBVIOUS

\* The listed stages: the tests come first or not at all, the demonstrations
\* are listed exactly if no module is pending.
LEMMA StagesListed ==
  ASSUME NEW o \in Options
  PROVE  /\ Stages(o) \in Seq(StageNames)
         /\ ~ o.skipTests => Len(Stages(o)) > 0 /\ Stages(o)[1] = "tests"
         /\ o.skipTests => \A i \in 1 .. Len(Stages(o)) : Stages(o)[i] # "tests"
         /\ \A i \in 1 .. Len(Stages(o)) : Stages(o)[i] = "tests" => i = 1
         /\ Pending => \A i \in 1 .. Len(Stages(o)) : Stages(o)[i] # "demos"
         /\ ~ Pending => \E i \in 1 .. Len(Stages(o)) : Stages(o)[i] = "demos"
<1> DEFINE a == IF o.skipTests THEN <<>> ELSE <<"tests">>
           b == IF Pending THEN <<>> ELSE <<"demos", "network">>
           c == <<"analysis">>
           d == IF o.skipBench \/ Pending THEN <<>> ELSE <<"perf">>
           ab == a \o b
           abc == ab \o c
           abcd == abc \o d
<1>1. Stages(o) = abcd
  BY DEF Stages
<1>2. /\ <<>> \in Seq(StageNames) /\ <<"tests">> \in Seq(StageNames)
      /\ <<"demos", "network">> \in Seq(StageNames)
      /\ <<"analysis">> \in Seq(StageNames) /\ <<"perf">> \in Seq(StageNames)
  BY DEF StageNames
<1>3. /\ a \in Seq(StageNames)
      /\ o.skipTests => Len(a) = 0
      /\ ~ o.skipTests => Len(a) = 1 /\ a[1] = "tests"
  BY <1>2
<1>4. /\ b \in Seq(StageNames)
      /\ Pending => Len(b) = 0
      /\ ~ Pending => Len(b) = 2 /\ b[1] = "demos" /\ b[2] = "network"
  BY <1>2
<1>5. c \in Seq(StageNames) /\ Len(c) = 1 /\ c[1] = "analysis"
  BY <1>2
<1>6. d \in Seq(StageNames) /\ (Len(d) = 0 \/ (Len(d) = 1 /\ d[1] = "perf"))
  BY <1>2
<1> HIDE DEF a, b, c, d
<1>7. /\ ab \in Seq(StageNames)
      /\ Len(ab) = Len(a) + Len(b)
      /\ \A i \in 1 .. Len(a) : ab[i] = a[i]
      /\ \A i \in 1 .. Len(b) : ab[Len(a) + i] = b[i]
  BY <1>3, <1>4, ListedOneAfterTheOther
<1> HIDE DEF ab
<1>8. /\ abc \in Seq(StageNames)
      /\ Len(abc) = Len(ab) + 1
      /\ \A i \in 1 .. Len(ab) : abc[i] = ab[i]
      /\ abc[Len(ab) + 1] = "analysis"
  <2>1. /\ abc \in Seq(StageNames)
        /\ Len(abc) = Len(ab) + Len(c)
        /\ \A i \in 1 .. Len(ab) : abc[i] = ab[i]
        /\ \A i \in 1 .. Len(c) : abc[Len(ab) + i] = c[i]
    <3>1. ab \in Seq(StageNames) /\ c \in Seq(StageNames)
      BY <1>5, <1>7
    <3> QED
      BY ONLY <3>1, ListedOneAfterTheOther
  <2> QED
    BY <2>1, <1>5
<1> HIDE DEF abc
<1>9. /\ abcd \in Seq(StageNames)
      /\ Len(abcd) = Len(abc) + Len(d)
      /\ \A i \in 1 .. Len(abc) : abcd[i] = abc[i]
      /\ \A i \in 1 .. Len(d) : abcd[Len(abc) + i] = d[i]
  BY <1>6, <1>8, ListedOneAfterTheOther
<1> HIDE DEF abcd
<1> DEFINE la == Len(a)
           lb == Len(b)
           ld == Len(d)
<1>10. /\ la \in {0, 1} /\ (la = 0 <=> o.skipTests)
       /\ lb \in {0, 2} /\ (lb = 0 <=> Pending)
       /\ ld \in {0, 1}
  BY <1>3, <1>4, <1>6 DEF Options
<1>11. /\ la = 1 => abcd[1] = "tests"
       /\ lb = 2 => abcd[la + 1] = "demos" /\ abcd[la + 2] = "network"
       /\ abcd[la + lb + 1] = "analysis"
       /\ ld = 1 => abcd[la + lb + 2] = "perf"
       /\ Len(abcd) = la + lb + 1 + ld
  <2>1. Len(ab) = la + lb /\ Len(abc) = la + lb + 1 /\ Len(abcd) = la + lb + 1 + ld
    BY <1>7, <1>8, <1>9, <1>10
  <2>2. la = 1 => abcd[1] = "tests"
    BY <2>1, <1>3, <1>7, <1>8, <1>9, <1>10
  <2>3. ASSUME lb = 2 PROVE abcd[la + 1] = "demos" /\ abcd[la + 2] = "network"
    <3>1. ab[la + 1] = "demos" /\ ab[la + 2] = "network"
      BY <2>3, <1>4, <1>7, <1>10
    <3>2. la + 1 \in 1 .. Len(ab) /\ la + 2 \in 1 .. Len(ab)
      BY <2>1, <2>3, <1>10
    <3>3. la + 1 \in 1 .. Len(abc) /\ la + 2 \in 1 .. Len(abc)
      BY <2>1, <2>3, <1>10
    <3> QED
      BY <3>1, <3>2, <3>3, <1>8, <1>9
  <2>4. abcd[la + lb + 1] = "analysis"
    <3>1. la + lb + 1 \in 1 .. Len(abc)
      BY <2>1, <1>10
    <3> QED
      BY <3>1, <2>1, <1>8, <1>9
  <2>5. ASSUME ld = 1 PROVE abcd[la + lb + 2] = "perf"
    <3>1. 1 \in 1 .. Len(d) /\ Len(abc) + 1 = la + lb + 2
      BY <2>1, <2>5, <1>10
    <3> QED
      BY <3>1, <2>5, <1>6, <1>9
  <2> QED
    BY <2>1, <2>2, <2>3, <2>4, <2>5
<1> HIDE DEF la, lb, ld
<1>12. ASSUME NEW i \in 1 .. Len(abcd)
       PROVE  \/ i = 1 /\ la = 1
              \/ abcd[i] \in {"demos", "network"} /\ lb = 2
              \/ abcd[i] \in {"analysis", "perf"}
  BY <1>10, <1>11
<1>13. Len(abcd) > 0 /\ (lb = 2 => la + 1 \in 1 .. Len(abcd))
  BY <1>10, <1>11
<1> QED
  BY <1>1, <1>9, <1>10, <1>11, <1>12, <1>13 DEF Options

\* What a noted stage is known by.
LEMMA NotedStage ==
  ASSUME NEW x \in StageNames \X BOOLEAN, NEW s
  PROVE  /\ x = <<s, TRUE>> <=> x[1] = s /\ x[2]
         /\ x = <<s, FALSE>> <=> x[1] = s /\ ~ x[2]
<1>1. PICK a \in StageNames, b \in BOOLEAN : x = <<a, b>>
  OBVIOUS
<1>2. x[1] = a /\ x[2] = b
  BY <1>1
<1>3. CASE b = TRUE
  BY <1>1, <1>2, <1>3
<1>4. CASE b = FALSE
  BY <1>1, <1>2, <1>4
<1> QED
  BY <1>3, <1>4

\* The configuration being demonstrated is the one after those written.
LEMMA ConfigurationNext ==
  ASSUME PipelineTypeOK, NEW k \in 0 .. Configurations, SavedInOrder(k)
  PROVE  Configuration = k + 1
<1> DEFINE Unsaved(c) == /\ c \in DOMAIN saved => saved[c] = <<>>
                         /\ \A d \in 1 .. c - 1 : saved[d] # <<>>
<1>1. DOMAIN saved = 1 .. Configurations
  BY DEF PipelineTypeOK
<1>2. k + 1 \in 1 .. Configurations + 1 /\ Unsaved(k + 1)
  BY <1>1 DEF SavedInOrder
<1>3. ASSUME NEW c \in 1 .. Configurations + 1, Unsaved(c)
      PROVE  c = k + 1
  <2>1. CASE c <= k
    BY <1>1, <1>3, <2>1 DEF SavedInOrder
  <2>2. CASE c > k + 1
    <3>1. k + 1 \in 1 .. c - 1 /\ k + 1 \in 1 .. Configurations
      BY <2>2
    <3> QED
      BY <1>3, <3>1 DEF SavedInOrder
  <2> QED
    BY <2>1, <2>2
<1> QED
  BY <1>2, <1>3 DEF Configuration

\* While a child runs its stage is the next of the listed ones, tests that were
\* to run have passed, and the exit code is open.
LEMMA RunningStage ==
  ASSUME PipelineInv, child # "none"
  PROVE  /\ queue # <<>> /\ OnTheWay /\ exit # "0"
         /\ Head(queue) \in StageNames
         /\ Head(queue) = IF child \in PerfSteps THEN "perf" ELSE child
         /\ child # "tests" => options.skipTests \/ Ran("tests")
         /\ child = "demos" => ~ Pending
<1>1. queue # <<>> /\ OnTheWay /\ exit # "0" /\ PipelineTypeOK
  BY DEF PipelineInv, ChildQueued, Stopped, ExitTruthful
<1>2. /\ Head(queue) \in StageNames
      /\ Head(queue) = IF child \in PerfSteps THEN "perf" ELSE child
  <2>1. Head(queue) \in StageNames
    BY <1>1 DEF PipelineTypeOK
  <2>2. child = Head(queue) \/ (child \in PerfSteps /\ Head(queue) = "perf")
    BY DEF PipelineInv, ChildQueued
  <2> QED
    BY <2>1, <2>2 DEF PerfSteps, StageNames
<1>3. /\ Len(results) + 1 \in 1 .. Len(Stages(options))
      /\ Head(queue) = Stages(options)[Len(results) + 1]
  <2>1. Len(queue) > 0 /\ Head(queue) = queue[1] /\ Len(results) \in Nat
    BY <1>1 DEF PipelineTypeOK
  <2> QED
    BY <1>1, <2>1 DEF OnTheWay, PipelineTypeOK
<1>4. child = "demos" => ~ Pending
  BY <1>1, <1>2, <1>3, StagesListed DEF PipelineTypeOK, PerfSteps
<1>5. ASSUME child # "tests", ~ options.skipTests
      PROVE  Ran("tests")
  <2>1. Head(queue) # "tests"
    BY <1>2, <1>5
  <2>2. Stages(options)[1] = "tests" /\ Len(results) \in Nat
    BY <1>1, <1>5, StagesListed DEF PipelineTypeOK
  <2>3. Len(results) # 0
    BY <1>3, <2>1, <2>2
  <2>4. 1 \in 1 .. Len(results) /\ results[1][1] = "tests" /\ results[1] \in StageNames \X BOOLEAN
    BY <1>1, <2>2, <2>3 DEF OnTheWay, PipelineTypeOK
  <2>5. results[1] # <<"tests", FALSE>>
    BY <1>1, <2>4 DEF PipelineInv, TestsFirst
  <2>6. results[1] = <<"tests", TRUE>>
    <3>1. /\ results[1] = <<"tests", TRUE>> <=> results[1][1] = "tests" /\ results[1][2]
          /\ results[1] = <<"tests", FALSE>> <=> results[1][1] = "tests" /\ ~ results[1][2]
      BY <2>4, NotedStage
    <3> QED
      BY <2>4, <2>5, <3>1
  <2>7. 1 \in DOMAIN results
    BY <1>1, <2>4 DEF PipelineTypeOK
  <2> QED
    BY <2>6, <2>7 DEF Ran
<1> QED
  BY <1>1, <1>2, <1>4, <1>5

LEMMA InitPipeline == PipelineInit => PipelineInv
<1> SUFFICES ASSUME PipelineInit PROVE PipelineInv
  OBVIOUS
<1>1. Stages(options) \in Seq(StageNames)
  BY StagesListed DEF PipelineInit, Options
<1>2. PipelineTypeOK
  BY <1>1 DEF PipelineInit, PipelineTypeOK, Options, NoDemo, StageNames
<1>3. OnTheWay
  BY <1>1 DEF PipelineInit, OnTheWay
<1>4. Account(0)
  BY <1>1 DEF PipelineInit, Account, SavedInOrder, OpenTruthful, OutcomeTruthful, NoDemo, Ran
<1>5. TranscriptsTruthful /\ TestsFirst /\ ChildQueued /\ ExitTruthful
  BY DEF PipelineInit, TranscriptsTruthful, TestsFirst, TestsGateEvidence, ChildQueued, ExitTruthful
<1>6. 0 \in 0 .. Configurations
  OBVIOUS
<1> QED
  BY <1>2, <1>3, <1>4, <1>5, <1>6 DEF PipelineInv

\* The end of a stage, whatever else its action did to the evidence files.
LEMMA StageEnds ==
  ASSUME PipelineInv, NEW ok \in BOOLEAN, child # "none", ChildExits(ok),
         UNCHANGED <<demoVars, saved, failed>>,
         fresh' # fresh => child # "tests",
         NEW k \in 0 .. Configurations, Account(k),
         child = "demos" /\ ok => k = Configurations /\ allPassed
  PROVE  PipelineInv'
<1>1. /\ queue # <<>> /\ OnTheWay /\ exit # "0" /\ PipelineTypeOK
      /\ Head(queue) \in StageNames
      /\ Head(queue) = IF child \in PerfSteps THEN "perf" ELSE child
      /\ child # "tests" => options.skipTests \/ Ran("tests")
  BY RunningStage DEF PipelineInv
<1>2. PipelineTypeOK'
  BY <1>1 DEF PipelineTypeOK, ChildExits, demoVars, StageNames
<1>3. /\ Len(results') = Len(results) + 1
      /\ \A i \in 1 .. Len(results) : results'[i] = results[i]
      /\ results'[Len(results) + 1][1] = Head(queue)
      /\ results'[Len(results) + 1][2] = ok
      /\ Len(results) \in Nat
      /\ DOMAIN results = 1 .. Len(results) /\ DOMAIN results' = 1 .. Len(results) + 1
  BY <1>1 DEF PipelineTypeOK, ChildExits
<1>4. ASSUME Head(queue) = "tests", ~ ok PROVE Stopped'
  <2>1. queue' = <<>> /\ child' = "none"
    BY <1>4 DEF ChildExits
  <2>2. Len(results) + 1 \in DOMAIN results' /\ ~ results'[Len(results) + 1][2]
    BY <1>3, <1>4
  <2> QED
    BY <2>1, <2>2 DEF Stopped
<1>5. ASSUME ~ (Head(queue) = "tests" /\ ~ ok) PROVE OnTheWay'
  <2>1. /\ Len(queue') = Len(queue) - 1
        /\ \A i \in 1 .. Len(queue') : queue'[i] = queue[i + 1]
        /\ Head(queue) = queue[1] /\ Len(queue) \in Nat \ {0}
    BY <1>1, <1>5 DEF PipelineTypeOK, ChildExits
  <2>2. UNCHANGED options
    BY DEF ChildExits
  <2>3. Stages(options)' = Stages(options)
    BY <2>2 DEF Stages
  <2>4. \A i \in 1 .. Len(results') : results'[i][1] = Stages(options)[i]
    BY <1>1, <1>3, <2>1 DEF OnTheWay
  <2>5. \A i \in 1 .. Len(queue') : queue'[i] = Stages(options)[Len(results') + i]
    <3> SUFFICES ASSUME NEW i \in 1 .. Len(queue')
                 PROVE  queue'[i] = Stages(options)[Len(results') + i]
      OBVIOUS
    <3>1. i + 1 \in 1 .. Len(queue) /\ queue'[i] = queue[i + 1]
      BY <2>1
    <3>2. Len(results) + (i + 1) = Len(results') + i
      BY <1>3
    <3> QED
      BY <1>1, <3>1, <3>2 DEF OnTheWay
  <2>6. Len(results') + Len(queue') = Len(Stages(options))
    <3>1. Len(results) + Len(queue) = Len(Stages(options)) /\ Len(results) \in Nat
      BY <1>1, <1>3 DEF OnTheWay
    <3> QED
      <4>1. Len(results') = Len(results) + 1
        BY <1>3
      <4>2. Len(queue') = Len(queue) - 1 /\ Len(queue) \in Nat
        BY <2>1
      <4> QED
        BY ONLY <3>1, <4>1, <4>2
  <2> QED
    BY <2>3, <2>4, <2>5, <2>6 DEF OnTheWay
<1>6. \A s \in StageNames : Ran(s)' <=> Ran(s) \/ (s = Head(queue) /\ ok)
  <2> SUFFICES ASSUME NEW s \in StageNames
               PROVE  Ran(s)' <=> Ran(s) \/ (s = Head(queue) /\ ok)
    OBVIOUS
  <2>1. /\ \A i \in DOMAIN results : results[i] \in StageNames \X BOOLEAN
        /\ \A i \in DOMAIN results' : results'[i] \in StageNames \X BOOLEAN
    BY <1>1, <1>2 DEF PipelineTypeOK
  <2>2. /\ Ran(s) <=> \E i \in 1 .. Len(results) : results[i][1] = s /\ results[i][2]
        /\ Ran(s)' <=> \E i \in 1 .. Len(results) + 1 :
                         results'[i][1] = s /\ results'[i][2]
    <3>1. \A i \in DOMAIN results :
            results[i] = <<s, TRUE>> <=> results[i][1] = s /\ results[i][2]
      BY <2>1, NotedStage
    <3>2. \A i \in DOMAIN results' :
            results'[i] = <<s, TRUE>> <=> results'[i][1] = s /\ results'[i][2]
      BY <2>1, NotedStage
    <3> QED
      BY <1>3, <3>1, <3>2 DEF Ran
  <2>3. \A i \in 1 .. Len(results) + 1 : i \in 1 .. Len(results) \/ i = Len(results) + 1
    BY <1>3
  <2>4. 1 .. Len(results) \subseteq 1 .. Len(results) + 1
        /\ Len(results) + 1 \in 1 .. Len(results) + 1
    BY <1>3
  <2> QED
    BY <1>3, <2>2, <2>3, <2>4
<1>7. TestsFirst'
  <2>1. ASSUME NEW i \in 1 .. Len(results'), results'[i] = <<"tests", FALSE>>
        PROVE  queue' = <<>>
    <3>1. CASE i \in 1 .. Len(results)
      BY <1>1, <1>3, <2>1, <3>1 DEF PipelineInv, TestsFirst
    <3>2. CASE i = Len(results) + 1
      <4>1. results'[i] \in StageNames \X BOOLEAN
        BY <1>2 DEF PipelineTypeOK
      <4>2. Head(queue) = "tests" /\ ~ ok
        <5>1. results'[i] = <<"tests", FALSE>>
                <=> results'[i][1] = "tests" /\ ~ results'[i][2]
          BY <4>1, NotedStage
        <5> QED
          BY <1>3, <2>1, <3>2, <5>1
      <4> QED
        BY <4>2 DEF ChildExits
    <3> QED
      BY <1>3, <3>1, <3>2
  <2>2. ASSUME fresh' # {} PROVE options.skipTests \/ Ran("tests")'
    <3>1. options.skipTests \/ Ran("tests")
      BY <1>1, <2>2 DEF PipelineInv, TestsFirst, TestsGateEvidence
    <3> QED
      BY <3>1, <1>6 DEF StageNames
  <2> QED
    BY <2>1, <2>2 DEF TestsFirst, TestsGateEvidence, ChildExits
<1>8. Account(k)'
  <2>1. Ran("demos")' => k = Configurations /\ allPassed
    BY <1>1, <1>6 DEF Account, OutcomeTruthful, StageNames, PerfSteps
  <2> QED
    BY <2>1 DEF Account, SavedInOrder, OpenTruthful, OutcomeTruthful, demoVars
<1>9. TranscriptsTruthful' /\ ChildQueued' /\ ExitTruthful'
  BY <1>1 DEF PipelineInv, TranscriptsTruthful, ChildQueued, ExitTruthful, ChildExits
<1> QED
  <2>1. (Stopped \/ OnTheWay)'
    BY <1>4, <1>5
  <2> QED
    BY <1>2, <1>7, <1>8, <1>9, <2>1 DEF PipelineInv

\* A step of a demonstration: the stages stand still, no file is written by it
\* but a transcript, and the account of the failed checks is given separately.
LEMMA DemonstrationStep ==
  ASSUME PipelineInv, InDemos, NEW k \in 0 .. Configurations,
         UNCHANGED <<options, queue, results, child, exit>>,
         PipelineTypeOK', TranscriptsTruthful', Account(k)'
  PROVE  PipelineInv'
<1>1. OnTheWay /\ exit # "0" /\ (options.skipTests \/ Ran("tests")) /\ child # "none"
  BY RunningStage DEF InDemos
<1>2. OnTheWay' /\ ChildQueued' /\ ExitTruthful'
  <2>1. Stages(options)' = Stages(options)
    BY DEF Stages
  <2>2. OnTheWay'
    BY <1>1, <2>1 DEF OnTheWay
  <2> QED
    BY <1>1, <2>2 DEF PipelineInv, ChildQueued, ExitTruthful
<1>3. TestsFirst'
  BY <1>1 DEF PipelineInv, TestsFirst, TestsGateEvidence, Ran
<1> QED
  BY <1>2, <1>3 DEF PipelineInv

\* The account of configuration k + 1 while a demonstration runs.
LEMMA InDemosFacts ==
  ASSUME PipelineInv, InDemos, NEW k \in 0 .. Configurations, Account(k)
  PROVE  /\ Configuration = k + 1 /\ k < Configurations
         /\ k + 1 \in 1 .. Configurations /\ Len(transcript) \in Nat
         /\ \A d \in 1 .. Len(transcript) : transcript[d] <=> <<k + 1, d>> \notin failed
         /\ current.passed <=> <<k + 1, Len(transcript) + 1>> \notin failed
         /\ ~ Pending /\ ~ Ran("demos") /\ PipelineTypeOK
<1>1. PipelineTypeOK /\ child = "demos" /\ child # "none"
  BY DEF PipelineInv, InDemos
<1>2. Configuration = k + 1
  BY <1>1, ConfigurationNext DEF Account
<1>3. k < Configurations
  BY <1>2 DEF InDemos
<1> QED
  BY <1>1, <1>2, <1>3, RunningStage DEF Account, OpenTruthful, OutcomeTruthful, PipelineTypeOK

LEMMA BeginPipeline == ASSUME PipelineInv, Begin PROVE PipelineInv'
<1>1. PICK k \in 0 .. Configurations : Account(k)
  BY DEF PipelineInv
<1>2. InDemos /\ ~ current.open /\ Len(transcript) < Demos
      /\ current' = [open |-> TRUE, passed |-> TRUE]
  BY DEF Begin
<1>3. PipelineTypeOK' /\ TranscriptsTruthful'
  BY <1>2 DEF PipelineInv, PipelineTypeOK, TranscriptsTruthful, Begin
<1>4. Account(k)'
  <2>1. current.passed /\ current'.passed /\ current'.open
    BY <1>1, <1>2 DEF Account, OpenTruthful
  <2>2. OpenTruthful(k)'
    BY <1>1, <1>2, <2>1 DEF Begin, Account, OpenTruthful
  <2>3. SavedInOrder(k)' /\ OutcomeTruthful(k)'
    BY <1>1 DEF Begin, Account, SavedInOrder, OutcomeTruthful, Ran
  <2> QED
    BY <2>2, <2>3 DEF Account
<1> QED
  BY <1>2, <1>3, <1>4, DemonstrationStep DEF Begin

LEMMA CheckPipeline ==
  ASSUME PipelineInv, NEW condition \in BOOLEAN, Check(condition)
  PROVE  PipelineInv'
<1>1. PICK k \in 0 .. Configurations : Account(k)
  BY DEF PipelineInv
<1> DEFINE at == <<k + 1, Len(transcript) + 1>>
<1>2. InDemos /\ current.open
  BY DEF Check
<1>3. /\ Configuration = k + 1 /\ k + 1 \in 1 .. Configurations /\ PipelineTypeOK
      /\ Len(transcript) + 1 \in 1 .. Demos /\ Len(transcript) \in Nat
      /\ ~ Pending /\ ~ Ran("demos")
  BY <1>1, <1>2, InDemosFacts DEF Account, OpenTruthful
<1>4. /\ condition => failed' = failed
      /\ ~ condition => failed' = failed \cup {at}
      /\ current'.open /\ (current'.passed <=> current.passed /\ condition)
      /\ current' \in [open : BOOLEAN, passed : BOOLEAN]
  BY <1>2, <1>3 DEF Check, PipelineTypeOK
<1>5. \A x \in failed' : x \in failed \/ x = at
  BY <1>4
<1>6. PipelineTypeOK'
  <2>1. failed' \subseteq (1 .. Configurations) \X (1 .. Demos)
    BY <1>3, <1>5 DEF PipelineTypeOK
  <2> QED
    BY <1>3, <1>4, <2>1 DEF PipelineTypeOK, Check
<1>7. TranscriptsTruthful'
  <2>1. \A c \in 1 .. Configurations, d \in 1 .. Demos :
          saved[c] # <<>> => (<<c, d>> \notin failed' <=> <<c, d>> \notin failed)
    BY <1>1, <1>4 DEF Account, SavedInOrder
  <2> QED
    BY <2>1 DEF PipelineInv, TranscriptsTruthful, Check
<1>8. OpenTruthful(k)'
  <2>1. \A d \in 1 .. Len(transcript) : <<k + 1, d>> \notin failed' <=> <<k + 1, d>> \notin failed
    BY <1>3, <1>4
  <2>2. at \notin failed' <=> at \notin failed /\ condition
    BY <1>4
  <2>3. current.passed <=> at \notin failed
    BY <1>1, <1>2, InDemosFacts
  <2>4. current'.passed <=> at \notin failed'
    BY <1>4, <2>2, <2>3
  <2>5. \A x \in failed' : x[1] <= k + 1 /\ (x[1] = k + 1 => x[2] <= Len(transcript) + 1)
    BY <1>1, <1>3, <1>5 DEF Account, OpenTruthful
  <2> QED
    BY <1>1, <1>3, <1>4, <2>1, <2>4, <2>5 DEF Account, OpenTruthful, Check
<1>9. Account(k)'
  BY <1>1, <1>3, <1>8 DEF Account, SavedInOrder, OutcomeTruthful, Ran, Check
<1> QED
  BY <1>2, <1>6, <1>7, <1>9, DemonstrationStep DEF Check

LEMMA EndPipeline == ASSUME PipelineInv, End PROVE PipelineInv'
<1>1. PICK k \in 0 .. Configurations : Account(k)
  BY DEF PipelineInv
<1>2. InDemos /\ current.open
  BY DEF End
<1>3. /\ k + 1 \in 1 .. Configurations /\ k < Configurations /\ PipelineTypeOK
      /\ Len(transcript) < Demos /\ Len(transcript) \in Nat
      /\ ~ Pending /\ ~ Ran("demos") /\ current.passed \in BOOLEAN
      /\ \A d \in 1 .. Len(transcript) : transcript[d] <=> <<k + 1, d>> \notin failed
      /\ current.passed <=> <<k + 1, Len(transcript) + 1>> \notin failed
  BY <1>1, <1>2, InDemosFacts DEF Account, OpenTruthful, PipelineTypeOK
<1>4. /\ Len(transcript') = Len(transcript) + 1
      /\ \A d \in 1 .. Len(transcript) : transcript'[d] = transcript[d]
      /\ transcript'[Len(transcript) + 1] = current.passed
      /\ transcript' \in Seq(BOOLEAN)
  BY <1>3 DEF End, PipelineTypeOK
<1>5. PipelineTypeOK' /\ TranscriptsTruthful'
  BY <1>3, <1>4 DEF PipelineInv, PipelineTypeOK, TranscriptsTruthful, End, NoDemo
<1>6. OpenTruthful(k)'
  <2>1. \A d \in 1 .. Len(transcript') : transcript'[d] <=> <<k + 1, d>> \notin failed
    BY <1>3, <1>4
  <2>2. \A x \in failed : x[1] <= k + 1 /\ (x[1] = k + 1 => x[2] <= Len(transcript) + 1)
    BY <1>1 DEF Account, OpenTruthful
  <2>3. <<k + 1, Len(transcript') + 1>> \notin failed
    BY <1>3, <1>4, <2>2
  <2>4. \A x \in failed : x[1] = k + 1 => x[2] <= Len(transcript') + 1
    BY <1>3, <1>4, <2>2 DEF PipelineTypeOK
  <2>5. current' = NoDemo /\ failed' = failed /\ Len(transcript') <= Demos
    BY <1>3, <1>4 DEF End
  <2> QED
    BY <2>1, <2>2, <2>3, <2>4, <2>5 DEF OpenTruthful, NoDemo
<1>7. Account(k)'
  BY <1>1, <1>3, <1>6 DEF Account, SavedInOrder, OutcomeTruthful, Ran, End
<1> QED
  BY <1>2, <1>5, <1>7, DemonstrationStep DEF End

LEMMA SavePipeline == ASSUME PipelineInv, Save PROVE PipelineInv'
<1>1. PICK k \in 0 .. Configurations : Account(k)
  BY DEF PipelineInv
<1>2. InDemos /\ ~ current.open /\ Len(transcript) = Demos
  BY DEF Save
<1>3. /\ Configuration = k + 1 /\ k + 1 \in 1 .. Configurations /\ k < Configurations
      /\ PipelineTypeOK /\ ~ Pending /\ ~ Ran("demos") /\ child = "demos"
      /\ \A d \in 1 .. Demos : transcript[d] <=> <<k + 1, d>> \notin failed
      /\ transcript # <<>> /\ DOMAIN transcript = 1 .. Demos
  <2>1. /\ Configuration = k + 1 /\ k + 1 \in 1 .. Configurations /\ k < Configurations
        /\ PipelineTypeOK /\ ~ Pending /\ ~ Ran("demos")
        /\ \A d \in 1 .. Len(transcript) : transcript[d] <=> <<k + 1, d>> \notin failed
    BY <1>1, <1>2, InDemosFacts
  <2>2. transcript # <<>> /\ DOMAIN transcript = 1 .. Demos
    BY <1>2, <2>1 DEF PipelineTypeOK
  <2> QED
    BY <1>2, <2>1, <2>2 DEF InDemos
<1>4. /\ saved'[k + 1] = transcript
      /\ \A c \in 1 .. Configurations : c # k + 1 => saved'[c] = saved[c]
      /\ DOMAIN saved' = 1 .. Configurations
  BY <1>3 DEF Save, PipelineTypeOK
<1>5. PipelineTypeOK'
  <2>1. saved' \in [1 .. Configurations -> Seq(BOOLEAN)]
    BY <1>3 DEF Save, PipelineTypeOK
  <2>2. transcript' \in Seq(BOOLEAN) /\ allPassed' \in BOOLEAN
    BY DEF Save
  <2> QED
    BY <1>3, <2>1, <2>2 DEF Save, PipelineTypeOK
<1>6. TranscriptsTruthful'
  <2> SUFFICES ASSUME NEW c \in 1 .. Configurations, saved'[c] # <<>>
               PROVE  /\ Len(saved'[c]) = Demos
                      /\ \A d \in 1 .. Demos : saved'[c][d] <=> <<c, d>> \notin failed
    BY DEF TranscriptsTruthful, Save
  <2>1. CASE c = k + 1
    BY <1>2, <1>3, <1>4, <2>1
  <2>2. CASE c # k + 1
    BY <1>4, <2>2 DEF PipelineInv, TranscriptsTruthful
  <2> QED
    BY <2>1, <2>2
<1>7. SavedInOrder(k + 1)'
  BY <1>1, <1>3, <1>4 DEF Account, SavedInOrder
<1>8. OpenTruthful(k + 1)'
  <2>1. transcript' = <<>> /\ UNCHANGED <<current, failed>> /\ Len(transcript') = 0
    BY DEF Save
  <2>2. current.passed
    BY <1>1, <1>2 DEF Account, OpenTruthful
  <2>3. \A x \in failed : x[1] <= k + 1 /\ x[1] \in Int
    BY <1>1, <1>3 DEF Account, OpenTruthful, PipelineTypeOK
  <2>4. <<k + 2, 1>> \notin failed
    BY <2>3
  <2> QED
    BY <1>2, <2>1, <2>2, <2>3, <2>4 DEF OpenTruthful
<1>9. OutcomeTruthful(k + 1)'
  <2>1. ASSUME allPassed', NEW c \in 1 .. k + 1, NEW d \in 1 .. Demos
        PROVE  saved'[c][d]
    <3>1. CASE c = k + 1
      BY <1>3, <1>4, <2>1, <3>1 DEF Save
    <3>2. CASE c # k + 1
      <4>1. c \in 1 .. k /\ c \in 1 .. Configurations
        BY <3>2
      <4> QED
        BY <1>1, <1>4, <2>1, <3>2, <4>1 DEF Save, Account, OutcomeTruthful
    <3> QED
      BY <3>1, <3>2
  <2> QED
    BY <1>3, <2>1 DEF OutcomeTruthful, Ran, Save
<1>10. Account(k + 1)' /\ k + 1 \in 0 .. Configurations
  BY <1>3, <1>7, <1>8, <1>9 DEF Account
<1> QED
  BY <1>2, <1>5, <1>6, <1>10, DemonstrationStep DEF Save

LEMMA LaunchPipeline == ASSUME PipelineInv, Launch PROVE PipelineInv'
<1>1. queue # <<>> /\ child' = Head(queue) /\ OnTheWay
  BY DEF Launch, PipelineInv, Stopped
<1>2. PipelineTypeOK'
  BY <1>1 DEF PipelineInv, PipelineTypeOK, Launch, demoVars
<1>3. OnTheWay' /\ ChildQueued'
  BY <1>1 DEF Launch, OnTheWay, ChildQueued, Stages
<1>4. TestsFirst' /\ TranscriptsTruthful' /\ ExitTruthful'
  BY <1>1 DEF Launch, demoVars, PipelineInv, TestsFirst, TestsGateEvidence, Ran,
              TranscriptsTruthful, ExitTruthful
<1>5. \A k \in 0 .. Configurations : Account(k) => Account(k)'
  BY DEF Launch, demoVars, Account, SavedInOrder, OpenTruthful, OutcomeTruthful, Ran
<1> QED
  BY <1>2, <1>3, <1>4, <1>5 DEF PipelineInv

LEMMA FinishPipeline == ASSUME PipelineInv, Finish PROVE PipelineInv'
<1>1. PipelineTypeOK'
  BY DEF PipelineInv, PipelineTypeOK, Finish, demoVars
<1>2. (Stopped \/ OnTheWay)' /\ ChildQueued'
  BY DEF Finish, PipelineInv, Stopped, OnTheWay, ChildQueued, Stages
<1>3. TestsFirst' /\ TranscriptsTruthful' /\ ExitTruthful'
  BY DEF Finish, demoVars, PipelineInv, TestsFirst, TestsGateEvidence, Ran,
         TranscriptsTruthful, ExitTruthful
<1>4. \A k \in 0 .. Configurations : Account(k) => Account(k)'
  BY DEF Finish, demoVars, Account, SavedInOrder, OpenTruthful, OutcomeTruthful, Ran
<1> QED
  BY <1>1, <1>2, <1>3, <1>4 DEF PipelineInv

\* A step of perf before its last one.
LEMMA PerfStep ==
  ASSUME PipelineInv, child \in PerfSteps, child' \in PerfSteps,
         UNCHANGED <<options, queue, results, demoVars, exit, saved, failed>>
  PROVE  PipelineInv'
<1>1. /\ OnTheWay /\ queue # <<>> /\ exit # "0" /\ Head(queue) = "perf"
      /\ options.skipTests \/ Ran("tests")
  BY RunningStage DEF PerfSteps
<1>2. PipelineTypeOK'
  BY DEF PipelineInv, PipelineTypeOK, demoVars
<1>3. OnTheWay' /\ ChildQueued'
  BY <1>1 DEF OnTheWay, ChildQueued, Stages
<1>4. TestsFirst' /\ TranscriptsTruthful' /\ ExitTruthful'
  BY <1>1 DEF demoVars, PipelineInv, TestsFirst, TestsGateEvidence, Ran,
              TranscriptsTruthful, ExitTruthful
<1>5. \A k \in 0 .. Configurations : Account(k) => Account(k)'
  BY DEF demoVars, Account, SavedInOrder, OpenTruthful, OutcomeTruthful, Ran
<1> QED
  BY <1>2, <1>3, <1>4, <1>5 DEF PipelineInv

LEMMA NextPipeline == PipelineInv /\ [PipelineNext]_pipelineVars => PipelineInv'
<1> SUFFICES ASSUME PipelineInv, [PipelineNext]_pipelineVars PROVE PipelineInv'
  OBVIOUS
<1>1. PICK k \in 0 .. Configurations : Account(k)
  BY DEF PipelineInv
<1>2. PipelineTypeOK
  BY DEF PipelineInv
<1>3. CASE Launch
  BY <1>3, LaunchPipeline
<1>4. CASE Finish
  BY <1>4, FinishPipeline
<1>5. ASSUME NEW ok \in BOOLEAN, PlainStage(ok) PROVE PipelineInv'
  BY <1>1, <1>5, StageEnds DEF PlainStage
<1>6. ASSUME NEW ok \in BOOLEAN, Analysis(ok) PROVE PipelineInv'
  BY <1>1, <1>6, StageEnds DEF Analysis
<1>7. ASSUME NEW ok \in BOOLEAN, Check(ok) PROVE PipelineInv'
  BY <1>7, CheckPipeline
<1>8. ASSUME NEW ok \in BOOLEAN, Measure(ok) PROVE PipelineInv'
  BY <1>8, PerfStep DEF Measure, PerfSteps
<1>9. ASSUME NEW ok \in BOOLEAN, PerfDrawsCharts(ok) PROVE PipelineInv'
  BY <1>1, <1>9, StageEnds DEF PerfDrawsCharts
<1>10. CASE Begin
  BY <1>10, BeginPipeline
<1>11. CASE End
  BY <1>11, EndPipeline
<1>12. CASE Save
  BY <1>12, SavePipeline
<1>13. CASE DemosEnd
  <2>1. k = Configurations
    BY <1>1, <1>2, <1>13, ConfigurationNext DEF DemosEnd, InDemos, Account
  <2>2. allPassed \in BOOLEAN
    BY <1>2 DEF PipelineTypeOK
  <2> QED
    BY <1>1, <1>13, <2>1, <2>2, StageEnds DEF DemosEnd
<1>14. CASE DemosRaise
  BY <1>1, <1>14, StageEnds DEF DemosRaise, InDemos
<1>15. CASE PerfWritesResults
  BY <1>15, PerfStep DEF PerfWritesResults, PerfSteps
<1>16. CASE PerfWritesSummary
  BY <1>16, PerfStep DEF PerfWritesSummary, PerfSteps
<1>17. CASE PerfRaises
  BY <1>1, <1>17, StageEnds DEF PerfRaises
<1>18. CASE UNCHANGED pipelineVars
  <2>1. \A c \in 0 .. Configurations : Account(c) => Account(c)'
    BY <1>18 DEF pipelineVars, demoVars, Account, SavedInOrder, OpenTruthful, OutcomeTruthful, Ran
  <2>2. (Stopped \/ OnTheWay)' /\ ChildQueued' /\ PipelineTypeOK'
    BY <1>18 DEF pipelineVars, demoVars, PipelineInv, Stopped, OnTheWay, ChildQueued, Stages,
                    PipelineTypeOK
  <2>3. TestsFirst' /\ TranscriptsTruthful' /\ ExitTruthful'
    BY <1>18 DEF pipelineVars, demoVars, PipelineInv, TestsFirst, TestsGateEvidence, Ran,
                 TranscriptsTruthful, ExitTruthful
  <2> QED
    BY <2>1, <2>2, <2>3 DEF PipelineInv
<1> QED
  BY <1>3, <1>4, <1>5, <1>6, <1>7, <1>8, <1>9, <1>10, <1>11, <1>12, <1>13, <1>14,
     <1>15, <1>16, <1>17, <1>18 DEF PipelineNext

\* The invariant of the pipeline: the walk along the listed stages and the
\* account of the failed checks (run_all.py:82-134, evidence.py, run_demo.py:858-888).
THEOREM PipelineAccounted == PipelineSpec => []PipelineInv
<1>1. PipelineInit => PipelineInv
  BY InitPipeline
<1>2. PipelineInv /\ [PipelineNext]_pipelineVars => PipelineInv'
  BY NextPipeline
<1> QED
  BY <1>1, <1>2, PTL DEF PipelineSpec

-----------------------------------------------------------------------------
LEMMA ZeroMeansPassedHolds == PipelineInv => ZeroMeansPassed
<1> SUFFICES ASSUME PipelineInv, exit = "0"
             PROVE  /\ \A i \in DOMAIN Stages(options) : Ran(Stages(options)[i])
                    /\ failed = {}
                    /\ ~ Pending => \A c \in 1 .. Configurations : Len(saved[c]) = Demos
  BY DEF ZeroMeansPassed
<1>1. /\ queue = <<>> /\ PipelineTypeOK /\ options \in Options
      /\ \A i \in DOMAIN results : results[i][2]
      /\ OnTheWay
  BY DEF PipelineInv, ExitTruthful, Stopped, PipelineTypeOK
<1>2. /\ Stages(options) \in Seq(StageNames)
      /\ ~ Pending => \E i \in 1 .. Len(Stages(options)) : Stages(options)[i] = "demos"
  BY <1>1, StagesListed
<1>3. /\ DOMAIN Stages(options) = 1 .. Len(Stages(options))
      /\ Len(results) = Len(Stages(options))
      /\ DOMAIN results = 1 .. Len(results)
  BY <1>1, <1>2 DEF OnTheWay, PipelineTypeOK
<1>4. ASSUME NEW i \in DOMAIN Stages(options)
      PROVE  Ran(Stages(options)[i])
  <2>1. /\ results[i] \in StageNames \X BOOLEAN
        /\ results[i][1] = Stages(options)[i] /\ results[i][2]
    BY <1>1, <1>3 DEF OnTheWay, PipelineTypeOK
  <2>2. results[i] = <<Stages(options)[i], TRUE>>
           <=> results[i][1] = Stages(options)[i] /\ results[i][2]
    BY <2>1, NotedStage
  <2>3. results[i] = <<Stages(options)[i], TRUE>> /\ i \in DOMAIN results
    BY <2>1, <2>2, <1>3
  <2> QED
    BY <2>3 DEF Ran
<1>5. PICK k \in 0 .. Configurations : Account(k)
  BY DEF PipelineInv
<1>6. CASE Pending
  BY <1>4, <1>5, <1>6 DEF Account, OutcomeTruthful
<1>7. CASE ~ Pending
  <2>1. Ran("demos")
    BY <1>2, <1>3, <1>4, <1>7
  <2>2. k = Configurations /\ allPassed
    BY <1>5, <2>1 DEF Account, OutcomeTruthful
  <2>3. \A c \in 1 .. Configurations : saved[c] # <<>> /\ Len(saved[c]) = Demos
    BY <1>5, <2>2 DEF Account, SavedInOrder, PipelineInv, TranscriptsTruthful
  <2>4. \A c \in 1 .. Configurations, d \in 1 .. Demos : <<c, d>> \notin failed
    BY <1>5, <2>2, <2>3 DEF Account, OutcomeTruthful, PipelineInv, TranscriptsTruthful
  <2>5. failed = {}
    BY <1>1, <2>4 DEF PipelineTypeOK
  <2> QED
    BY <1>4, <2>3, <2>5
<1> QED
  BY <1>6, <1>7

\* Exit code 0 is never given over a failure or an omission: every listed stage
\* passed, every transcript is complete and no check failed, for any number of
\* configurations and demonstrations (run_all.py:110-115, 134; run_demo.py:870-884).
THEOREM ZeroOnlyIfPassed == PipelineSpec => []ZeroMeansPassed
BY PipelineAccounted, ZeroMeansPassedHolds, PTL

\* No evidence file is touched while tests that were to run have not passed
\* (run_all.py:110-115).
THEOREM EvidenceGated == PipelineSpec => []TestsGateEvidence
<1>1. PipelineInv => TestsGateEvidence
  BY DEF PipelineInv, TestsFirst
<1> QED
  BY <1>1, PipelineAccounted, PTL

\* A written transcript says of each demonstration what its checks said
\* (evidence.py:104-120).
THEOREM TranscriptsNeverLie == PipelineSpec => []TranscriptsTruthful
<1>1. PipelineInv => TranscriptsTruthful
  BY DEF PipelineInv
<1> QED
  BY <1>1, PipelineAccounted, PTL

HIDE PipelineAssumption

(***************************************************************************)
(* Benchmark: the performance evaluation                                   *)
(***************************************************************************)
USE WindowSizeAssumption, BenchmarkAssumption

GridSize(sizes) == 8 * Len(sizes)

\* The measurement at a position of the grid.
KeyAt(sizes, c) ==
  <<SuiteNames[((c - 1) % 2) + 1], Operations[(((c - 1) \div 2) % 4) + 1],
    sizes[((c - 1) \div 8) + 1]>>

\* Where, and how often, the first n positions pass a measurement.
Visited(sizes, k, n) == {c \in 1 .. n : KeyAt(sizes, c) = k}
Visits(sizes, k, n) == Cardinality(Visited(sizes, k, n))

\* What is pooled of a measurement that was made n times.
Holds(p, k, n) ==
  /\ k \in DOMAIN p <=> n > 0
  /\ n > 0 => p[k] = [samples |-> Reps * n, batches |-> Reps * n]

\* The results of so many sweeps over the whole grid.
Whole(p, sizes, sweeps) ==
  /\ sizes # <<>>
  /\ \A k : Holds(p, k, sweeps * Visits(sizes, k, GridSize(sizes)))

Phases == Between \cup {"measuring", "batch", "timing", "comparing", "opening results",
                        "writing results", "summarising", "drawing"}

TypeOK ==
  /\ phase \in Phases
  /\ args \in [sizes : Seq(Int), sweeps : Int, draw : BOOLEAN, chartsOnly : BOOLEAN]
  /\ run \in Nat /\ cell \in Nat \ {0} /\ sweep \in Nat \ {0}
  /\ batch \in Nat /\ left \in Nat /\ receivers \in Nat
  /\ sender.issued \in Nat /\ sender.limit \in Nat
  /\ window \in Window
  /\ json.state \in {"none", "torn", "whole"}
  /\ json.run \in Nat /\ json.sizes \in Seq(Int) /\ json.sweeps \in Int

\* Inside the grid: every measurement is pooled as often as it was made so far.
Made(k) == (sweep - 1) * Visits(args.sizes, k, GridSize(args.sizes))
             + Visits(args.sizes, k, cell - 1)

GridWalked ==
  phase \in {"measuring", "batch", "timing"} =>
    /\ args.sizes # <<>>
    /\ cell \in 1 .. GridSize(args.sizes)
    /\ sweep \in 1 .. args.sweeps
    /\ \A k : Holds(pooled, k, Made(k))

\* Operations of the measurement at hand begun so far.
Begun == batch * Ops + (IF phase = "timing" THEN Ops - left ELSE 0)

\* Inside a measurement: what is left of what it built beforehand.
Supplied ==
  phase \in {"batch", "timing"} =>
    /\ Measurable(Size)
    /\ phase = "timing" => batch <= Reps /\ left <= Ops
    /\ batch <= Reps + 1
    /\ Operation = "protect" => sender.issued = Begun /\ sender.limit = Budget
    /\ Operation = "recover" =>
         receivers = Reps + 2 - batch - (IF phase = "timing" THEN 1 ELSE 0)

\* Inside a batch of recover: the receiver has taken exactly the records so far.
Recovering ==
  phase = "timing" /\ Operation = "recover" =>
    window.highest = Ops - left - 1 /\ window.accepted = Ops - left

\* What is to be written, what is written, and what is to be summarised.
ResultsKept ==
  /\ phase \in {"comparing", "opening results", "writing results"} /\ args.sweeps > 0
       => Whole(pooled, args.sizes, args.sweeps)
  /\ json.state = "whole" /\ json.sweeps > 0 => Whole(json.pooled, json.sizes, json.sweeps)
  /\ phase = "summarising" =>
       /\ json.state = "whole" /\ pooled = json.pooled
       /\ args.sizes = json.sizes /\ args.sweeps = json.sweeps

FilesOfRuns ==
  /\ json.run <= run
  /\ phase = "writing results" => json.run = run
  /\ {summary, charts, aesniChart} \subseteq 0 .. json.run
  /\ phase \in {"drawing", "exited"} => json.state = "whole" /\ summary = json.run

BenchInv ==
  /\ TypeOK
  /\ GridWalked
  /\ Supplied
  /\ Recovering
  /\ ResultsKept
  /\ FilesOfRuns
  /\ RaisesForArgumentsOnly

-----------------------------------------------------------------------------
\* A position is determined by its suite, operation and size.
LEMMA PositionBack ==
  ASSUME NEW c \in Nat
  PROVE  /\ c % 2 \in 0 .. 1 /\ (c \div 2) % 4 \in 0 .. 3 /\ c \div 8 \in Nat
         /\ c = 8 * (c \div 8) + 2 * ((c \div 2) % 4) + (c % 2)
<1>1. c = 2 * (c \div 2) + (c % 2) /\ c \div 2 \in Nat /\ c % 2 \in 0 .. 1
  OBVIOUS
<1>2. (c \div 2) = 4 * ((c \div 2) \div 4) + ((c \div 2) % 4) /\ (c \div 2) % 4 \in 0 .. 3
  OBVIOUS
<1>3. (c \div 2) \div 4 = c \div 8 /\ c \div 8 \in Nat
  OBVIOUS
<1> QED
  BY <1>1, <1>2, <1>3

LEMMA Lengths8 == Len(Operations) = 4 /\ Len(SuiteNames) = 2
BY DEF Operations, SuiteNames

\* The measurement at hand is the one at the current position.
LEMMA Current ==
  ASSUME NEW n \in Nat, Len(args.sizes) = n, cell \in Nat \ {0}
  PROVE  /\ Cells = GridSize(args.sizes)
         /\ Key = KeyAt(args.sizes, cell)
         /\ cell <= Cells => ((cell - 1) \div 8) + 1 \in 1 .. n
         /\ Size = args.sizes[((cell - 1) \div 8) + 1]
         /\ Operation \in {"protect", "recover", "seal", "open"}
<1>1. Len(Operations) * Len(SuiteNames) = 8
  BY Lengths8
<1>2. Cells = GridSize(args.sizes)
  BY Lengths8 DEF Cells, GridSize
<1>3. Size = args.sizes[((cell - 1) \div 8) + 1]
  BY <1>1 DEF Size
<1>4. Key = KeyAt(args.sizes, cell)
  BY <1>3, Lengths8 DEF Key, KeyAt, Suite, Operation
<1>5. cell <= Cells => ((cell - 1) \div 8) + 1 \in 1 .. n
  BY <1>2 DEF GridSize
<1>6. Operation \in {"protect", "recover", "seal", "open"}
  <2>1. (((cell - 1) \div 2) % 4) + 1 \in 1 .. 4
    OBVIOUS
  <2> QED
    BY <2>1, Lengths8 DEF Operation, Operations
<1> QED
  BY <1>2, <1>3, <1>4, <1>5, <1>6

\* One position further, one visit more for the measurement that is there.
LEMMA OneMoreVisit ==
  ASSUME NEW sizes, NEW k, NEW n \in Nat
  PROVE  /\ Visits(sizes, k, n) \in Nat
         /\ Visits(sizes, k, 0) = 0
         /\ Visits(sizes, k, n + 1) =
              Visits(sizes, k, n) + (IF KeyAt(sizes, n + 1) = k THEN 1 ELSE 0)
<1>1. IsFiniteSet(1 .. n)
  BY FS_Interval
<1>2. IsFiniteSet(Visited(sizes, k, n))
  BY <1>1, FS_Subset DEF Visited
<1>3. Visits(sizes, k, n) \in Nat
  BY <1>2, FS_CardinalityType DEF Visits
<1>4. Visits(sizes, k, 0) = 0
  <2>1. Visited(sizes, k, 0) = {}
    BY DEF Visited
  <2> QED
    BY <2>1, FS_EmptySet DEF Visits
<1>5. CASE KeyAt(sizes, n + 1) = k
  <2>1. Visited(sizes, k, n + 1) = Visited(sizes, k, n) \cup {n + 1}
    BY <1>5 DEF Visited
  <2>2. n + 1 \notin Visited(sizes, k, n)
    BY DEF Visited
  <2> QED
    BY <1>2, <1>3, <1>4, <1>5, <2>1, <2>2, FS_AddElement DEF Visits
<1>6. CASE KeyAt(sizes, n + 1) # k
  <2>1. Visited(sizes, k, n + 1) = Visited(sizes, k, n)
    BY <1>6 DEF Visited
  <2> QED
    BY <1>3, <1>4, <1>6, <2>1 DEF Visits
<1> QED
  BY <1>5, <1>6

\* The whole grid passes a measurement as often as its size is named.
LEMMA VisitsAreOccurrences ==
  ASSUME NEW sizes \in Seq(Int), NEW i \in DOMAIN sizes,
         NEW s \in {"aes-gcm", "chacha20-poly1305"},
         NEW o \in {"protect", "recover", "seal", "open"}
  PROVE  /\ Visits(sizes, <<s, o, sizes[i]>>, GridSize(sizes)) = Occurrences(sizes, sizes[i])
         /\ Occurrences(sizes, sizes[i]) > 0
<1> DEFINE I == {j \in DOMAIN sizes : sizes[j] = sizes[i]}
           k == <<s, o, sizes[i]>>
           V == Visited(sizes, k, GridSize(sizes))
<1>1. PICK a \in 1 .. 2 : \A x \in 1 .. 2 : SuiteNames[x] = s <=> x = a
  BY DEF SuiteNames
<1>2. PICK b \in 1 .. 4 : \A x \in 1 .. 4 : Operations[x] = o <=> x = b
  BY DEF Operations
<1>3. DOMAIN sizes = 1 .. Len(sizes) /\ Len(sizes) \in Nat
  OBVIOUS
<1> DEFINE N == Len(sizes)
           At(j) == 8 * (j - 1) + 2 * (b - 1) + (a - 1) + 1
           f == [j \in I |-> At(j)]
<1>0. /\ N \in Nat /\ GridSize(sizes) = 8 * N /\ DOMAIN sizes = 1 .. N
      /\ \A j \in I : j \in 1 .. N
  BY <1>3 DEF GridSize
<1> HIDE DEF N
<1>4. ASSUME NEW c \in 1 .. GridSize(sizes)
      PROVE  KeyAt(sizes, c) = k <=> \E j \in I : c = At(j)
  <2> DEFINE d == c - 1
             p == d % 2
             q == (d \div 2) % 4
             r == d \div 8
  <2>0. d \in Nat /\ d < 8 * N /\ c = d + 1
    BY <1>0, SMTT(30)
  <2>1. p \in 0 .. 1 /\ q \in 0 .. 3 /\ r \in Nat /\ d = 8 * r + 2 * q + p
    BY <2>0, PositionBack
  <2>2. r + 1 \in DOMAIN sizes
    <3> HIDE DEF p, q, r, d
    <3> QED
      BY <1>0, <2>0, <2>1, SMTT(30)
  <2>3. KeyAt(sizes, c) = <<SuiteNames[p + 1], Operations[q + 1], sizes[r + 1]>>
    BY DEF KeyAt
  <2>4. KeyAt(sizes, c) = k <=> p + 1 = a /\ q + 1 = b /\ r + 1 \in I
    <3> HIDE DEF p, q, r, d
    <3>1. p + 1 \in 1 .. 2 /\ q + 1 \in 1 .. 4
      BY <2>1
    <3>2. KeyAt(sizes, c) = k <=> /\ SuiteNames[p + 1] = s /\ Operations[q + 1] = o
                                  /\ sizes[r + 1] = sizes[i]
      BY <2>3
    <3> QED
      BY <1>1, <1>2, <2>2, <3>1, <3>2
  <2>5. ASSUME p + 1 = a, q + 1 = b, r + 1 \in I PROVE \E j \in I : c = At(j)
    <3> HIDE DEF p, q, r, d
    <3>1. c = At(r + 1)
      BY <2>0, <2>1, <2>5
    <3> QED
      BY <2>5, <3>1
  <2>6. ASSUME NEW j \in I, c = At(j) PROVE p + 1 = a /\ q + 1 = b /\ r + 1 = j
    <3>1. j \in Nat \ {0}
      BY <1>0
    <3>2. d = 8 * (j - 1) + 2 * (b - 1) + (a - 1)
      BY <2>0, <2>6, <3>1
    <3>3. p = a - 1 /\ q = b - 1 /\ r = j - 1
      <4> HIDE DEF d
      <4>1. d % 2 = a - 1 /\ (d \div 2) % 4 = b - 1 /\ d \div 8 = j - 1
        <5>1. d \in Nat /\ a \in 1 .. 2 /\ b \in 1 .. 4
          BY <2>0
        <5> HIDE DEF I, At, f, V, k
        <5> QED
          BY ONLY <3>1, <3>2, <5>1
      <4> QED
        BY <4>1
    <3> HIDE DEF p, q, r, d
    <3> QED
      BY <3>1, <3>3
  <2> HIDE DEF p, q, r, d
  <2> QED
    BY <2>4, <2>5, <2>6
<1>5. /\ \A j \in I : At(j) \in 1 .. GridSize(sizes)
      /\ \A j, l \in I : At(j) = At(l) => j = l
  <2>1. \A j \in 1 .. N : At(j) \in 1 .. 8 * N
    BY <1>0
  <2>2. \A j, l \in 1 .. N : At(j) = At(l) => j = l
    BY <1>0
  <2> HIDE DEF I, At
  <2> QED
    BY <1>0, <2>1, <2>2
<1>6. f \in Bijection(I, V)
  <2>1. \A j \in I : At(j) \in V
    BY <1>4, <1>5 DEF Visited
  <2>2. f \in [I -> V]
    BY <2>1
  <2>3. \A j, l \in I : f[j] = f[l] => j = l
    BY <1>5
  <2>4. \A c \in V : \E j \in I : f[j] = c
    BY <1>4 DEF Visited
  <2> QED
    BY <2>2, <2>3, <2>4, Fun_IsBij
<1>7. IsFiniteSet(I)
  <2>1. 1 \in Int /\ Len(sizes) \in Int
    OBVIOUS
  <2>2. IsFiniteSet(1 .. Len(sizes))
    BY <2>1, FS_Interval
  <2> QED
    BY <1>3, <2>2, FS_Subset
<1>8. Cardinality(V) = Cardinality(I)
  <2>1. ExistsBijection(I, V)
    BY <1>6 DEF ExistsBijection
  <2> QED
    BY <1>7, <2>1, FS_Bijection
<1>9. Cardinality(I) > 0
  <2>1. i \in I
    OBVIOUS
  <2> QED
    <3>1. Cardinality(I) \in Nat /\ Cardinality(I) # 0
      BY <1>7, <2>1, FS_EmptySet, FS_CardinalityType
    <3> HIDE DEF I
    <3> QED
      BY <3>1
<1> QED
  BY <1>8, <1>9 DEF Visits, Occurrences

-----------------------------------------------------------------------------
(***************************************************************************)
(* The supplies of a measurement and the pool                              *)
(***************************************************************************)
LEMMA Parameters ==
  /\ Reps \in Nat \ {0} /\ MinOps \in Nat \ {0} /\ MaxOps \in Nat \ {0}
  /\ BatchBytes \in Nat \ {0} /\ MaxPayload \in Nat \ {0} /\ Slack \in Nat
OBVIOUS

LEMMA OpsPositive ==
  ASSUME Measurable(Size)
  PROVE  Ops \in Nat \ {0}
<1>1. Size \in Nat \ {0}
  BY Parameters DEF Measurable
<1>2. BatchBytes \div Size \in Nat
  BY <1>1, Parameters
<1> QED
  BY <1>2, Parameters DEF Ops, Larger, Smaller

\* The sender's limit covers the warm-up and every timed batch.
LEMMA BudgetSuffices ==
  ASSUME NEW n \in Nat, NEW b \in Nat, b <= Reps, NEW l \in 1 .. n
  PROVE  /\ b * n + (n - l) < n * (Reps + 2) + Slack
         /\ b * n + (n - (l - 1)) = b * n + (n - l) + 1
         /\ (b + 1) * n = b * n + n
         /\ b * n \in Nat
<1>1. b * n <= Reps * n /\ b * n \in Nat /\ Reps * n \in Nat
  BY Parameters
<1>2. n * (Reps + 2) = Reps * n + 2 * n
  BY Parameters
<1>3. (b + 1) * n = b * n + n
  OBVIOUS
<1> QED
  BY <1>1, <1>2, <1>3, Parameters

\* Pooling a measurement once more.
LEMMA PooledOnceMore ==
  ASSUME NEW k, NEW n \in Nat, Holds(pooled, k, n)
  PROVE  Holds(Pooled, k, n + (IF k = Key THEN 1 ELSE 0))
<1>1. DOMAIN Pooled = DOMAIN pooled \cup {Key}
  BY DEF Pooled
<1>2. CASE k # Key
  <2>1. k \in DOMAIN pooled => Pooled[k] = pooled[k]
    BY <1>2 DEF Pooled
  <2> QED
    BY <1>1, <1>2, <2>1 DEF Holds
<1>3. CASE k = Key /\ n > 0
  <2>1. Pooled[k] = [samples |-> pooled[k].samples + Reps, batches |-> pooled[k].batches + Reps]
    BY <1>3 DEF Pooled, Holds
  <2>2. pooled[k] = [samples |-> Reps * n, batches |-> Reps * n]
    BY <1>3 DEF Holds
  <2>3. Reps * n + Reps = Reps * (n + 1)
    BY Parameters
  <2>4. Pooled[k] = [samples |-> Reps * (n + 1), batches |-> Reps * (n + 1)]
    BY <2>1, <2>2, <2>3
  <2> QED
    BY <1>1, <1>3, <2>4 DEF Holds
<1>4. CASE k = Key /\ n = 0
  <2>1. Pooled[k] = [samples |-> Reps, batches |-> Reps]
    BY <1>4 DEF Pooled, Holds
  <2>2. Reps * (0 + 1) = Reps
    BY Parameters
  <2> QED
    BY <1>1, <1>4, <2>1, <2>2 DEF Holds
<1> QED
  BY <1>2, <1>3, <1>4

\* Results of at least one sweep are not empty.
LEMMA WholeNotEmpty ==
  ASSUME NEW sizes \in Seq(Int), NEW sweeps \in Nat \ {0}, NEW p, Whole(p, sizes, sweeps)
  PROVE  p # <<>>
<1>1. 1 \in DOMAIN sizes
  BY DEF Whole
<1> DEFINE k == <<"aes-gcm", "protect", sizes[1]>>
           n == Visits(sizes, k, GridSize(sizes))
<1>2. n > 0 /\ n \in Nat
  <2>1. GridSize(sizes) \in Nat
    BY DEF GridSize
  <2> QED
    BY <1>1, <2>1, VisitsAreOccurrences, OneMoreVisit
<1> HIDE DEF n
<1>3. sweeps * n > 0
  BY <1>2
<1>4. k \in DOMAIN p
  BY <1>3 DEF Whole, Holds, n
<1> QED
  BY <1>4

-----------------------------------------------------------------------------
(***************************************************************************)
(* The steps                                                               *)
(***************************************************************************)
\* What the program has in hand between two measurements.
LEMMA Afresh ==
  /\ EmptyWindow \in Window
  /\ Nobody.issued = 0 /\ Nobody.limit = 1
BY DEF EmptyWindow, Window, Nobody, NewManager

LEMMA NoMeasurementType ==
  ASSUME NoMeasurement
  PROVE  /\ cell' \in Nat \ {0} /\ batch' \in Nat /\ left' \in Nat /\ receivers' \in Nat
         /\ sender'.issued \in Nat /\ sender'.limit \in Nat
         /\ window' \in Window
BY Afresh DEF NoMeasurement

LEMMA InitBench == Init => BenchInv
<1> SUFFICES ASSUME Init PROVE BenchInv
  OBVIOUS
<1>1. TypeOK
  BY Afresh DEF Init, TypeOK, Phases, Between, NoFile
<1> QED
  BY <1>1 DEF Init, BenchInv, GridWalked, Supplied, Recovering, ResultsKept, FilesOfRuns,
              RaisesForArgumentsOnly, NoFile

\* The program ends before its files are complete.
LEMMA StopsBench ==
  ASSUME BenchInv, NEW how \in {"raised", "killed"}, Stops(how),
         how = "raised" => ~ Usable(args.sizes, args.sweeps) \/ json.state = "torn"
  PROVE  BenchInv'
<1>1. TypeOK'
  <2>1. TypeOK
    BY DEF BenchInv
  <2>2. /\ phase' \in Phases /\ sweep' = 1 /\ NoMeasurement
        /\ UNCHANGED <<args, run, json, summary, charts, aesniChart>>
    BY DEF Stops, fileVars, Phases, Between
  <2> QED
    BY <2>1, <2>2, NoMeasurementType DEF TypeOK
<1> QED
  BY <1>1 DEF BenchInv, Stops, fileVars, GridWalked, Supplied, Recovering, ResultsKept,
              FilesOfRuns, RaisesForArgumentsOnly

\* A step inside the grid leaves the files alone.
LEMMA GridStep ==
  ASSUME BenchInv, UNCHANGED <<args, run, fileVars>>, TypeOK',
         phase' \in {"measuring", "batch", "timing", "comparing"},
         GridWalked', Supplied', Recovering',
         phase' = "comparing" => Whole(pooled', args.sizes, args.sweeps)
  PROVE  BenchInv'
BY DEF BenchInv, fileVars, ResultsKept, FilesOfRuns, RaisesForArgumentsOnly

LEMMA StartBench ==
  ASSUME BenchInv, NEW sizes \in SizeLists, NEW sweeps \in SweepCounts, NEW draw \in BOOLEAN,
         Start(sizes, sweeps, draw)
  PROVE  BenchInv'
<1>1. sizes \in Seq(Int) /\ sizes # <<>> /\ sweeps \in Int /\ Len(sizes) \in Nat \ {0}
  OBVIOUS
<1>2. /\ args' = [sizes |-> sizes, sweeps |-> sweeps, draw |-> draw, chartsOnly |-> FALSE]
      /\ phase' = IF sweeps < 1 THEN "comparing" ELSE "measuring"
      /\ cell' = 1 /\ sweep' = 1 /\ pooled' = <<>> /\ run' = run + 1
      /\ UNCHANGED <<json, summary, charts, aesniChart>>
  BY DEF Start, NoMeasurement, fileVars
<1>3. TypeOK'
  <2>1. phase' \in Phases
    BY <1>2 DEF Phases
  <2> QED
    BY <1>1, <1>2, <2>1, NoMeasurementType DEF BenchInv, TypeOK, Start
<1>4. GridWalked'
  <2> SUFFICES ASSUME sweeps >= 1
               PROVE  /\ 1 \in 1 .. GridSize(sizes) /\ 1 \in 1 .. sweeps
                      /\ \A k : Holds(<<>>, k, (1 - 1) * Visits(sizes, k, GridSize(sizes))
                                                 + Visits(sizes, k, 1 - 1))
    BY <1>1, <1>2 DEF GridWalked, Made
  <2>1. 1 \in 1 .. GridSize(sizes) /\ 1 \in 1 .. sweeps /\ GridSize(sizes) \in Nat
    BY <1>1 DEF GridSize
  <2>2. ASSUME NEW k
        PROVE  Holds(<<>>, k, (1 - 1) * Visits(sizes, k, GridSize(sizes))
                                + Visits(sizes, k, 1 - 1))
    <3>1. Visits(sizes, k, 0) = 0 /\ Visits(sizes, k, GridSize(sizes)) \in Nat
      BY <2>1, OneMoreVisit
    <3>2. (1 - 1) * Visits(sizes, k, GridSize(sizes)) + Visits(sizes, k, 1 - 1) = 0
      BY <3>1
    <3> QED
      BY <3>2 DEF Holds
  <2> QED
    BY <2>1, <2>2
<1>5. phase' \in {"comparing", "measuring"} /\ (args'.sweeps > 0 => phase' = "measuring")
  BY <1>1, <1>2
<1>6. Supplied' /\ Recovering' /\ RaisesForArgumentsOnly'
  BY <1>5 DEF Supplied, Recovering, RaisesForArgumentsOnly
<1>7. ResultsKept'
  BY <1>2, <1>5 DEF BenchInv, ResultsKept
<1>8. FilesOfRuns'
  <2>1. json.run <= run /\ json.run \in Nat /\ run \in Nat
    BY DEF BenchInv, TypeOK, FilesOfRuns
  <2>2. json'.run <= run'
    BY <1>2, <2>1
  <2>3. {summary, charts, aesniChart} \subseteq 0 .. json.run
    BY DEF BenchInv, FilesOfRuns
  <2> QED
    BY <1>2, <1>5, <2>2, <2>3 DEF FilesOfRuns
<1> QED
  BY <1>3, <1>4, <1>6, <1>7, <1>8 DEF BenchInv

LEMMA StartChartsOnlyBench ==
  ASSUME BenchInv, StartChartsOnly
  PROVE  BenchInv'
<1>1. TypeOK /\ json.state \in {"none", "torn", "whole"}
  BY DEF BenchInv, TypeOK
<1>2. /\ args'.sizes = json.sizes /\ args'.sweeps = json.sweeps
      /\ args' \in [sizes : Seq(Int), sweeps : Int, draw : BOOLEAN, chartsOnly : BOOLEAN]
      /\ phase' = CASE json.state = "none" -> "refused"
                    [] json.state = "torn" -> "raised"
                    [] json.state = "whole" -> "summarising"
      /\ pooled' = json.pooled /\ run' = run + 1
      /\ UNCHANGED <<json, summary, charts, aesniChart>>
  BY <1>1 DEF StartChartsOnly, fileVars, TypeOK
<1>3. \/ phase' = "refused"
      \/ phase' = "raised" /\ json.state = "torn"
      \/ phase' = "summarising" /\ json.state = "whole"
  BY <1>1, <1>2
<1>4. TypeOK'
  <2>1. phase' \in Phases
    BY <1>3 DEF Phases, Between
  <2> QED
    <3>1. NoMeasurement /\ sweep' = 1
      BY DEF StartChartsOnly
    <3>2. run' \in Nat
      <4>1. run' = run + 1 /\ run \in Nat
        BY <1>1 DEF TypeOK, StartChartsOnly
      <4> QED
        BY ONLY <4>1
    <3>3. /\ json'.state \in {"none", "torn", "whole"}
          /\ json'.run \in Nat /\ json'.sizes \in Seq(Int) /\ json'.sweeps \in Int
      BY <1>1, <1>2 DEF TypeOK
    <3>4. args' \in [sizes : Seq(Int), sweeps : Int, draw : BOOLEAN, chartsOnly : BOOLEAN]
      BY <1>2
    <3> QED
      BY <2>1, <3>1, <3>2, <3>3, <3>4, NoMeasurementType DEF TypeOK
<1>5. GridWalked' /\ Supplied' /\ Recovering'
  BY <1>3 DEF GridWalked, Supplied, Recovering
<1>6. RaisesForArgumentsOnly'
  BY <1>2, <1>3 DEF RaisesForArgumentsOnly
<1>7. ResultsKept'
  BY <1>2, <1>3 DEF BenchInv, ResultsKept
<1>8. FilesOfRuns'
  <2>1. json.run <= run /\ json.run \in Nat /\ run \in Nat
    BY DEF BenchInv, TypeOK, FilesOfRuns
  <2>2. json'.run <= run'
    BY <1>2, <2>1
  <2>3. {summary, charts, aesniChart} \subseteq 0 .. json.run
    BY DEF BenchInv, FilesOfRuns
  <2> QED
    BY <1>2, <1>3, <2>2, <2>3 DEF FilesOfRuns
<1> QED
  BY <1>4, <1>5, <1>6, <1>7, <1>8 DEF BenchInv

\* The size at hand is one of those named.
LEMMA SizeNamed ==
  ASSUME BenchInv, phase \in {"measuring", "batch", "timing"}
  PROVE  /\ \E i \in DOMAIN args.sizes : Size = args.sizes[i]
         /\ Cells = GridSize(args.sizes) /\ Key = KeyAt(args.sizes, cell)
         /\ Cells \in Nat /\ cell \in 1 .. Cells
         /\ args.sizes \in Seq(Int) /\ args.sizes # <<>> /\ args.sweeps \in Nat
         /\ sweep \in 1 .. args.sweeps
         /\ Operation \in {"protect", "recover", "seal", "open"}
<1>1. /\ args.sizes \in Seq(Int) /\ cell \in Nat \ {0} /\ args.sweeps \in Int
      /\ args.sizes # <<>> /\ cell \in 1 .. GridSize(args.sizes)
      /\ sweep \in 1 .. args.sweeps
  BY DEF BenchInv, TypeOK, GridWalked
<1>2. /\ Len(args.sizes) \in Nat /\ DOMAIN args.sizes = 1 .. Len(args.sizes)
      /\ GridSize(args.sizes) \in Nat
  BY <1>1 DEF GridSize
<1>3. /\ Cells = GridSize(args.sizes)
      /\ Key = KeyAt(args.sizes, cell)
      /\ Size = args.sizes[((cell - 1) \div 8) + 1]
      /\ Operation \in {"protect", "recover", "seal", "open"}
      /\ cell <= Cells => ((cell - 1) \div 8) + 1 \in 1 .. Len(args.sizes)
  BY <1>1, <1>2, Current
<1>4. ((cell - 1) \div 8) + 1 \in DOMAIN args.sizes
  BY <1>1, <1>2, <1>3
<1>5. \E i \in DOMAIN args.sizes : Size = args.sizes[i]
  BY <1>3, <1>4
<1>6. args.sweeps \in Nat /\ cell \in 1 .. Cells /\ Cells \in Nat
  BY <1>1, <1>2, <1>3, SMTT(30)
<1> QED
  BY <1>1, <1>3, <1>5, <1>6

LEMMA PrepareBench == ASSUME BenchInv, Prepare PROVE BenchInv'
<1>1. /\ \E i \in DOMAIN args.sizes : Size = args.sizes[i]
      /\ phase = "measuring" /\ TypeOK
  BY SizeNamed DEF Prepare, BenchInv
<1>2. CASE Measurable(Size)
  <2>1. Ops \in Nat \ {0}
    BY <1>2, OpsPositive
  <2>2. Ops <= RecoverBudget
    BY <2>1, Parameters DEF RecoverBudget
  <2>3. /\ phase' = "batch" /\ batch' = 0
        /\ sender' = IF Operation = "protect" THEN NewManager(Nobody.prefix, 0, Budget)
                     ELSE Nobody
        /\ receivers' = IF Operation = "recover" THEN Receivers ELSE 0
        /\ UNCHANGED <<args, run, cell, sweep, left, window, pooled, compared, fileVars>>
    BY <1>2, <2>2 DEF Prepare
  <2>4. UNCHANGED <<Size, Operation, Ops, Budget>>
    BY <2>3 DEF Size, Operation, Ops, Budget
  <2>5. Budget \in Nat /\ Receivers \in Nat
    BY <2>1, Parameters DEF Budget, Receivers
  <2>6. TypeOK'
    BY <1>1, <2>3, <2>5 DEF TypeOK, Phases, NewManager, Nobody, fileVars
  <2>7. 0 * Ops = 0
    BY <2>1
  <2>8. Supplied'
    BY <1>2, <2>1, <2>3, <2>4, <2>5, <2>7, Parameters
    DEF Supplied, Begun, NewManager, Receivers, Measurable
  <2>9. GridWalked' /\ Recovering'
    BY <1>1, <2>3 DEF BenchInv, GridWalked, Made, Recovering
  <2> QED
    BY <2>3, <2>6, <2>8, <2>9, GridStep
<1>3. CASE ~ Measurable(Size)
  <2>1. Stops("raised")
    BY <1>3 DEF Prepare
  <2>2. ~ Usable(args.sizes, args.sweeps)
    BY <1>1, <1>3 DEF Usable
  <2> QED
    BY <2>1, <2>2, StopsBench
<1> QED
  BY <1>2, <1>3

LEMMA BeginBatchBench == ASSUME BenchInv, BeginBatch PROVE BenchInv'
<1>1. /\ phase = "batch" /\ batch <= Reps /\ batch \in Nat /\ TypeOK /\ Measurable(Size)
      /\ Operation = "protect" => sender.issued = batch * Ops /\ sender.limit = Budget
      /\ Operation = "recover" => receivers = Reps + 2 - batch
      /\ Ops \in Nat \ {0}
  <2>1. phase = "batch" /\ batch <= Reps /\ batch \in Nat /\ TypeOK /\ Measurable(Size)
    BY DEF BeginBatch, BenchInv, TypeOK, Supplied
  <2>2. Ops \in Nat \ {0}
    BY <2>1, OpsPositive
  <2>3. batch * Ops \in Nat
    BY <2>1, <2>2
  <2> QED
    BY <2>1, <2>2, <2>3, Parameters DEF BenchInv, Supplied, Begun
<1>2. ~ (Operation = "recover" /\ receivers = 0)
  BY <1>1, Parameters
<1>3. /\ left' = Ops /\ phase' = "timing"
      /\ receivers' = IF Operation = "recover" THEN receivers - 1 ELSE receivers
      /\ window' = EmptyWindow
      /\ UNCHANGED <<args, run, cell, sweep, batch, sender, pooled, compared, fileVars>>
  BY <1>2 DEF BeginBatch
<1>4. UNCHANGED <<Size, Operation, Ops, Budget>>
  BY <1>3 DEF Size, Operation, Ops, Budget
<1>5. receivers' \in Nat /\ (Operation = "recover" => receivers' = Reps + 2 - batch - 1)
  BY <1>1, <1>2, <1>3, Parameters DEF TypeOK
<1>6. TypeOK'
  <2>1. phase' \in Phases
    BY <1>3 DEF Phases
  <2> QED
    BY <1>1, <1>3, <1>5, <2>1, Afresh DEF TypeOK, fileVars
<1>7. Supplied'
  <2>1. batch * Ops + (Ops - Ops) = batch * Ops
    BY <1>1
  <2> QED
    BY <1>1, <1>3, <1>4, <1>5, <2>1, Parameters DEF Supplied, Begun
<1>8. Recovering'
  BY <1>1, <1>3, <1>4 DEF Recovering, EmptyWindow
<1>9. GridWalked'
  BY <1>1, <1>3 DEF BenchInv, GridWalked, Made
<1> QED
  BY <1>3, <1>6, <1>7, <1>8, <1>9, GridStep

LEMMA TimeOneBench == ASSUME BenchInv, TimeOne PROVE BenchInv'
<1>1. /\ phase = "timing" /\ left \in 1 .. Ops /\ batch \in Nat /\ batch <= Reps
      /\ TypeOK /\ Measurable(Size) /\ Ops \in Nat \ {0} /\ left \in Nat
      /\ Operation = "protect" =>
           sender.issued = batch * Ops + (Ops - left) /\ sender.limit = Budget
      /\ Operation = "recover" => receivers = Reps + 2 - batch - 1
      /\ Operation = "recover" => /\ window.highest = Ops - left - 1
                                  /\ window.accepted = Ops - left
  <2>1. /\ phase = "timing" /\ left > 0 /\ left \in Nat /\ TypeOK
        /\ Measurable(Size) /\ batch \in Nat /\ batch <= Reps /\ left <= Ops
    BY DEF TimeOne, BenchInv, TypeOK, Supplied
  <2>2. Ops \in Nat \ {0}
    BY <2>1, OpsPositive
  <2> QED
    BY <2>1, <2>2 DEF BenchInv, Supplied, Begun, Recovering
<1>2. /\ batch * Ops + (Ops - left) < Ops * (Reps + 2) + Slack
      /\ batch * Ops + (Ops - (left - 1)) = batch * Ops + (Ops - left) + 1
  <2> DEFINE n == Ops
  <2> HIDE DEF n
  <2> DEFINE l == left
             b == batch
  <2>1. n \in Nat /\ l \in 1 .. n /\ b \in Nat /\ b <= Reps
    BY <1>1 DEF n
  <2> HIDE DEF l, b
  <2>2. /\ b * n + (n - l) < n * (Reps + 2) + Slack
        /\ b * n + (n - (l - 1)) = b * n + (n - l) + 1
    BY ONLY <2>1, BudgetSuffices, Parameters
  <2> QED
    BY <2>2 DEF n, b, l
<1>3. ~ (Operation = "protect" /\ Exhausted(sender))
  <2> SUFFICES ASSUME Operation = "protect" PROVE ~ Exhausted(sender)
    OBVIOUS
  <2>1. sender.issued \in Nat /\ sender.limit \in Nat
    BY <1>1 DEF TypeOK
  <2>2. sender.issued < sender.limit
    <3>1. sender.issued = batch * Ops + (Ops - left) /\ sender.limit = Ops * (Reps + 2) + Slack
      BY <1>1 DEF Budget
    <3> QED
      BY ONLY <1>2, <3>1
  <2>3. ~ (sender.issued >= sender.limit)
    BY ONLY <2>1, <2>2
  <2> QED
    BY <2>3 DEF Exhausted
<1>4. /\ sender' = IF Operation = "protect" THEN Allocate(sender) ELSE sender
      /\ window' = IF Operation = "recover" THEN WindowCommit(window, Ops - left) ELSE window
      /\ left' = left - 1
      /\ UNCHANGED <<phase, args, run, cell, sweep, batch, receivers, pooled, compared,
                     fileVars>>
  BY <1>3 DEF TimeOne
<1>5. UNCHANGED <<Size, Operation, Ops, Budget>>
  BY <1>4 DEF Size, Operation, Ops, Budget
<1>6. Operation = "recover" =>
        /\ window' \in Window
        /\ window'.highest = Ops - left' - 1 /\ window'.accepted = Ops - left'
  <2> SUFFICES ASSUME Operation = "recover"
               PROVE  /\ window' \in Window
                      /\ window'.highest = Ops - left' - 1
                      /\ window'.accepted = Ops - left'
    OBVIOUS
  <2>1. WindowTakes(window, Ops - left) /\ Ahead(window, Ops - left) /\ Ops - left \in Nat
    BY <1>1 DEF WindowTakes, Ahead
  <2>2. window' = [highest |-> Ops - left, bitmap |-> Shifted(window, Ops - left),
                   accepted |-> window.accepted + 1]
    BY <1>4, <2>1 DEF WindowCommit
  <2>3. Shifted(window, Ops - left) \in SUBSET Nat
    <3>1. WindowSize \in Nat /\ 0 \in Nat
      OBVIOUS
    <3>2. CASE window.highest < 0 \/ (Ops - left) - window.highest >= WindowSize
      BY <3>1, <3>2 DEF Shifted
    <3>3. CASE ~ (window.highest < 0 \/ (Ops - left) - window.highest >= WindowSize)
      <4>1. (Ops - left) - window.highest = 1
        BY <1>1
      <4>2. window.bitmap \in SUBSET Nat
        BY <1>1 DEF TypeOK, Window
      <4>3. Shifted(window, Ops - left) = {i \in {j + 1 : j \in window.bitmap} \cup {0} : i < WindowSize}
        BY <3>3, <4>1 DEF Shifted
      <4> QED
        BY <4>2, <4>3
    <3> QED
      BY <3>2, <3>3
  <2> QED
    BY <1>1, <1>4, <2>1, <2>2, <2>3, SMTT(30) DEF Window
<1>7. /\ sender'.issued \in Nat /\ sender'.limit \in Nat
      /\ Operation = "protect" =>
           sender'.issued = batch * Ops + (Ops - left') /\ sender'.limit = Budget
  <2>1. CASE Operation = "protect"
    <3>1. sender'.issued = sender.issued + 1 /\ sender'.limit = sender.limit
      BY <1>4, <2>1 DEF Allocate
    <3>2. sender.issued \in Nat /\ sender.limit \in Nat /\ left' = left - 1
      BY <1>1, <1>4 DEF TypeOK
    <3>3. sender.issued = batch * Ops + (Ops - left) /\ sender.limit = Budget
      BY <1>1, <2>1
    <3>4. sender'.issued = batch * Ops + (Ops - left')
      BY ONLY <1>2, <3>1, <3>2, <3>3
    <3>5. sender'.issued \in Nat /\ sender'.limit \in Nat
      BY ONLY <3>1, <3>2
    <3> QED
      BY <3>1, <3>3, <3>4, <3>5
  <2>2. CASE Operation # "protect"
    BY <1>1, <1>4, <2>2 DEF TypeOK
  <2> QED
    BY <2>1, <2>2
<1>8. TypeOK'
  <2>1. left' \in Nat
    BY <1>1, <1>4, SMTT(30)
  <2>2. window' \in Window
    <3>1. window \in Window /\ (Operation # "recover" => window' = window)
      BY <1>1, <1>4 DEF TypeOK
    <3> QED
      BY <1>6, <3>1
  <2> QED
    BY <1>1, <1>4, <1>7, <2>1, <2>2 DEF TypeOK, fileVars
<1>9. Supplied'
  BY <1>1, <1>4, <1>5, <1>7, SMTT(30) DEF Supplied, Begun
<1>10. Recovering'
  BY <1>4, <1>5, <1>6 DEF Recovering
<1>11. GridWalked'
  BY <1>1, <1>4 DEF BenchInv, GridWalked, Made
<1> QED
  BY <1>1, <1>4, <1>8, <1>9, <1>10, <1>11, GridStep

LEMMA EndBatchBench == ASSUME BenchInv, EndBatch PROVE BenchInv'
<1>1. /\ phase = "timing" /\ left = 0 /\ batch \in Nat /\ batch <= Reps /\ TypeOK
      /\ Measurable(Size)
  BY DEF EndBatch, BenchInv, TypeOK, Supplied
<1>2. Ops \in Nat \ {0}
  BY <1>1, OpsPositive
<1>3. /\ batch' = batch + 1 /\ phase' = "batch"
      /\ UNCHANGED <<args, run, cell, sweep, left, sender, receivers, window, pooled,
                     compared, fileVars>>
  BY DEF EndBatch
<1>4. UNCHANGED <<Size, Operation, Ops, Budget>>
  BY <1>3 DEF Size, Operation, Ops, Budget
<1>5. (batch + 1) * Ops = batch * Ops + (Ops - 0)
  <2> DEFINE n == Ops
             b == batch
  <2>1. n \in Nat /\ b \in Nat
    BY <1>1, <1>2
  <2> HIDE DEF n, b
  <2>2. (b + 1) * n = b * n + (n - 0)
    BY ONLY <2>1
  <2> QED
    BY <2>2 DEF n, b
<1>6. TypeOK'
  <2>1. phase' \in Phases /\ batch' \in Nat
    BY <1>1, <1>3 DEF Phases
  <2> QED
    BY <1>1, <1>3, <2>1 DEF TypeOK, fileVars
<1>7. Supplied'
  <2>1. /\ Operation = "protect" =>
             sender.issued = batch * Ops + (Ops - 0) /\ sender.limit = Budget
        /\ Operation = "recover" => receivers = Reps + 2 - batch - 1
    BY <1>1 DEF BenchInv, Supplied, Begun
  <2>2. Begun' = batch' * Ops + 0 /\ batch' * Ops = batch * Ops + (Ops - 0)
    BY <1>3, <1>4, <1>5 DEF Begun
  <2>3. Begun' = batch * Ops + (Ops - 0)
    <3>1. batch * Ops \in Int
      BY <1>1, <1>2
    <3> QED
      BY <1>2, <2>2, <3>1
  <2>4. Measurable(Size)'
    BY <1>1, <1>4 DEF Measurable
  <2>5. Operation' = "protect" => sender'.issued = Begun' /\ sender'.limit = Budget'
    BY <1>3, <1>4, <2>1, <2>3
  <2>6. /\ batch' <= Reps + 1
        /\ Operation' = "recover" => receivers' = Reps + 2 - batch' - 0
    BY <1>1, <1>3, <1>4, <2>1, Parameters
  <2> QED
    BY <1>3, <2>4, <2>5, <2>6 DEF Supplied
<1>8. GridWalked' /\ Recovering'
  BY <1>1, <1>3 DEF BenchInv, GridWalked, Made, Recovering
<1> QED
  BY <1>3, <1>6, <1>7, <1>8, GridStep

\* What is pooled when the measurer returns counts the position it returns from.
LEMMA PoolCounts ==
  ASSUME BenchInv, Pool, NEW k
  PROVE  Holds(pooled', k, (sweep - 1) * Visits(args.sizes, k, GridSize(args.sizes))
                             + Visits(args.sizes, k, cell))
<1>1. /\ Key = KeyAt(args.sizes, cell) /\ Cells \in Nat /\ cell \in 1 .. Cells
      /\ Cells = GridSize(args.sizes) /\ sweep \in 1 .. args.sweeps /\ args.sweeps \in Nat
      /\ phase = "batch" /\ pooled' = Pooled
  BY SizeNamed DEF Pool
<1> DEFINE V == Visits(args.sizes, k, GridSize(args.sizes))
           u == Visits(args.sizes, k, cell - 1)
           w == Visits(args.sizes, k, cell)
           one == IF k = Key THEN 1 ELSE 0
<1>2. V \in Nat /\ u \in Nat /\ w = u + one
  <2>1. cell - 1 \in Nat /\ (cell - 1) + 1 = cell /\ GridSize(args.sizes) \in Nat
    BY <1>1
  <2>2. /\ u \in Nat
        /\ Visits(args.sizes, k, (cell - 1) + 1) =
             u + (IF KeyAt(args.sizes, (cell - 1) + 1) = k THEN 1 ELSE 0)
    <3> DEFINE c == cell - 1  s == args.sizes
    <3>1. c \in Nat
      BY <2>1
    <3> HIDE DEF c, s
    <3>2. /\ Visits(s, k, c) \in Nat
          /\ Visits(s, k, c + 1) = Visits(s, k, c) + (IF KeyAt(s, c + 1) = k THEN 1 ELSE 0)
      <4>1. Visits(s, k, c) \in Nat
        BY <3>1, OneMoreVisit
      <4>2. Visits(s, k, c + 1) = Visits(s, k, c) + (IF KeyAt(s, c + 1) = k THEN 1 ELSE 0)
        <5>1. CASE KeyAt(s, c + 1) = k
          BY <3>1, <5>1, OneMoreVisit
        <5>2. CASE KeyAt(s, c + 1) # k
          BY <3>1, <5>2, OneMoreVisit
        <5> QED
          BY <5>1, <5>2
      <4> QED
        BY <4>1, <4>2
    <3> QED
      BY <3>2 DEF c, s
  <2>3. V \in Nat
    BY <2>1, OneMoreVisit
  <2> QED
    BY <1>1, <2>1, <2>2, <2>3
<1>3. Holds(pooled, k, (sweep - 1) * V + u)
  BY <1>1 DEF BenchInv, GridWalked, Made
<1>4. sweep - 1 \in Nat
  BY <1>1
<1> HIDE DEF V, u, w
<1>5. (sweep - 1) * V + u \in Nat
  BY ONLY <1>2, <1>4
<1>6. Holds(Pooled, k, ((sweep - 1) * V + u) + one)
  BY <1>3, <1>5, PooledOnceMore
<1>7. ((sweep - 1) * V + u) + one = (sweep - 1) * V + w
  <2>1. (sweep - 1) * V \in Nat
    BY ONLY <1>2, <1>4
  <2> QED
    BY ONLY <1>2, <2>1
<1>8. Holds(pooled', k, (sweep - 1) * V + w)
  BY <1>1, <1>6, <1>7
<1> QED
  BY <1>8 DEF V, w

LEMMA PoolBench == ASSUME BenchInv, Pool PROVE BenchInv'
<1>1. /\ Cells \in Nat /\ cell \in 1 .. Cells /\ Cells = GridSize(args.sizes)
      /\ args.sizes # <<>> /\ args.sweeps \in Nat /\ sweep \in 1 .. args.sweeps
      /\ TypeOK /\ phase = "batch"
  BY SizeNamed DEF Pool, BenchInv
<1>2. /\ phase' = IF cell = Cells /\ sweep = args.sweeps THEN "comparing" ELSE "measuring"
      /\ sweep' = IF cell = Cells /\ sweep < args.sweeps THEN sweep + 1 ELSE sweep
      /\ cell' = IF cell = Cells THEN 1 ELSE cell + 1
      /\ batch' = 0 /\ left' = 0 /\ sender' = Nobody /\ receivers' = 0
      /\ window' = EmptyWindow
      /\ UNCHANGED <<args, run, compared, fileVars>>
  BY DEF Pool
<1>3. phase' \in {"comparing", "measuring"}
  BY <1>2
<1>4. cell' \in Nat \ {0} /\ sweep' \in Nat \ {0}
  BY <1>1, <1>2, SMTT(30)
<1>5. TypeOK'
  <2>1. phase' \in Phases
    BY <1>3 DEF Phases
  <2> QED
    BY <1>1, <1>2, <1>4, <2>1, Afresh DEF TypeOK, fileVars
<1>6. Supplied' /\ Recovering'
  BY <1>3 DEF Supplied, Recovering
<1> DEFINE V(k) == Visits(args.sizes, k, GridSize(args.sizes))
<1>7. ASSUME NEW k
      PROVE  /\ V(k) \in Nat /\ Visits(args.sizes, k, 0) = 0
             /\ (sweep - 1) * V(k) + V(k) = sweep * V(k)
             /\ sweep * V(k) + 0 = sweep * V(k)
  <2>1. V(k) \in Nat /\ Visits(args.sizes, k, 0) = 0
    BY <1>1, OneMoreVisit
  <2>2. sweep \in Nat
    BY <1>1
  <2> HIDE DEF V
  <2>3. (sweep - 1) * V(k) + V(k) = sweep * V(k) /\ sweep * V(k) + 0 = sweep * V(k)
    BY ONLY <2>1, <2>2
  <2> QED
    BY <2>1, <2>3
<1>8. CASE cell < Cells
  <2>1. cell' = cell + 1 /\ sweep' = sweep /\ phase' = "measuring" /\ cell' - 1 = cell
    BY <1>1, <1>2, <1>8
  <2>2. ASSUME NEW k PROVE Holds(pooled, k, Made(k))'
    BY <1>2, <2>1, PoolCounts DEF Made
  <2>3. cell' \in 1 .. GridSize(args.sizes)
    BY <1>1, <1>8, <2>1
  <2>4. GridWalked'
    BY <1>1, <1>2, <2>1, <2>2, <2>3 DEF GridWalked
  <2> QED
    BY <1>2, <1>5, <1>6, <2>1, <2>4, GridStep
<1>9. CASE cell = Cells /\ sweep < args.sweeps
  <2>1. /\ cell' = 1 /\ sweep' = sweep + 1 /\ phase' = "measuring" /\ cell' - 1 = 0
        /\ sweep' - 1 = sweep /\ sweep' \in 1 .. args.sweeps
    BY <1>1, <1>2, <1>9
  <2>2. ASSUME NEW k PROVE Holds(pooled, k, Made(k))'
    <3>1. Holds(pooled', k, (sweep - 1) * V(k) + V(k))
      BY <1>1, <1>9, PoolCounts
    <3>2. Made(k)' = sweep * V(k) + 0
      BY <1>2, <1>7, <2>1 DEF Made
    <3>3. Made(k)' = (sweep - 1) * V(k) + V(k)
      BY <1>7, <3>2
    <3> QED
      BY <3>1, <3>3
  <2>3. cell' \in 1 .. GridSize(args.sizes)
    BY <1>1, <2>1
  <2>4. GridWalked'
    BY <1>1, <1>2, <2>1, <2>2, <2>3 DEF GridWalked
  <2> QED
    BY <1>2, <1>5, <1>6, <2>1, <2>4, GridStep
<1>10. CASE cell = Cells /\ sweep = args.sweeps
  <2>1. phase' = "comparing"
    BY <1>2, <1>10
  <2>2. ASSUME NEW k PROVE Holds(pooled', k, args.sweeps * V(k))
    <3>1. Holds(pooled', k, (sweep - 1) * V(k) + V(k))
      BY <1>1, <1>10, PoolCounts
    <3>2. (sweep - 1) * V(k) + V(k) = args.sweeps * V(k)
      BY <1>7, <1>10
    <3> QED
      BY <3>1, <3>2
  <2>3. Whole(pooled', args.sizes, args.sweeps)
    BY <1>1, <2>2 DEF Whole
  <2>4. GridWalked'
    BY <2>1 DEF GridWalked
  <2> QED
    BY <1>2, <1>5, <1>6, <2>1, <2>3, <2>4, GridStep
<1> QED
  BY <1>1, <1>8, <1>9, <1>10

\* Behind the grid only the files and what they are written from count.
LEMMA FileStep ==
  ASSUME BenchInv, TypeOK', ResultsKept', FilesOfRuns',
         phase' \in {"opening results", "writing results", "summarising", "drawing", "exited"}
  PROVE  BenchInv'
BY DEF BenchInv, GridWalked, Supplied, Recovering, RaisesForArgumentsOnly

LEMMA CompareBench ==
  ASSUME BenchInv, NEW outcome \in BOOLEAN, Compare(outcome)
  PROVE  BenchInv'
<1>1. /\ phase = "comparing" /\ phase' = "opening results"
      /\ UNCHANGED <<args, run, cell, sweep, batch, left, sender, receivers, window, pooled,
                     json, summary, charts, aesniChart>>
  BY DEF Compare, measureVars, fileVars
<1>2. TypeOK'
  BY <1>1 DEF BenchInv, TypeOK, Phases
<1>3. ResultsKept' /\ FilesOfRuns'
  BY <1>1 DEF BenchInv, ResultsKept, FilesOfRuns
<1> QED
  BY <1>1, <1>2, <1>3, FileStep

LEMMA OpenResultsBench == ASSUME BenchInv, OpenResults PROVE BenchInv'
<1>1. /\ phase = "opening results" /\ phase' = "writing results"
      /\ UNCHANGED <<args, run, cell, sweep, batch, left, sender, receivers, window, pooled,
                     summary, charts, aesniChart>>
  BY DEF OpenResults, measureVars
<1>2. /\ json'.state = "torn" /\ json'.run = run /\ json'.sizes = <<>> /\ json'.sweeps = 0
  BY DEF OpenResults, NoFile
<1>3. run' = run /\ run \in Nat /\ TypeOK
  BY <1>1 DEF BenchInv, TypeOK
<1>4. TypeOK'
  <2>1. phase' \in Phases
    BY <1>1 DEF Phases
  <2>2. json'.run \in Nat /\ json'.state \in {"none", "torn", "whole"}
    BY <1>2, <1>3
  <2>3. json'.sizes \in Seq(Int) /\ json'.sweeps \in Int
    <3>1. <<>> \in Seq(Int) /\ 0 \in Int
      OBVIOUS
    <3> QED
      BY <1>2, <3>1
  <2> QED
    BY <1>3, <1>1, <2>1, <2>2, <2>3 DEF TypeOK
<1>5. ResultsKept'
  BY <1>1, <1>2 DEF BenchInv, ResultsKept
<1>6. FilesOfRuns'
  <2>1. /\ {summary, charts, aesniChart} \subseteq 0 .. json.run /\ json.run <= run
        /\ json.run \in Nat /\ run \in Nat
    BY DEF BenchInv, FilesOfRuns, TypeOK
  <2>2. {summary', charts', aesniChart'} \subseteq 0 .. run
    <3>1. 0 .. json.run \subseteq 0 .. run
      BY <2>1
    <3> QED
      BY <1>1, <2>1, <3>1
  <2>3. json'.run = run' /\ run' <= run' /\ run' = run
    BY <1>3, <1>2
  <2> QED
    BY <1>1, <1>2, <2>2, <2>3 DEF FilesOfRuns
<1> QED
  BY <1>1, <1>4, <1>5, <1>6, FileStep

LEMMA WriteResultsBench == ASSUME BenchInv, WriteResults PROVE BenchInv'
<1>1. /\ phase = "writing results" /\ phase' = "summarising"
      /\ UNCHANGED <<args, run, cell, sweep, batch, left, sender, receivers, window, pooled,
                     summary, charts, aesniChart>>
  BY DEF WriteResults, measureVars
<1>2. /\ json'.state = "whole" /\ json'.run = run /\ json'.pooled = pooled
      /\ json'.sizes = args.sizes /\ json'.sweeps = args.sweeps
  BY DEF WriteResults
<1>3. TypeOK /\ args.sizes \in Seq(Int) /\ args.sweeps \in Int /\ run \in Nat
  BY DEF BenchInv, TypeOK
<1>4. TypeOK'
  BY <1>1, <1>2, <1>3 DEF TypeOK, Phases
<1>5. ResultsKept'
  <2>1. args.sweeps > 0 => Whole(pooled, args.sizes, args.sweeps)
    BY <1>1 DEF BenchInv, ResultsKept
  <2> QED
    BY <1>1, <1>2, <2>1 DEF ResultsKept
<1>6. FilesOfRuns'
  <2>1. /\ {summary, charts, aesniChart} \subseteq 0 .. json.run /\ json.run = run
    BY <1>1 DEF BenchInv, FilesOfRuns
  <2>2. json'.run <= run'
    <3>1. json'.run = run /\ run' = run /\ run \in Nat
      BY <1>1, <1>2, <1>3
    <3> QED
      BY <3>1
  <2> QED
    BY <1>1, <1>2, <2>1, <2>2 DEF FilesOfRuns
<1> QED
  BY <1>1, <1>4, <1>5, <1>6, FileStep

LEMMA WriteSummaryBench == ASSUME BenchInv, WriteSummary PROVE BenchInv'
<1>1. /\ phase = "summarising" /\ TypeOK /\ json.state = "whole" /\ pooled = json.pooled
      /\ args.sizes = json.sizes /\ args.sweeps = json.sweeps
      /\ json.sweeps > 0 => Whole(json.pooled, json.sizes, json.sweeps)
  BY DEF WriteSummary, BenchInv, ResultsKept
<1>2. CASE pooled = <<>>
  <2>1. json.sizes \in Seq(Int) /\ json.sweeps \in Int
    BY <1>1 DEF TypeOK
  <2>2. ~ (json.sweeps > 0)
    <3> SUFFICES ASSUME json.sweeps > 0 PROVE FALSE
      OBVIOUS
    <3>1. json.sweeps \in Nat \ {0}
      BY <2>1
    <3> QED
      BY <1>1, <1>2, <2>1, <3>1, WholeNotEmpty
  <2>3. Stops("raised")
    BY <1>2 DEF WriteSummary
  <2>4. ~ Usable(args.sizes, args.sweeps)
    BY <1>1, <2>2 DEF Usable
  <2> QED
    BY <2>3, <2>4, StopsBench
<1>3. CASE pooled # <<>>
  <2>1. /\ summary' = json.run /\ phase' \in {"drawing", "exited"}
        /\ UNCHANGED <<args, run, cell, sweep, batch, left, sender, receivers, window, pooled,
                       json, charts, aesniChart>>
    BY <1>3 DEF WriteSummary, measureVars
  <2>2. TypeOK'
    <3>1. phase' \in Phases
      BY <2>1 DEF Phases, Between
    <3> QED
      BY <1>1, <2>1, <3>1 DEF TypeOK
  <2>3. ResultsKept'
    BY <2>1 DEF BenchInv, ResultsKept
  <2>4. FilesOfRuns'
    <3>1. /\ {summary, charts, aesniChart} \subseteq 0 .. json.run /\ json.run <= run
          /\ json.run \in Nat
      BY <1>1 DEF BenchInv, FilesOfRuns, TypeOK
    <3>2. {summary', charts', aesniChart'} \subseteq 0 .. json'.run
      BY <2>1, <3>1
    <3> QED
      BY <1>1, <2>1, <3>1, <3>2 DEF FilesOfRuns
  <2> QED
    BY <2>1, <2>2, <2>3, <2>4, FileStep
<1> QED
  BY <1>2, <1>3

LEMMA DrawChartsBench ==
  ASSUME BenchInv, NEW matplotlib \in BOOLEAN, DrawCharts(matplotlib)
  PROVE  BenchInv'
<1>1. /\ phase = "drawing" /\ phase' = "exited"
      /\ charts' \in {json.run, charts} /\ aesniChart' \in {json.run, aesniChart}
      /\ UNCHANGED <<args, run, cell, sweep, batch, left, sender, receivers, window, pooled,
                     json, summary>>
  BY DEF DrawCharts, measureVars
<1>2. TypeOK'
  BY <1>1 DEF BenchInv, TypeOK, Phases, Between
<1>3. ResultsKept'
  BY <1>1 DEF BenchInv, ResultsKept
<1>4. FilesOfRuns'
  <2>1. /\ {summary, charts, aesniChart} \subseteq 0 .. json.run /\ json.run <= run
        /\ json.run \in Nat /\ json.state = "whole" /\ summary = json.run
    BY <1>1 DEF BenchInv, FilesOfRuns, TypeOK
  <2>2. {summary', charts', aesniChart'} \subseteq 0 .. json'.run
    BY <1>1, <2>1
  <2> QED
    BY <1>1, <2>1, <2>2 DEF FilesOfRuns
<1> QED
  BY <1>1, <1>2, <1>3, <1>4, FileStep

LEMMA NextBench == ASSUME BenchInv, [Next]_vars PROVE BenchInv'
<1>1. CASE \E sizes \in SizeLists, sweeps \in SweepCounts, draw \in BOOLEAN :
             Start(sizes, sweeps, draw)
  BY <1>1, StartBench
<1>2. CASE StartChartsOnly
  BY <1>2, StartChartsOnlyBench
<1>3. CASE Prepare \/ BeginBatch \/ TimeOne \/ EndBatch \/ Pool
  BY <1>3, PrepareBench, BeginBatchBench, TimeOneBench, EndBatchBench, PoolBench
<1>4. CASE \E b \in BOOLEAN : Compare(b) \/ DrawCharts(b)
  BY <1>4, CompareBench, DrawChartsBench
<1>5. CASE OpenResults \/ WriteResults \/ WriteSummary
  BY <1>5, OpenResultsBench, WriteResultsBench, WriteSummaryBench
<1>6. CASE Killed
  <2>1. Stops("killed")
    BY <1>6 DEF Killed
  <2> QED
    BY <2>1, StopsBench
<1>7. CASE UNCHANGED vars
  <2>1. UNCHANGED <<phase, args, run, cell, sweep, batch, left, sender, receivers, window,
                    pooled, compared, json, summary, charts, aesniChart>>
    BY <1>7 DEF vars, measureVars, fileVars
  <2>2. UNCHANGED <<Size, Operation, Ops, Budget>>
    BY <2>1 DEF Size, Operation, Ops, Budget
  <2>3. TypeOK' /\ GridWalked' /\ Recovering'
    BY <2>1, <2>2 DEF BenchInv, TypeOK, GridWalked, Made, Recovering
  <2>4. Supplied'
    BY <2>1, <2>2 DEF BenchInv, Supplied, Begun, Measurable
  <2>5. ResultsKept' /\ FilesOfRuns' /\ RaisesForArgumentsOnly'
    BY <2>1 DEF BenchInv, ResultsKept, FilesOfRuns, RaisesForArgumentsOnly
  <2> QED
    BY <2>3, <2>4, <2>5 DEF BenchInv
<1> QED
  BY <1>1, <1>2, <1>3, <1>4, <1>5, <1>6, <1>7 DEF Next

-----------------------------------------------------------------------------
(***************************************************************************)
(* The theorems                                                            *)
(***************************************************************************)
\* Wherever an invocation stands, what it has pooled is what the walk over the grid
\* has passed, what a measurement has left is what its batches to come need, and the
\* results on disk are those of so many whole sweeps (run_measurements, run_batch).
THEOREM BenchAccounted == Spec => []BenchInv
<1>1. Init => BenchInv
  BY InitBench
<1>2. BenchInv /\ [Next]_vars => BenchInv'
  BY NextBench
<1> QED
  BY <1>1, <1>2, PTL DEF Spec

\* Limits and receivers cover the warm-up and every timed batch, whatever the sizes
\* and numbers: an invocation raises for its arguments or for torn results, never
\* because a measurement ran out (perf.py:307, 342).
THEOREM NeverRunsOut == Spec => []RaisesForArgumentsOnly
<1>1. BenchInv => RaisesForArgumentsOnly
  BY DEF BenchInv
<1> QED
  BY <1>1, BenchAccounted, PTL

\* No record that recover times is a duplicate of one timed before: the receiver of
\* a batch has accepted every record of the batch (perf.py:325).
THEOREM EveryRecordFresh == Spec => []TimesOnlyRecoveries
<1>1. BenchInv => TimesOnlyRecoveries
  BY DEF BenchInv, Recovering, TimesOnlyRecoveries
<1> QED
  BY <1>1, BenchAccounted, PTL

\* Results that are whole hold, for each measurement, the samples of every sweep and
\* of every time its size was named (425-429).
THEOREM PoolsComplete == Spec => []ResultsComplete
<1>1. BenchInv => ResultsComplete
  <2> SUFFICES ASSUME BenchInv, json.state = "whole", json.sweeps > 0,
                      NEW i \in DOMAIN json.sizes,
                      NEW s \in {"aes-gcm", "chacha20-poly1305"},
                      NEW o \in {"protect", "recover", "seal", "open"}
               PROVE  LET k == <<s, o, json.sizes[i]>>
                          made == json.sweeps * Reps * Occurrences(json.sizes, json.sizes[i])
                      IN  /\ k \in DOMAIN json.pooled
                          /\ json.pooled[k] = [samples |-> made, batches |-> made]
    BY DEF ResultsComplete
  <2> DEFINE k == <<s, o, json.sizes[i]>>
             n == Occurrences(json.sizes, json.sizes[i])
             t == json.sweeps
  <2>1. Whole(json.pooled, json.sizes, t) /\ json.sizes \in Seq(Int) /\ t \in Nat \ {0}
    <3>1. json.sizes \in Seq(Int) /\ t \in Int /\ t > 0
      BY DEF BenchInv, TypeOK
    <3>2. Whole(json.pooled, json.sizes, t)
      BY DEF BenchInv, ResultsKept
    <3> QED
      BY <3>1, <3>2
  <2>2. Visits(json.sizes, k, GridSize(json.sizes)) = n /\ n > 0
    BY <2>1, VisitsAreOccurrences
  <2>3. Holds(json.pooled, k, t * n)
    BY <2>1, <2>2 DEF Whole
  <2>4. n \in Nat
    <3>1. GridSize(json.sizes) \in Nat
      BY <2>1 DEF GridSize
    <3> QED
      BY <2>2, <3>1, OneMoreVisit
  <2> HIDE DEF n, k, t
  <2>5. t * n > 0 /\ Reps * (t * n) = t * Reps * n
    BY <2>1, <2>2, <2>4, Parameters
  <2>6. k \in DOMAIN json.pooled
    BY <2>3, <2>5 DEF Holds
  <2>7. json.pooled[k] = [samples |-> t * Reps * n, batches |-> t * Reps * n]
    BY <2>3, <2>5 DEF Holds
  <2> QED
    BY <2>6, <2>7 DEF n, k, t
<1> QED
  BY <1>1, BenchAccounted, PTL

\* Summary and charts never come of a later run than the results beside them, and an
\* invocation that exits leaves the summary of those results (perf.py:548-549).
THEOREM ArtefactsAgree == Spec => []ArtefactsOfOneRun
<1>1. BenchInv => ArtefactsOfOneRun
  BY DEF BenchInv, FilesOfRuns, ArtefactsOfOneRun
<1> QED
  BY <1>1, BenchAccounted, PTL
=============================================================================
