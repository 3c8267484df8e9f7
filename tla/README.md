# A verified model of the secure record protection subsystem

These TLA+ modules model the Python package `srp` and the programs around it
(`demo/`, `bench/`, `run_all.py`). TLC checks them on small instances; TLAPS
proves the central theorems for every value of the constants. Every definition
is translated from the source; `PROJECT.json` maps it to its lines.

    tlc -workers 2 -config MCReplayGuard.cfg MCReplayGuard     # one run
    tlapm ReplayGuardProofs.tla                                # one proof module

## 1. The system

A sender protects records with an AEAD under a counter nonce; the records cross
a network owned by an active attacker; a receiver parses, checks for replay,
authenticates, and only then moves its replay state.

| Component | State | Operations | What makes it correct |
|---|---|---|---|
| replay protection (`replay.py`) | per stream: highest number, bitmap, counter; the table of streams | check, commit, reset, snapshot | a taken number is never FRESH again; refusals are justified; bounded memory |
| nonces (`nonce.py`) | prefix, next number, issued, limit | construct, allocate | no nonce twice from one manager; never out of range; exhaustion is final |
| sender (`sender.py`) | a manager, counters | seal, protect, protect_many | what is returned was sealed, and never handed out before nor dropped by a failed batch; failures only cost budget |
| receiver (`receiver.py`) | a replay guard, counters | receive, a fresh object | delivers what was sent, once; rejected input leaves no trace |
| wire format (`header.py`) | none | to_bytes, from_bytes, parse_record | parsing and serialising are inverse on all that parses |
| suites (`suites.py`) | a key | seal, open | external AEAD, taken as ideal |
| session (`session.py`) | a sender and a receiver | create_channel, send, deliver | the composition above |
| malicious actor (`adversary.py`) | a random generator | about twenty rewritings of a record | none: it is the environment |
| network demonstration (`run_network_demo.py`) | three threads, two TCP connections, two logs | relay, judge | ends; implements its plan; no torn frame is judged; logs line up |
| interactive demonstration (`interactive.py`) | one channel across menu choices | TR-1 to TR-6, run all, reset | shows FAIL only for attacks that altered nothing |
| scripted demonstrations (`run_demo.py`) | channels, outcomes | TR-1 to TR-7 as fixed scripts | a requirement fails by chance only; narration never raises |
| performance evaluation (`perf.py`) | senders, receivers, pooled samples, files in `evidence/` | measure, pool, write, regenerate | budgets suffice; recoveries are timed, not rejections; files describe one run |
| evidence pipeline (`run_all.py`, `evidence.py`, `nonce_analysis.py`) | stage results, outcomes, files | stages, checks, writes | exit code 0 covers no failure |

How they interact: `Sender.seal` calls the nonce manager, builds the header and
calls the suite with the header as associated data. `Receiver.receive` calls the
parser, the replay guard's `check`, the suite, and the guard's `commit`. Inside
`srp` everything is a synchronous call from one thread: there is no lock, no
callback and nothing persisted. Concurrency exists in the network demonstration
(three threads, sockets, timeouts) and between processes in the pipeline.

What is hard: two calls, `check` and `commit`, with authentication between them
and the second one's result ignored; arithmetic at the edge of the window and at
the end of the sequence space; exceptions after a nonce is spent; restarts of
either side; an attacker that chooses order, number and content of deliveries;
joins that time out, and frames they cut in two; scripts whose checks depend on
what earlier steps did to a shared channel; files of interrupted runs.
`PROJECT.json` lists these as hazards, each at its line.

## 2. Modules

| Module | Models |
|---|---|
| `ReplayWindow` | `ReplayWindow` as pure operators. A bitmap is the set of offsets below the highest number |
| `ReplayGuard` | `ReplayGuard`: actions `Commit`, `CommitRefused` (cap), `Reset`; `GuardCheck`, `GuardTakes` are what `check` and `commit` return. `accepted` is history |
| `AntiReplay` | abstract: a set of taken numbers per stream, nothing else |
| `ReplayBitmap` | the window's operators once more on the integer bitmap (shift, mask, or), compared with the sets over every window a guard reaches |
| `ReplayGuardProofs` | theorems about `ReplayGuard` and `ReplayBitmap`; the lemmas on sums and powers of two they rest on |
| `NonceManager` | `NonceManager` and `derive_nonce` as pure operators |
| `Sender` | any number of senders in any interleaving; `protect_many` is a start, one step per seal, and an end or a failure. `sealed`, `returned` (the numbers callers were given, in order) and `dropped` (what failed batches took with them) are history |
| `SenderProofs` | theorems about `Sender` |
| `Records` | records as terms, the ideal AEAD, what parses |
| `Adversary` | what each family of `MaliciousActor` methods can make of observed records: any other header over a body, damaged and cut bodies, splices, forgeries of any header under the attacker's own key |
| `Receiver` | `receive` (one action: it is synchronous), `_reject`, a new receiver |
| `SecureChannel` | senders, attacker and receiver together, with receiver restarts; a sender restart is a second sender of the same session and stream with a new prefix; `BurnsNonce` is a seal that raises after the allocation |
| `ChannelProofs` | theorems about `SecureChannel` |
| `IdealChannel` | abstract: deliver what was sent, each place of a stream once |
| `WireFormat` | the format byte by byte, and changes on the way |
| `WireProofs` | theorems about `WireFormat` |
| `NetworkDemo` | main, actor and receiver threads; frames cross the two connections in pieces; an exception in the send loop closes the socket (`LeaveSending`) before it ends the program (`ProgramEnds`), and the daemon threads run on in between |
| `DemoPlan` | abstract: the verdicts the actor's plan calls for, in order, and PASS over all of them |
| `NetworkDemoProofs` | theorems about `NetworkDemo`, the refinement of `DemoPlan` among them |
| `InteractiveDemo` | the menu and the six demonstrations as scripts of steps on one channel |
| `InteractiveProofs` | theorems about `InteractiveDemo` |
| `ScriptedDemos` | `run_demo.py` for one suite: the seven scripts as sequences of sends, attacks, deliveries and checks |
| `ScriptedProofs` | theorems about `ScriptedDemos` |
| `Benchmark` | successive invocations of `perf.py` over one evidence directory, interrupted anywhere, `--charts-only` included |
| `RunAll` | `run_all.py` with the demonstrations, `Evidence`, the analysis and `perf.py` as child processes |
| `EvidenceProofs` | theorems about `RunAll` and `Benchmark`, the two programs that write `evidence/` |

`SecureChannel` is composed of `Receiver` (which instantiates `ReplayGuard`),
`Adversary`, `Records` and `NonceManager`. `ReplayGuard`, `NetworkDemo` and
`InteractiveDemo` extend `ReplayWindow`; `ReplayBitmap` extends `ReplayGuard`;
`ScriptedDemos` puts `Records` together with windows of several sizes, and
`Benchmark` a nonce manager with a window. Three abstract specifications are
implemented under a refinement mapping: `AntiReplay` by `ReplayGuard`,
`IdealChannel` by `SecureChannel`, `DemoPlan` by `NetworkDemo`. Operators named `X_Something` and marked
`(mutant)` are broken versions of `X`; `PROJECT.json` pairs each property with
one that violates it. No specification uses them.

What the model abstracts, and why it may:

* Payloads, keys, prefixes and sessions are model values. The AEAD opens exactly
  what was sealed under the same key, suite, nonce and associated data. A random
  coincidence (an equal 128-bit session, a guessed tag) does not happen, except
  where a property is about it: equal prefixes are enumerated in `Sender`.
* In `SecureChannel` a header is its own AAD; `WireFormat` shows why this is sound.
* In `Records` the policy limit on lengths and the constant 40 + 16 bytes are left
  out; `WireFormat` has them.
* `Sender` and `NonceManager` have 4 sequence numbers in TLC, any number in the
  proofs. The code has 2^64.
* In `NetworkDemo` a frame is three pieces, the first its length; `sendall` writes
  them one by one as the connection takes them, `recv_exact` collects them, and a
  timeout or the end of a thread may come between any two. `slow` is chosen once per
  run: whether a 20-second wait can happen in it. `main` passes through "raising"
  and "raised" (socket closed, program ended) when an exception leaves the send
  loop, and through "done" and "exited" when the result is printed; what the other
  suite's run does before the program ends is left out. `RecordLimit` is the budget
  of the key, 2^24 in the code.
* `ScriptedDemos` draws every channel's prefix from a small set, so that prefixes
  can coincide. Flags and record type are one field, as in `Records`. Two checks call
  no receiver and are left out (a marker in the ciphertext, a direct AEAD open).
  A narration that cannot describe a verdict raises at the verdict, which is a
  few lines early.
* `Benchmark` counts samples and forgets durations. Writing the results is two
  steps, as `write_text` truncates first; the summary and the charts are one each,
  since nothing reads them.
* `InteractiveDemo` leaves out end of input and keyboard interrupts. The second
  receiver of TR-6, with a wrong key, is fresh and touches nothing.
* In `RunAll` the options of the children are those run_all passes; `Pending`
  is FALSE at this commit, where no module carries the stub sentinel.

## 3. Runs

| Run | Instance | Shows |
|---|---|---|
| `guard` | 3 streams, room for 2, window 3 (size 0 is left to the proofs), numbers -1..6: one negative, and up to a jump past two windows | all guard properties, refinement of `AntiReplay`; the integer bitmap gives the same verdicts and windows, and its snapshot loses nothing |
| `sender` | 2 senders, 2 keys, 2 prefixes, space of 4, batches of 2 and 3 | all sender properties; a failed batch may drop two numbers with budget left to retry |
| `channel` | 5 senders: one, the same after its restart, one in another session that numbers from 2 on, one on another stream that may spend its number on a record it cannot encode, one under another key; an attacker with 33 headers to write; 3 streams, room for 2; receiver pinned or not, restarting once | ideal channel, counters, verdicts, the inductive invariant of the proofs |
| `wire` | binary "bytes", every field at both ends of its range, 2 changes | the format hides no change |
| `network` | the code's own plan, 8 record counts: negative, none, on both sides of its indices, the whole budget (12 records) and one beyond it; frames of 3 pieces, connections of 7, with no long wait or with timeouts anywhere | ends; without long waits prints PASS for exactly the counts from 0 to the budget; implements `DemoPlan` and judges no torn frame under timeouts |
| `interactive` | window 2, 7 sends per channel | demonstrations in any order |
| `scripted` | the scripts' own windows (64 and 8), attacks and sweep lengths (session and sequence fields 24 bits), 3 prefixes with TR-4's among them, `--records` 0, 1, 70 and both sides of the budget, 3 restarts | FAIL by coincidence only; exceptions for record counts only |
| `benchmark` | 3 invocations; 1 size, 2 sizes, one size twice, sizes that cannot be measured; 0 to 2 sweeps; 2 timed batches of 2 to 4 operations | budgets, freshness of what is timed, pooling, consistency of the files |
| `pipeline` | 2 configurations of 2 demonstrations | exit code, gate, transcripts |

Three runs expect a violation. They state what a document says and the code does
not do (`PROJECT.json`, findings):

| Run | Said | Done |
|---|---|---|
| `guard_eviction` | at the limit the least recently used stream is evicted (`REPORT.md:922`) | the new stream is refused, for ever |
| `sender_keybudget` | the record budget is per key (`sender.py:62`) | it is per sender object |
| `pipeline_regenerated` | `run_all` regenerates every file or fails (`README.md:93`) | charts can be missing at exit code 0 |

### Why the bounds are enough

* Windows: the code compares a number with the highest one and with the edge of
  the window. A window of 3 with numbers on both sides of every edge and a jump
  over a whole window takes every branch; a window of 2 in the channel still has
  an inside, an edge and an outside. Size 0, which the constructor does not refuse,
  is in no run: `ReplayProtection`, `MemoryBounded` and the other theorems about the
  guard hold for every size and cover it.
* Senders: two managers are the least that can clash, and a space of 4 lets ranges
  be disjoint, overlapping, equal and at the end of the space. With budgets of 2 and
  3 and batches of 2 and 3 a batch can fail after one or two seals, with budget left
  or spent, and be tried again.
* Channel: each sender adds a family of terms, so limits are 1 to 3 records, `says`
  fixes which types and payloads its application hands it, and `misfits` whether
  some of them raise after the allocation. `ForgedHeaders` is what the attacker
  writes, into records it observed and into its own forgeries: every session, stream
  and number under one label and prefix, every label (suite, type, length) in the
  place of the first record and in one that shares nothing with it, and two headers
  of another protocol version. So one field is changed, several, and all; as `Opens`
  refuses every header but the one sealed, more of them add time and no states.
  The proofs take any set of headers.
  `MaxRejects` (1) bounds a counter that nothing reads, `MaxRestarts` (1) suffices
  as a restart forgets everything. All of them are guards of actions, named in
  the module, or constants of the configuration.
* Wire: fields are 1 or 2 digits wide in base 2, so every value of a field occurs.
* Network: `RecordLimit` is 12 instead of 2^24: the default count spends the whole
  budget, and one record more meets its end with both threads at work. Connections
  of 7 pieces hold two frames and a part of a third, so they block every thread
  inside a frame and between two; three pieces give a frame an inside.
* Scripted: the numbers are the program's where a check depends on them (window
  sizes, delivery order, 64 records to exhaustion, 64, 128 and 256 repetitions);
  three restarts suffice for a coincidence, two of the prefixes never coincide with
  TR-4's.
* Benchmark: what one invocation leaves decides the next, and a third one shows that
  nothing more is carried over. `MaxRuns` is the bound.
* Interactive: 7 sends let TR-6's forged number fall ahead of, inside and behind
  the window.

Deadlock is not checked where the program ends (`NetworkDemo`, `ScriptedDemos`,
`Benchmark` after `MaxRuns`, `RunAll`, and Quit in `InteractiveDemo`) and where a bound stops it (`WireFormat`, `SecureChannel`).

### Fairness

Only `NetworkDemo` needs it: weak fairness of each thread's step. The operating
system runs every thread that can run, and each wait in the program is a guard
of an action here. No fairness is assumed of particular frames, timeouts or
outcomes. `Terminates` covers the runs without long waits too, where the program
cannot be saved by its own timeouts. Main's fairness covers the end of the program:
an exception, or the return from `main`, ends the interpreter, as both threads are
daemons (`run_network_demo.py:195`). `srp` itself promises no liveness: it is a library.

## 4. Proofs

Every invariant and action property of the passing runs is proved for all values
of the constants; so are the three refinements.

### Induction and recursion

The library's induction theorems take an operator as a parameter, which the
provers cannot instantiate. Here induction is over sets of numbers:
`InductionOnNat` says that a set that holds 0 and with each number the next holds
all, and follows from the well-foundedness of `<` (`NatLessThanWellFounded`,
`WFMin`); `InductionOnSubsets` does the same for the subsets of a finite set. A
recursive function is known to satisfy its equation only once a solution is shown
to exist: `RecursionSolved` (for `Capacity` and `Unpack`) and `SumExists` (for the
community modules' sum over a set) build one. The provers know nothing of `^`
either, so `2^n` and `Base^n` are the recursive functions `Pow2` in `ReplayBitmap`
and `Capacity` in `WireFormat`.

### Replay guard

`ReplayGuardProofs` assumes only that the window size is a natural number, the cap
is one, and sequence numbers are integers. The inductive invariant is
`HistoryExact`: each window's bitmap is exactly the set of offsets of accepted
numbers within reach, its highest number is the largest accepted one, its counter
the number of them. `AtMostOnce` alone is not inductive: that a number is
remembered after the next slide depends on the bitmap holding every other one.
The argument: `TakesIffFresh` (commit's branches and check's agree),
`CommitKeepsExact` (one commit preserves exactness, with the cases ahead of and
inside the window), then one lemma per action, then the theorem. The safety
theorems follow from the invariant; `OnlyResetForgets` and `GuardKeepsPromise` use
it for each step.

`BitmapExact` carries these theorems to the integers of the code. The value of a
set of offsets is the sum of their powers of two; below `Pow2[n]` there is room for
the offsets below `n` only (`ValBound`), so a set's value splits at any offset into
a quotient and a rest (`ValSplit`). Testing a bit, masking and shifting are
therefore membership, intersection with the window, and moving every offset
(`ValBit`, `ValMask`, `ValShift`). `SnapshotExact` is the mask's case once more.

### Senders

`SenderProofs` has the invariant `Ledger`: a manager's next number is its start
plus what it issued, within its range, and the nth seal of a sender carries the
nth number of that range. `NonceReuseNeedsClash` needs it because the history of
seals, not the counter, is what must not contain an equal pair. Two properties
need a second invariant on top of it: `Counted` (the seals of a sender are finitely
many and each AEAD call adds one with a new nth, so the statistics count them) and
`Accounted`: the numbers a sender has returned and those its open batch holds
(`Handed`) are, in this order, an ascending sequence of numbers of sealed records,
none of which a failed batch dropped, and the dropped ones are of sealed records
too; with `Ledger`, all of them lie below the counter. So the number a seal is about to use is new (`NextIsNew`), and
since failures never lower the counter it stays so. `returned` and `dropped` are
kept apart for this: a set of returned numbers would not show one returned twice.
`NoWayBack` uses `Ledger` for each step.

### Channel

`ChannelProofs` has the invariant `ChannelExact`: every record on the wire was
sealed as its sender numbered it (header its own associated data, the length the
payload's), the guard is exact about its history (`HistoryExact`), that history is
the set of delivered records, and the counter their number. The heart is
`AcceptedWasSent`: of all the attacker can build (any other header, a damaged or cut
body, a splice, a forgery), what opens is a record that was sent. It assumes of
cryptography the operator `Opens` and that the attacker's key is not the
receiver's (`KeyAssumption`); of the configuration that senders have sessions,
streams and ranges of numbers the receiver can meet (`ConfAssumption`). `AcceptEffect` adds,
from the guard's lemmas, that an accepted record's place was empty and that
its commit takes effect. The lemmas of `ReplayGuardProofs` are used for the
receiver's instance of the guard; as an instance has its own copy of each
operator, the first section shows that the copies agree. `EachDeliveredOnce` adds
the sum of delivered bytes: an accepted record is not in the set yet, so the sum
grows by its length (`SumStep`); an empty message would slip through a count of
bytes alone, which is why the counter of records is part of the property.

### Wire format

`WireProofs` holds for every base above 1, every width of every field and every
limit; it assumes of the caller's input that bytes are bytes (`InputAssumption`).
`UnpackPack` and `PackUnpack` make packing a bijection between the numbers below
`Capacity[w]` and the strings of `w` bytes, by induction over the digits with
`DropDigit`; `HeaderReserialised` and `HeaderWritten` lift it to headers by joining
and taking apart adjacent fields. The invariant needed of the wire is only that it
carries bytes: `AuthenticatesWhatCame` then says that a receiver that authenticates
its own serialisation of a header authenticates the one that came, and
`NoSecondEncoding` follows.

### Network demonstration

`NetworkDemoProofs` holds for every integer as record count, every budget, frame
length and buffer size, and every plan in which a replay finds a record still in the window (`PlanAssumption`, checked
for the code's plan by TLC). `DemoInv` says:

* both connections, with what their reader holds of a frame and their writer has
  written of one, are a run of whole frames (`Flows`): of the records from the
  actor's index on, and of the entries of the actor's log from the receiver's on;
* the log is the plan's (`LogPlanned`), and every verdict so far, the window and the
  counters are what the entries answered so far call for (`Heard`);
* where the threads are, relative to each other (`Control`), and that counters seen
  at the first judgement only grow until the second (`Judgement`).

None of the properties is inductive without the first: that the next frame judged
is the next one logged is a fact about pieces in two buffers. There is one lemma
per action; the relay of a replay and the judgement of a frame are the long ones.
`PlanCarriedOut` maps each step to `DemoPlan`: the receiver's verdict is a step of
the abstract run, and so is the judgement, which says PASS exactly when
`CountersBound` and `ExpectedCounts` force every verdict to be in. For a negative
count the plan calls for nothing (`CalledTotal`) and no counter can be what is
expected (`NoneExpected`).

`NoFrameTorn` says where a thread can take a cut frame for the end of its stream:
the actor only after an exception in main's send loop, while the traceback is on its
way, and the receiver only behind an actor that died, in a run that does not print
PASS. `PromptRunsPass` says what a run without long waits prints for every integer:
PASS from 0 to `RecordLimit`, FAIL below, and nothing beyond, where `protect` raises.

### Interactive demonstration

In `InteractiveProofs` the script can be cut anywhere, so the invariant
(`SessionInv`) is local: `Orderly` says which step may stand before which, and
`Reliable` what the step at the head can rely on (a record just sent is in front of
the window, a record delivered again is at its highest number). `NeverPoisoned` is
part of it, since the next genuine record must be FRESH. `WindowSize > 0` is assumed:
with 0 a record delivered again is out of date, not a replay, and TR-5 would fail.

### Scripted demonstrations

`ScriptedProofs` holds for every set of prefixes the channels draw from, whatever
the length of the header sweep (`FieldMasks`), every `--records`, every number of
restarts, every replay window of the policy, and every budget that covers the
scripts: `DemosAssumption` asks for 387 records (TR-3's) and for the sweep's, of
2^24 (`session.py:27-36`). The scripts themselves, and the
window of 8 of TR-5, are the code's. `ValuesAssumption` says that where TR-4 writes
a field there is another value to write.

* What a script does at each step is a table first (`TR1Steps` to `TR7Steps`): a
  script joins parts, and `Joins` says what stands where in the whole.
* A delivery is judged by the record and the window alone: `BelowIsFresh` (a number
  ahead of the window), the refusals of `Verdicts` (damaged, cut, rewritten, forged),
  and what a commit does to the window (`Shows`).
* `ScriptsInv` says of each script what channels it has opened, how many records each
  has sent, and where the windows stand, at each of its steps: `Steady` (TR-1 to
  TR-3), `Swept` (TR-4), `Replayed` (TR-5), `Keyed` (TR-6), `Budgeted` (TR-7). A
  check's outcome is a consequence, which is why `FailsByChanceOnly` is not inductive:
  that TR-5 is told of a stale record depends on 32 sends and ten deliveries before it.
* There is a lemma for each phase of each script, and `SteadyStep`, `SweptStep`,
  `ReplayedStep`, `KeyedStep` and `BudgetedStep` put them together. In TR-4 nothing is accepted unless the sender drew the very prefix
  that is written; in TR-7 a check fails only if two restarts drew the same one. The
  proof shows that these are the only two places where the prefix matters.

### Benchmark

`BenchInv` ties the one counter that walks the grid to size, operation and suite
(`KeyAt`), each pool to how often the walk has passed its measurement (`Made`),
budget and receivers to the operations still to be timed (`Supplied`), the window
to those timed (`Recovering`), and the files to runs (`FilesOfRuns`). Sizes can be
named twice: `VisitsAreOccurrences` counts the positions of the grid with one
measurement. It is assumed that at least one
size is named: an empty `--sizes` is the default (`perf.py:1001`).

### Pipeline

`PipelineInv` keeps two accounts: stages noted, running and queued are one walk
along the list (`OnTheWay`), and every failed check is in a saved transcript, in the
open one, or in the open demonstration (`Account`). Exit code 0 is about the former,
the truth of transcripts about the latter, and `ZeroMeansPassed` needs both.

### The theorems

| Theorem | Property |
|---|---|
| `GuardExact` (`TypeCorrect`) | `HistoryExact`, which contains `TypeOK` |
| `ReplayProtection` | `AtMostOnce` |
| `NoFalseAlarm` | `VerdictsJustified` |
| `CommitMatchesCheck` | `CommitAgreesWithCheck` |
| `MemoryBounded` | `BoundedMemory` |
| `OnlyResetForgets` | `NeverForgets` |
| `GuardKeepsPromise` | `ImplementsAntiReplay` |
| `BitmapExact` | `IntegersAgree` |
| `SnapshotExact` | `SnapshotLossless` |
| `LedgerKept` (`SenderTypeCorrect`) | `Ledger`, which contains `TypeOK` |
| `NonceUniqueness` | `NonceReuseNeedsClash` |
| `NoOverflow` | `NeverOverflows` |
| `NoWayBack` | `ExhaustionIsFinal` |
| `StatisticsTrue` | `StatsCountSeals` |
| `NoNumberReturnedTwice` | `ReturnedOnce` |
| `ChannelKept` | `ChannelExact`, which contains `ChannelTypeOK` |
| `ChannelIsIdeal` | `ImplementsIdealChannel` |
| `GuardRemembersDeliveries` | `GuardMirrorsDelivered` |
| `GenuineJudgedAlone` | `GenuineVerdict` |
| `EachDeliveredOnce` (`DeliveriesCounted`) | `DeliveredOnce` |
| `AuthenticatesWhatCame` | `ReserialisesExactly` |
| `RoundTrip` | `UntouchedParses` |
| `NoSecondEncoding` | `ChangeIsVisible` |
| `DemoAccounted` | the invariant `DemoInv` |
| `PrintedSideBySide` | `LogsLineUp` |
| `NoFrameTorn` | `FramesStayWhole` |
| `PromptRunsPass` | `AlwaysPasses` |
| `PlanCarriedOut` | `ImplementsPlan` |
| `SessionOrderly` | the invariant `SessionInv` |
| `FailuresExplained` | `FailMeansUnaltered` |
| `WindowNeverPoisoned` | `NeverPoisoned` |
| `ScriptsInvariant` | the invariant `ScriptsInv` |
| `FailsOnlyByChance` | `FailsByChanceOnly` |
| `RaisesOnlyForRecords` | `RaisesForRecordsOnly` |
| `BenchAccounted` | the invariant `BenchInv` |
| `NeverRunsOut` | `RaisesForArgumentsOnly` |
| `EveryRecordFresh` | `TimesOnlyRecoveries` |
| `PoolsComplete` | `ResultsComplete` |
| `ArtefactsAgree` | `ArtefactsOfOneRun` |
| `PipelineAccounted` | the invariant `PipelineInv` |
| `ZeroOnlyIfPassed` | `ZeroMeansPassed` |
| `EvidenceGated` | `TestsGateEvidence` |
| `TranscriptsNeverLie` | `TranscriptsTruthful` |

Model-checked only: `Terminates`, as liveness under fairness is out of the prover's
reach. The three expected violations are counterexamples.

## 5. Not modelled

The ciphers; randomness and its collision probabilities (`nonce.py:217-234`,
`nonce_analysis.py`), which are floating-point; timing, statistics and drawing in
`perf.py`; formatting (`util.py`, `summary`, `describe`); `SessionPolicy.with_` and
`Channel.roundtrip`, which only combine what is modelled. `NonceManager.allocate` is
not safe for two threads; nothing in the repository shares a sender, so no
model shows it. Of `errors.py` the hierarchy is left out: it holds no state, and
each module says where an exception cuts an operation short.

## 6. Plan

The order was: replay window and guard, with abstract promise and proofs; nonces
and senders, with proofs; the channel with the attacker; the format; the
demonstrations; the pipeline; the framing of the network demonstration, the scripts
of `run_demo.py`, the benchmark; then the proofs about the integer bitmap, the bytes
of the format, the demonstrations, the benchmark and the pipeline, the scripts last.
What is left is to join the wire format and the channel: that `Records`' term for a
header stands for the bytes `WireFormat` gives it, so that `ChannelExact` speaks of
bytes too.
