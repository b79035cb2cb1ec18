# continuous-auth: a TLA+ model with proofs

This directory holds TLA+ modules of the continuous-authentication system in
this repository, TLC configurations that model-check them, and TLAPS proofs
about them. `PROJECT.json` is the index: components, runs, the source lines
every definition stands for, a mutant for every checked property, the known
disagreements between code and documents, the hazards, and the theorems.

    tlc -config MCEnforcement_serial.cfg MCEnforcement
    tlapm EnforcementProofs.tla

## 1. Inventory

A collector on the participant's machine captures input and context events and
sends them over a named pipe to one backend process. The backend cuts them into
windows, scores each window against the user's model profile, fuses the scores
into a risk level, lets a policy turn the level into an action, and moves an
enforcement posture that the API gates on. The participant gets back down by
answering challenges. All of it is written to SQLite, an audit log and an event
stream. A user's state (ENROLLING, CALIBRATING, ACTIVE, DEGRADED) decides
whether an action may be enforced at all.

Three kinds of thread meet in the backend: the event loop, which owns the pipe
loop, the heartbeat watchdog and every window; the API's thread pool; and the
prompt process of the native adapter. The collector is a single thread.

| Component | State it keeps | Operations | Hard behaviour | What makes it correct |
|---|---|---|---|---|
| posture (`decisions/session.py`) | posture, last transition; one lock per section | decision, challenge outcome, read | two lock sections in one operation; decisions against answers | a decision never lowers it, a stale soft answer never unwinds an escalation, a way back exists |
| challenges (`decisions/challenge.py`) | registry of pending challenges, credential | open, scheduled open, reauthentication, respond, expire, discard | answers racing answers and sweeps; expiry while nobody looks | one settlement per challenge; none lost on the way to the ladder; prompts are routine |
| coordinator, adapters (`decisions/adapters.py`, `native.py`, `prompt.py`) | verification sink, prompt processes | execute a decision | the prompt process fails after the challenge is open | every applied action reaches the posture |
| gate and API (`api/routes.py`, `backend.py`) | none of their own | gate, respond, reauth, status, shadow mode | sweep and read are two steps; save and apply are two steps | the gate sees every expiry; the mode applied is the mode saved |
| policy (`decisions/policy.py`) | stamp per action, deque of applied times | decide | boundaries of cooldown and window | budget in every window, spacing per action, never starvation |
| risk engine (`risk/engine.py`) | history, EWMA, level | process, fail, recover | hysteresis, gating, recovery in the middle of a window | no snap judgement; the level falls exactly on sustained quiet |
| user state (`risk/state.py`, orchestrator) | state, state before degradation, counts, users table | progress, degrade, recover, restart | writes that raise, restarts, profile changes, drills | states are earned; memory, table and records agree; DEGRADED is left |
| tracker, decoder, pipe (`ingestion/`, `runtime/service.py`, `named_pipe.py`) | expected number, last capture time, gap counter, partial frame | feed, recover, reset | partial frames, raising sinks, reconnects | the gap counter is what was lost; nothing accepted twice or refused wrongly |
| collector (`collector/src`) | numbering, bounded buffer, pending frame | hook, context, heartbeat, send, reconnect | overflow, cut-off writes, restarts | everything captured leaves in order, once |
| segments, windows (`ingestion/pipeline.py`, `sessions.py`, `ml/features/windowing.py`, orchestrator) | session, open segment, window builders, gap baseline | start, attribute, split on idle, end, submit | memory moves ahead of the database; a sink that raises abandons the rest | windows are whole and of one segment; what is lost has an alert; a drill is declared |
| features (`ml/features/`) | none | pairing, bursts, segments of movement, focus shares | releases without their press, windows that cut a pair | ratios are ratios, nothing is paired twice, shares add up |
| scoring, context (`models/service.py`, `risk/context.py`) | running moments per application | score, fuse, assess, adjust, observe | a missing model, no history, a drill | judged as measured, scores in range, a drill teaches nothing |
| candidates (`updates/manager.py`, adapters, orchestrator) | decisions, outcomes, anchors, candidates | decide, execute, answer, prompt, submit | answers and outcomes in any order around the end of a segment | only proved, quiet, complete segments are admitted |
| storage, audit (`storage/`) | tables, outbox, daily hash chains | write, flush, rotate, retain, verify | crash between commit, append and mark; rotation; two processes | every committed record reaches the log once, in order |
| updates (`updates/`, `tools/updates`, `tools/enrollment`) | runs, profiles, artifacts | reassess, build, validate, activate, roll back | failure after activation, stale saves, killed runs | one active, loadable, earned profile |
| corpus (`tools/collection`, `storage/drill.py`) | manifests, consent and administration | health, freeze, verify, load, train, measure | retention beside a tool, edits between reads | measured on days never trained on; used as frozen; no drill |
| evaluation (`ml/evaluation`, `ml/training`, `tools/evaluation`) | none | split, train, cross-evaluate, compare arms, replay | users without a model, windows without a modality | arms measured alike; the replay is the engine |
| event stream (`websocket/broker.py`, `api/routes.py`, `api/auth.py`, `dashboard/src`) | history, client queues, sessions; cursor, list, gap | publish, subscribe, send, log in, page, reduce, reconnect | slow clients, cursors, restarts, paging a growing list | whole stream, nothing missed, the dashboard catches up |

`PROJECT.json` lists every component with its status, the ones without a module
and the reason.

## 2. Plan and order

Most important behaviour first; all of it is done.

1. `Ladder` (abstract) and `Enforcement`: posture, registry, gate, sweep, answers.
2. `BreachHistory`, `DecisionPolicy`, `RiskEngine` (which composes the two).
3. `UserLifecycle`: states, writes, watchdog, shadow mode, restart.
4. `SequenceTracker` and `CollectorLink` (which composes it with the collector,
   the pipe and the decoder).
5. `AuditTrail` (abstract), `AuditOutbox` (outbox, files, processes) and
   `StorageService` (which extends it with every write of the store).
6. `Ingestion`: sessions, segments, windows and sinks; `Features`: what a window's
   vectors are computed from.
7. `SegmentEvidence` (what a segment is admitted on), `ModelUpdates` (what becomes
   of the admitted), `Corpus` (what profiles are trained and measured on).
8. `EventStream`: broker, sessions, pages and the dashboard.
9. `Scoring` and `Evaluation`: the numbers, as functions.

Worth doing next: the freezing of an evaluation (`tools/evaluation/freeze.py`) as a
component, and the claims about folds over a window's events (section 5) by a proof
that carries its own induction.

## 3. Modules and the code

**Ladder** is the promise: one posture, four kinds of move, each with the code of
the transition that records it.

**Enforcement** is the code, one action per critical section or unlocked read.
`posture` and `code` are EnforcementSessionState; `pending` is the registry, each
entry with the time it has left; `pc`/`job` are the requests of the API's threads,
`ipc`/`dec` the decision in execution. A request is a chain of steps: `Request`
(which sweep comes first), `Sweep`, `Settle`, `ObserveReauth` or `ObserveSoft` and
`MoveSoft`, `AfterSweep`, `ReadGate`, `Pop`, `Verdict`, `OfferExisting`,
`OfferMinted`. A decision is `Decide`, `CheckRank`, `MoveToDecision`, `ToAdapter`,
`OpenChallenge`, `SpawnPrompt`. `owed` and `absolved` are ghosts. An answer is a
free choice of right or wrong; ids are reused when nothing refers to them, so a
run is never bounded.

**BreachHistory** has the deque of the last N smoothed scores, each reduced to the
band it falls in, and the level with its hysteresis. The EWMA and the fusion (in
`Scoring`) only choose the band, so every sequence of bands is allowed. **DecisionPolicy** keeps
ages where the code keeps times (`Elapse` is the passing of capture time; ages
stop at the cooldown, beyond which no comparison tells them apart), and a ghost
`log` of the actions applied in the current window, trimmed by definition and not
by the code's lazy deque. **RiskEngine** composes them as `process()` does.

**UserLifecycle** follows one user through windows (stages `enrol`, `score`,
`calibrate`, `process`, `decide`, `stamp`, one per write or read between which an
API thread or a failure can come), heartbeats, the watchdog, administrators and
restarts. `stored` is the users table. With `Faults` every write may raise, before
or after its commit (the audit flush follows the commit).

**SequenceTracker** is `ordering.py`. **CollectorLink** is the way an event takes to
it: `Wake` to `PollDone` are the collector's main loop, `Publish` the numbering and
the bounded buffer, `SendFrame`/`SendFails` the blocking write, `Read`, `Disconnect`
and `ReadError` the pipe loop, `DecodeStart`, `DecodeEnd` and `DecodeGarbage` the
decoder and the sink. A frame is two pieces of the byte stream, the least number
that lets a read or a failure fall inside one; text read as a length is always
above `max_frame_bytes`.

**AuditTrail** is the promise: a log that takes what was committed, in the order of
commit, once. **AuditOutbox** has the outbox rows, a set of records numbered by
`outbox_id`, the daily files with whole and torn lines, each process's set of ids, and
threads that flush (`ReadPending`, `AppendRow`, `MarkRow`) and rotate
(`DeleteFile`, `Compress`, `Unlink`); appends, marks and rotations fail, processes are killed. **StorageService** adds the tables:
one action per public write, with its referential checks, its audit record
(`Audited`) or none, and the flush it then owes. A row is its table, its key and an
abstract value.

**Ingestion** runs on one event loop. `calls` are the sinks still to be called for
the payload in hand; each may raise before or after its row is committed, and then
`Raise` abandons the rest of the chunk. `Attribute` is the session's own move,
`Window` and `Push` the builder's, `Signal` the availability event with its
once-per-failure rule. An input event is its payload number. **Features** has the
vectors as functions over short streams of events with times: key pairs, bursts,
backspace runs, movement segments, clicks, focus shares.

**SegmentEvidence** follows the segments of a session through decisions, outcomes,
answers, prompts and the submission; `truth` is a ghost of what really happened.
**ModelUpdates** has operators (tool processes) that run scheduled updates, first
activations and rollbacks as sequences of repository calls, each of which may fail
or be the last one before a kill; a first activation writes its files, registers them
in the models table and then activates, each on its own. **Corpus** has the windows of all participants by
day, consent and eligibility, frozen versions, and the tools that verify, load,
train and measure while a backend stores, deletes and declares drills.

**EventStream** takes an alert from its row to the broker's history, client queues
and the wire to one dashboard, which loads a page, connects with a cursor, reduces
and reconnects; a second reader pages through the same list. Sessions expire, are
evicted and revoked; the posture may block the API.

**Scoring** is what the engine, the context layer and the measurements compute, in
scaled integers, and **Evaluation** (which extends it) what the splits, the trainers,
the arms of the comparison and the replay compute. Neither has a state: their
claims are the named ASSUMEs of `MCRiskEngine`, which TLC evaluates over all
bounded inputs when it checks the engine. Those about `Features` are in
`MCIngestion`.

`...Proofs` modules hold the theorems.

## 4. Runs

| Run | What it shows | Instance |
|---|---|---|
| `enforcement_serial` | Handlers that do not overlap implement `Ladder`; the gate has seen every expiry | 2 threads, 2 decisions, 1 recovery, 1 prompt, timeout 1 |
| `enforcement_concurrent` | Every interleaving: no challenge in two hands, none dropped | 2 threads, 1 decision, 1 recovery |
| `enforcement_way_back` | A participant who keeps reauthenticating correctly is let back in | 1 thread, 1 decision, 1 recovery |
| `risk_engine` | TERMINATE only when sustained, budget, spacing, the level falls only on sustained quiet; a lasting anomaly is answered for ever; with it, the algorithms below | K 3 of N 5, cooldown 3, budget 2 |
| `lifecycle` | With any write raising, nothing is held or enforced without its evidence; where none raises, state, table and alert agree and DEGRADED is left | 1 version, 1 administrator, 1 window, 1 score, with and without faults |
| `link` | The gap counter is what was lost, no input is refused, what is captured leaves | buffer 1, both policies, pipe of 3 half frames, 3 events, a restart with 1 more, faults |
| `storage` | The outbox implements `AuditTrail`; success means logged; the chain verifies; rows and records agree | 2 threads, 2 writes, 3 days, 2 troubles |
| `segment_evidence` | What is admitted was proved, quiet and complete; what was enforced stays out unless a challenge of it was failed | 2 segments of 1 window |
| `model_updates` | One active, loadable, earned profile; the cadence | 1 operator, 2 candidates, 3 days, 2 runs, 1 rollback, faults |
| `ingestion` | Windows are whole, drills declared, losses known, a submitted segment settled; with it, the features below | 4 payloads, chunks of 2, 2 processes, 1 failing sink |
| `stream` | The stream is whole, nothing is missed, a reader that pages while alerts are stored reads all, the dashboard catches up | 1 connection, queue 1, replay 1, pages of 1, 1 alert before and 2 more, 2 troubles |
| `corpus` | Held out, used as frozen, no drill, in three partitions | 2 participants, 3 days, 6 windows, 1 version, 2 jobs |

Evaluated with `risk_engine`, over every input of the stated bounds: the windows a
first activation counts are those the engine judges (`CountedAsJudged`,
`MeasuredAsBreached`), calibration keeps order and rates cross (`CalibrationKeepsOrder`,
`RatesCross`), the context layer shares its evidence and stays in range
(`EvidenceIsShared`, `ContextIsBounded`, `DrillTeachesNothing`), the replay is the engine
(`ReplayFollows`, `ReadAsJudged`), splits are disjoint and admission is respected
(`SplitsAreDisjoint`, `TrainedAsAdmitted`), the arms are measured alike
(`ComparedAlike`, `FarNeedsCohort`). With `ingestion`: `FocusIsWhole`, `PairsAreSound`,
`RatiosAreBounded`, `SegmentsPartition`, `QualityIsPerModality`.

Why the bounds are enough. Two API threads and the ingestion thread give every
pair of critical sections both orders; a third thread adds no new pair, and
`Exclusive` is proved for any number. A timeout of one tick separates in time, on
time and late, the only cases the comparisons tell apart. Two decision ids let one
challenge be outstanding while another is decided. Three of five is the smallest
window in which medium and high breaches mix and the history can be both partial
and full; two actions within a budget of two and a cooldown of three reach every
order of expiry, and the budget and spacing are proved for all values. Three
events with a buffer of one overflow and leave a gap between two accepted numbers;
a pipe of three pieces holds a frame and a half. Three days let a file be current,
compressed and deleted; two writes by two threads give a flush something of the
other's to deliver, and two troubles let a failure follow a failure. Two segments
let an answer come to the one before. Two runs on three days can violate a cadence
of one, and a version that is retained, one that is surplus and one that failed fit
in three. Four payloads are two inputs on either side of an idle gap, or a chunk
that is abandoned and the payload that finds the gap. A queue and a history of one
make every second event the one that no longer fits. With pages of one
and an alert of an earlier process, two rows are there when a reader begins and the
third is stored between its pages. Three days, one per
partition, are the least that can be frozen; two participants make one the
other's impostor.

Fairness. `enforcement_way_back`: handlers that have started finish (nothing in
them waits on anything but a short lock), the dashboard polls the status, and the
participant keeps trying; a request races sweeps and other requests again and
again, hence strong fairness for the participant's steps. The policy is assumed to
have stopped escalating, as the property says. `risk_engine`: windows keep closing
and time passes. `lifecycle`: a window once started is processed to its
end, it has no wait in it, and where windows can be scored some are; the
antecedent of `NotAOneWayDoor` names the rest. `link`: both loops run; connecting
and sending do not fail for ever, which the property's own antecedent (a backend
that stays up) makes reasonable. `stream`: handlers that have stored an alert
append it, the event loop drains and sends, the browser loads, connects, receives
and retries on its timer. No run assumes a heartbeat arrives, a write succeeds or a
connection lasts.

`CHECK_DEADLOCK FALSE` stands where a bound ends the run (writes, days, payloads,
alerts, segments) and nothing is left to do.

## 5. Theorems

Assumed: the named ASSUMEs of the modules (positive timeouts, budgets, capacities and
counts; disjoint id sets), and where a theorem has a hypothesis of its own, the one
named below.

* `EnforcementProofs`. `IInv` is inductive for the concurrent specification:
  `TypeOK`; `Executing` and `Carries`, which tie each control point to the shape of
  the job it holds; `Exclusive`; and, without storage faults, `NothingDropped`.
  `Exclusive` alone is not inductive: that a thread at `verdict` holds a challenge,
  and one at `pop` does not, is what `Carries` supplies. One lemma per action. From
  it `TypeCorrect`, `SettledOnce` and `NoneDropped`, for any number of threads and ids.
  For calls that do not overlap, with storage faults and any number of threads,
  `SerialInv` adds that a challenge overdue when a protected request came is in the
  registry, in its hands or settled (`Seen`), and that the posture has not moved
  between the two lock sections of a call (`StillLower`, `StillSoft`):
  `GateSeesExpirySerially`, and `SerialImplementsLadder`, each step being a move of
  `Ladder` or a stutter. Neither holds when calls overlap (section 6).
* `RiskEngineProofs`, in six parts. The engine, over `EngineSpec` without its
  fairness: the ghosts of a run of scores are tied to the deque by `RunsAreCounted`: if
  the last m entries of the history are below a threshold, `quiet` counts at least m of
  them, and likewise `peak`. That is inductive because a full deque loses its oldest
  entry only. A fall of the level looks at all N entries (`FallsOnlyWhenQuietAlways`),
  and N high scores among at most N entries are all of them
  (`TerminateIsSustainedAlways`). The policy: `PolicyInv` says that the ghost log is the
  recent end of the deque, that all older entries have left the window, and that no
  logged action is older than its stamp. Only then does the deque's length bound the
  log (`BudgetHeldAlways`) and the stamp keep an action from being logged twice
  (`SpacedAlways`). The numbers: `CountedAsJudgedAlways` and `MeasuredAsBreachedAlways`
  are the first two ASSUMEs above for every weight, threshold and score;
  `AdjustBounded` that no context takes a score out of its range; `UpdateKeepsMoments`
  and `VarianceBounded` that the running moments stay those of numbers between 0 and 1
  (a sum of squares never above the sum), which gives the quarter that the layer
  divides by; `AdjustKeepsOrder` and `CalibrationKeepsOrderAlways` that neither a context
  nor a calibration reverses the order of two windows. The replay:
  `ReplayStepsAsEngine`, with the engine's K and N, relates its history of scores to the
  engine's history of bands and steps both; that its readings follow each other as the
  engine's windows do is left to TLC. Training and measuring, for any windows and
  corpora: `SplitsAreDisjointAlways`, where the n earliest of the days are counted by a
  bijection onto their ranks; `TrainedAsAdmittedAlways`; `ComparedAlikeAlways`;
  `RatesCrossAlways`, in which an imbalance of nought with both errors present would need
  an accepted impostor below the threshold that parts the two; and
  `FarNeedsCohortAlways`, which finds that threshold on the grid of
  `compute_roc_det_curve`, one above the best of the cohort. The last assumes both
  models of the user there, as the measurement does. The corpus has the last part, below.
* `UserLifecycleProofs`. `LifecycleInv` adds to the two properties that a decision to
  enforce is stamped before anything moves the state (`Sealed`), and that what is
  kept for recovery or stored has been earned as well. `EnforcementIsEarned`,
  `StatesAreEarned` follow, with and without faults and restarts. `AgreesInv`, for an
  instance in which no write raises: the table has the state of a running process, and
  an outage of which the watchdog has seen the late heartbeat has its alert; what
  makes it inductive is that a fresh heartbeat leaves nothing failed.
* `StorageProofs`, for any number of threads, tools, days, retention ages, writes,
  crashes and errors. The log's side (`LogInv`): the log is a prefix of what was
  committed, a row of the outbox is the record at its number and is marked only when
  logged, what is not logged is pending, and what a thread still has to deliver has no
  gap above the end of the log, so that it appends the next record or a known one. The
  last needs `QueuedOnce`, ids without repetition, and this the tables' side: a record
  whose id can come only once has its row in the tables (`IdsHaveRows`), so the
  referential checks refuse the second write. From them `ReturnsLogged`,
  `TablesAreAudited`, and `OutboxImplementsTrail`: a write is `Commit`, an append
  `Deliver` or `Redeliver`, a deletion `Expire`, all else a stutter.
  `ChainStaysIntact` adds `ChainInv`: one thread holds the lock; files have no line
  twice and none in common, except the one between its compression and its unlinking;
  and a running log knows every id on disk. Its hypothesis is `Tools = {}`: a tool
  beside the backend has its own ids and lock, and the chain breaks (section 6,
  `OneLogForAll`).
* `IngestionProofs`, for any limits of a window, any number of payloads and sessions,
  and any sinks that raise. Five layers, each proved from those before it.
  `Shape`: where a call can stand among those pending and which segment it is about.
  `RowsInv`: a running session has its row, with its drill label, and a segment's row
  names the session of its inputs. `WindowsInv`: inputs are numbered by segment
  (`InOrder`), two of one segment have no idle gap between them (`Close`, inductive
  with `InputIsLast`, which says the idle clock is the segment's last input's), and the
  inputs of a window are contiguous (`ToTheEnd`: a builder has every input after its
  first, save the one whose call is pending). `FateInv`: an input of the running
  session is in a window, in a builder, in a pending call, or of a segment in which a
  sink raised, and those have been signalled once the pipe reads again
  (`BrokenIsKnown`). `SettledInv`: when a submission is next its segment's row is
  ended and no builder is left (`OverWhenEnded`), and no call is pending for a submitted
  one. They give `WindowsAreWholeAlways`, `DrillIsDeclaredAlways`, `LossIsKnownAlways` and
  the action property `SettledAlways`.
* `LinkProofs`, for any buffer, pipe and policy, any number of events, with and without
  faults, as long as the collector is not killed (after a restart both properties are
  false, section 6). `MissingIsLost` counts what lies between two accepted numbers, so
  it needs to know what is still on its way and what is not: `Accounted` says that
  from the expected number on each number is on its way or lost and never both. That
  needs `InOrder` (from the buffer to the decoder events keep the order of capture; only
  the head of a frame that is still pending overtakes it, and is sent again whole),
  `Framed` (a tail follows its own head, which the decoder holds or has dropped: a tail
  is never joined to the head of another event) and, for the capture times,
  `Captured`. They give `MissingIsLostAlways` and the action property
  `InputNeverRefusedAlways`; heartbeats are excepted in `InOrder` as in the property,
  since theirs is the time at which the turn began.
* `StreamProofs`, for any number of connections, alerts and earlier alerts, any queue, history and page
  size, any number of failures and restarts. `Following` is `StreamIsWhole` for a
  connection that is listed, and needs `Queues`: a client that is no longer listed has
  only the mark of a slow one. `NothingMissed` stands on `Carried`, that what is on the
  wire is the event of its number or a snapshot with all the rows of the events before
  it, and on `Seen`, that the dashboard's list covers the stream up to its last number
  unless a page of newer rows pushed it out (`Covers`, kept when rows are added because
  rows only move away from the newest end). `Paged` says where an alert that the reader
  still has to see can be: below the offset counted from the oldest row, so that a row
  stored between two pages repeats one and skips none. They give
  `StreamIsWholeAlways`, `NothingMissedAlways` and `PagesCoverAllAlways`.
* `ModelUpdatesProofs`, for segments. `AnchorsAreProved` (an anchor is the login's or was answered
  by a person) and `SubmittedWhenOver` (there is a candidate of a segment only once it
  is over) make `AdmittedIsEarnedAlways` inductive: what comes after the submission, late
  answers included, changes neither its levels nor its windows.
  `EnforcementKeepsOutAlways` needs `ShownCounts`: a decision that reached the
  participant counts in the table (`Triggered`) from its window until its segment is
  over, whatever other decisions and answers come before and after, unless a challenge
  was failed.
* `ModelUpdatesProofs`, for models. `UpdatesInv` says of each process what the segments it works on
  have earned (`JobEarned`), and that a version which is saved and not yet activated
  has its files, no row, and no second process (`JobHolds`, `JobsInv`). What rows say
  of a segment or run never changes (`Grows`), so that one process's steps keep what
  another's stand on. The run has one operator; the theorems hold for any number,
  except `CadenceHeldAlways`, whose hypothesis is `OneOperator`: with two of them it is
  false (section 6). `DueRun` carries it: the run of the one process is the last one
  begun, and was due after every run activated before it, whatever has been killed,
  failed or rolled back since.
* `RiskEngineProofs`, for the corpus. `LoadedAsFrozen` says what a tool holds after each of its reads.
  `UsedAsFrozenAlways` follows with retention, people and further versions between
  the reads; `DrillStaysOutAlways` from the versions holding no drill; and
  `HeldOutAlways` with `SplitInOrder`, by which a day with an earlier index is an
  earlier day, whatever the fractions come to. `FrozenInThreeAlways` has no hypothesis: the
  guard of a freeze is three days. `ExtrasFit` shows that the days handed out beyond
  the one of each partition never exceed what is left (the whole parts of tenths fall
  short by two at most, `TenthsAdd`, and of TRAIN and VALIDATION one is behind the
  other, so both get one only if two are left); `IndexIsMet` that the days of a
  participant have every index there is, by a bijection; so the first, the one at the
  end of TRAIN and the last day lie in three partitions.

Only model-checked: what is temporal under fairness (`WayBackIn`, `Answered`,
`NotAOneWayDoor`, `Drained`, `CatchesUp`), which is out of the prover's reach, and what
the context layer, the replay and the features compute by folds and recursive functions
over data, which would take induction over them: `EvidenceIsShared`, the whole series of
`ReplayFollows`, the sums of `ContextIsBounded`, `ReadAsJudged` and `ComparedAlike`, and
the ASSUMEs of `MCIngestion`. Every invariant and every other action property of
the runs is a theorem.

Two things the proofs showed of the model itself. The guards of several `CASE`
expressions overlapped (a client that is slow is also listed, in `Publish`): TLC takes
the first that holds, the language any of them, and no proof goes through until the
order of the code's `if` statements is written down. And `None` has to be known not
to be an event or a number, which `LinkAssumption` now says.

Without their hypotheses, `GateSeesExpiry`, `ChainIntact`, `CadenceHeld`, the
refinement of `Ladder` and the two properties of the link are false of the code, as
section 6 shows.

## 6. Further disagreements

Properties below are stated in the modules with the document they quote, and are
violated by what the code does. To see one, put it in place of the properties of the
configuration named, with `SPECIFICATION Spec` (`FairSpec` for the last two of the
stream), no SYMMETRY and the constants given.

| Configuration | Property | Constants | What happens |
|---|---|---|---|
| `MCEnforcement_concurrent` | `DecisionsNeverLower` | Workers {w1}, Decisions {d1, d2}, Recoveries {} | a decision that passed its rank test lowers LOCKED_OUT to its own rung (`session.py:179`, "Never lowers it") |
| `MCEnforcement_stale_soft` | `StaleSoftNeverUnwinds` | as it stands | an escalation falls between the two lock sections of a soft answer and is unwound (`session.py:220`) |
| `MCEnforcement_gate_race` | `GateSeesExpiry` | as it stands | a second request reads the posture between a sweep's pop and its escalation (`routes.py:218`) |
| `MCEnforcement_dropped` | `NothingDropped` | as it stands | a storage error for one overdue challenge abandons the others |
| `MCEnforcement_offer` | `OfferIsReauth` | as it stands | a locked-out participant is offered the outstanding soft challenge |
| `MCEnforcement_relapse` | `ClearedForGood` | as it stands | an older challenge expires after a reauthentication and escalates again |
| `UserLifecycle` | `RestoresPrior` | Admins {}, Faults {FALSE} | a process started in DEGRADED recovers to ENROLLING |
| `UserLifecycle` | `RecoversWhenBack` | the same | recovery over a component that is still failing |
| `UserLifecycle` | `NoDecisionWhileEnrolling` | the same | recovery to ENROLLING in the middle of a window, then a decision |
| `UserLifecycle` | `CreditIsGenuine` | the same, Calibration 2, Drills {FALSE, TRUE} | a drill ends the shadow period (`PLAN.md` 5.3) |
| `UserLifecycle` | `FreshProfileShadowed` | the same, Calibration 2, Versions {v1, v2} | a new profile is enforced from its first score |
| `UserLifecycle` | `AppliesLastSaved` | Faults {FALSE}, Admins {a1, a2} | the mode applied last is not the one saved last |
| `UserLifecycle` | `NeverEnforcedInShadow` | Faults {FALSE} | the shadow flag is read twice in one window |
| `UserLifecycle` | `WrittenDespiteFaults`, `LossSignalledDespiteFaults` | Admins {}, Faults {TRUE} | a failed write is never repeated; the watchdog's flag outlives its failed alert |
| `CollectorLink` | `RestartIsHeard` | as it stands | a restarted collector counts from 0 and is refused (`docs/pilot/final-attacker-drill-guide.md:177`, "What is safe to restart") |
| `CollectorLink` | `HeartbeatHeard` | Capacity 2, Crashes 0, Faults FALSE | a heartbeat stamped at the start of a turn is older than the event before it |
| `CollectorLink` | `OnlyPartialDiscarded` | Crashes 0 | after a failure inside a frame whole frames are misread and dropped |
| `MCIngestion` | `NewSegmentOpens` | as it stands | `create_segment` failed: nothing of the resumed input is kept until the next idle split |
| `MCIngestion` | `CleanCandidateIsWhole` | as it stands | a sink raised and the candidate shows no gap (`PLAN.md` 12.1, G4) |
| `StorageService_two_logs` | `OneLogForAll` | as it stands | a tool beside the backend appends a record twice and the log no longer verifies (`audit.py:112`, `service.py:1028`) |
| `StorageService` | `StartsAgain` | MaxTrouble 1 | killed inside a compression or an append, the backend refuses its own log (`audit.py:112`) |
| `StorageService` | `OutcomesAreAudited` | MaxWrites 3, MaxDay 1, MaxTrouble 0, DeleteAfter 1 | an outcome changes a decision without a record (`service.py:616`) |
| `SegmentEvidence` | `EnforcedNeverAdmitted` | as it stands, `EvidenceSpec` | a challenge that was shown and then failed clears `enforcement_applied` and G1 passes (`PLAN.md` 12.1) |
| `SegmentEvidence` | `UneventfulIsAdmitted` | as it stands, `EvidenceSpec` | an applied CONTINUE counts as enforcement, so a quiet, anchored segment of an enforced user is rejected (`PLAN.md` 12.2) |
| `ModelUpdates` | `QuarantineElapses` | as it stands | a run is scheduled for a date that has not come (G5) |
| `ModelUpdates` | `RetrainedOnCadence` | as it stands | an activation whose run failed afterwards does not count (G6) |
| `ModelUpdates` | `ActiveStandsOnPromoted` | as it stands | killed between activation and the candidates' last save |
| `ModelUpdates` | `NoOrphanFiles` | as it stands | killed, or `store_model` raises, between a file and its row (`activate.py:50`, `:508`): the file stays and no row names it |
| `ModelUpdates` | `DeployedIsRegistered` | as it stands | an update activates a version that the `models` table does not have (`activate.py:52`) |
| `ModelUpdates` | `EveryVersionRetained` | as it stands | surplus versions are deleted (`PLAN.md:1004`, "always possible") |
| `ModelUpdates` | `CadenceHeld` | Operators {o1, o2}, MaxDay 1, MaxRollbacks 0, Faults FALSE | two operators find an update due before either has activated one (`manager.py:326`, G6) |
| `ModelUpdates` | `FirstIsFirst` | Operators {o1, o2}, MaxRuns 0 | two operators activate a first profile each |
| `EventStream` | `StoredIsPublished` | as it stands | an alert appended between the copy and the clear of a drain is never published |
| `EventStream` | `AlertShownOnce` | as it stands | an alert is in the list that was loaded and is published after it: shown twice |
| `EventStream` | `SnapshotRestores` | as it stands | a snapshot leaves the list and the gap as they were (`docs/architecture.md:27`) |
| `EventStream` | `RestartIsShown` | as it stands | a lastSequence of the process before hides the new one's events (`dashboard.ts:108`) |
| `EventStream` | `StreamIsGated` | as it stands | an open stream goes on under a posture that blocks every other route (`routes.py:568`) |
| `EventStream` | `GapResynchronizes`, `PauseEnds` | as it stands | "resynchronizing" stays until a reload; a pause ends in no reconnection (`App.tsx:163`) |
| `MCCorpus` | `HealthyFreezes` | Target 2 | nothing is reported missing of two days, and a freeze takes three: `config.py:22` does not relate the target to `min_distinct_days` (both files under `config/` do) |
| `MCCorpus` | `EvaluationKept` | Participants {p1}, MaxManifests 2, MaxDay 6, Keep 9, Drills 0, MaxEdits 0, MaxJobs 1 | a later version trains on a day an earlier one holds out for evaluation |
| `MCCorpus` | `BaselineHeldOut` | MaxManifests 2, MaxDay 4, Keep 9, Drills 0, MaxEdits 0, MaxRows 7 | an update's baseline is measured on windows it was trained on |
| `MCCorpus` | `WithdrawnStaysOut` | Participants {p1}, MaxDay 5, Keep 9, Drills 0, MaxJobs 1 | consent withdrawn between the load and the activation |
| `MCCorpus` | `LabelledByDay` | as it stands | a window stored after midnight belongs to the day its session began (`orchestrator.py:326`) |

Seen while reading, without a property: the location of a context is a sum over the
covered share of a window that is never divided by it, so little history biases it
low (`context.py:219`); `adjust` may raise a score in the normalising mode, although
`activate.py` says that context only suppresses; the equal-error rate rejects strictly
below its threshold while the deployed boundary is inclusive; the replay scores a
window by one model when the other raises, which its own `Reading` says it does not;
one window with a score that is not finite ends the comparison of all participants
(`cross_evaluation.py:40` says one user must not); a release of a key that was
pressed in the window before shifts no pair, but one lost release shifts every later
pair of its class.

## 7. Not modelled

Isolation forests and their fitting are a free choice of scores, and numbers are
scaled integers. The content of challenges, answers and audit rows, tokens, schemas,
encodings and the parsing of configuration are data no property here tells apart.
`suspend`, `restart_enrollment` and `component_failed` have no caller in the program.
The risk engine a new session starts with has a fresh policy; the modules state its
promises per engine. Capture times are taken to be monotonic across a restart of the
collector, as the clock it reads is. Not begun: `tools/evaluation/freeze.py`, the
studies in `ml/experiments`, the benchmarks, and the views of the dashboard, which
only render.
