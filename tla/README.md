# libitofin: TLA+ models, checks and proofs

libitofin is a Rust port of QuantLib with a C boundary, a Go binding, Python and
.NET bindings and scripts that publish its releases. Most of its half million
lines compute with real numbers. What can go wrong without any number being
wrong is in the parts that decide *when* something is computed, *who* is told,
*which thread* does it and *whether it is done once*. Those parts are modelled
here.

## Inventory

| Component | State it keeps | Operations | Talks to | What is hard |
|---|---|---|---|---|
| Observer engine, `patterns/observable.rs` | a registry per observable; thread-local `PENDING`, `DEPTH`, `DRAINING` | register, unregister, notify, deliver, drain | calls every observer's `update()`, which calls back into it | re-entrance at any depth, observers dropped or borrowed elsewhere, panics |
| Lazy object, `patterns/lazyobject.rs` | `calculated`, `failed`, `frozen`, `updating` | update, calculate, recalculate, freeze, unfreeze | notified by inputs, notifies dependants | invalidation during a calculation; the recursion guard across a released borrow |
| Instrument, `instrument.rs` | lazy object, updater, engine, results | price, recalculate, swap engine (also silently), freeze | engine, evaluation date, clients | reads and writes by clients in the middle of its own notification |
| Engine plumbing, `pricingengine.rs` | bundles, observable, forwarder | reset, calculate, forward | handles, quotes; the instrument | an engine that writes to its own inputs |
| Handles, `handle.rs` | pointee (owning or weak), observable, forwarder | relink, reset, deref | pointee, observers of the handle | moving the subscription with the pointee |
| Quotes, `quotes/` | value | set, reset | observers | none beyond the engine's |
| Settings, `settings.rs` | evaluation date, fixings, flags | set, add, clear | date and fixing observers | notification before removal; names that differ in case |
| Term structures and curves, `termstructures/` | reference date cache, lazy bootstrap state, nodes | update, calculate | helpers, quotes, multi-curve | recursion of a bootstrap through its helpers; guards without declined deferral |
| Multi-curve, `termstructures/multicurve.rs`, `globalbootstrap.rs` | members, weak back-reference, a solve under way | update fan-out, joint solve | members' updaters, their nodes | members mid-update are skipped; a solve that fails halfway; a solve that notifies |
| Models, instruments, engines, math, methods, processes | parameters, results | numerical | the core above | floating point |
| Dates, calendars, schedules, `time/` | holiday overrides shared by all clones of a calendar; dates and flags of a schedule | roll, generate, trim, truncate, edit holidays | everything | ends of months against holidays; two lists cut in parallel |
| C boundary, `libitofin-ffi/src/boundary.rs` | contexts: owner thread, poisoned, handle table; `NEXT_HANDLE` | new, free, insert, get, release | every exported function | panics contained in the middle of a call |
| Bootstrap callbacks, `libitofin-ffi/src/bootstrap_callbacks.rs`, `sdk/go/bootstrap_callbacks.go` | `ACTIVE`, `callbackActive` | call, release | the program's code | that code calls back |
| Go sessions, `sdk/go/session.go` | flag, gate, `closed`, queue, worker | `NewSession`, `invoke`, `Close`, `object.Close` | goroutines, one OS thread per session | `Close` against admitted and arriving calls; circular waits |
| Optimizers, `itofin-optimize` | search state | minimise | objective callbacks | floating point |
| Release scripts, `scripts/publish_*.py` and others | none: the registry is the state | probe, upload, reconcile | crates.io, PyPI, GitHub | an upload accepted but not visible, a rerun, partial uploads |
| Python and .NET bindings, examples | wrappers | one per function | the library | none of their own |

`PROJECT.json` lists them again with what is modelled of each, and every hazard
with its line and the properties that would catch it.

What makes each modelled component correct:

- *engine*: a notification due to a deferring observer is never lost; no observer
  is entered twice; the thread-local guards always match what is running; the
  outermost notification ends and leaves only what cannot be delivered;
- *instrument*: at rest, a result claimed to be current is current; clients that
  re-read on notification have the current price; frozen results stay; the
  recursion guard is neither latched nor released early; cycles end;
- *settings*: what a reader has cached at rest is what the settings say, and a
  fixing on record is only ever cleared or replaced by one that equals it;
- *multi-curve*: what is calculated at rest is the joint solution for the current
  inputs, a failed solve leaves no curve marked calculated, and a curve hears of
  its own inputs whatever the others do;
- *schedules*: dates in order, on business days, covering what was asked for, and
  one flag per period that says the truth about it, however often it is cut;
- *session*: callers see a serial server; the native context is freed once and
  alone; callbacks and `Close` never deadlock; every call returns;
- *releases*: success, tags and notes are only for what can be installed, and a
  run that is cut off leaves what a rerun can complete.

## Modules

| Module | Models | Uses |
|---|---|---|
| `Observable` | `patterns/observable.rs` as a machine with a call stack | |
| `ObservableProofs` | theorems about it | `Observable`, TLAPS |
| `MCObservable` | bounds of its runs | `Observable` |
| `Instrument` | `lazyobject.rs`, `instrument.rs`, `handle.rs`, `pricingengine.rs`, `simplequote.rs` on that engine | `Observable` (INSTANCE) |
| `InstrumentProofs` | theorems about it | `Instrument`, TLAPS |
| `MCInstrument` | bounds of its runs | `Instrument` |
| `Settings` | the evaluation date and the fixing store of `settings.rs`, and what interest-rate indexes read of them | |
| `SettingsProofs` | theorems about it | `Settings`, TLAPS |
| `MCSettings` | bounds of its run | `Settings` |
| `MultiCurve` | `multicurve.rs`, the joint solve of `globalbootstrap.rs`, the lazy side of `piecewiseyieldcurve.rs`, on the engine | `Observable` (INSTANCE) |
| `MultiCurveProofs` | theorems about it | `MultiCurve`, TLAPS |
| `MCMultiCurve` | bounds of its runs | `MultiCurve` |
| `Dates` | the civil calendar of `date.rs`: pure functions | |
| `Calendars` | rolling and holiday overrides of `calendar.rs` | `Dates` |
| `Schedules` | `schedule.rs`: generation under every rule, truncation | `Calendars` |
| `SchedulesProofs` | theorems about both | `Schedules`, TLAPS |
| `MCSchedules` | a market, requests and bounds of its runs | `Schedules` |
| `SerialSession` | the abstract specification of the sessions: a serial server of a handle table | |
| `GoSession` | `session.go`, `bootstrap_callbacks.go`, `boundary.rs`; implements `SerialSession` | `SerialSession` (INSTANCE) |
| `GoSessionProofs` | theorems about it | `GoSession`, TLAPS |
| `MCGoSession` | bounds of its runs | `GoSession` |
| `CratePublish` | `publish_release_crate.py` against a registry, concurrent and interrupted reruns | |
| `CratePublishProofs` | theorems about it | `CratePublish`, TLAPS |
| `MCCratePublish` | bounds of its run | `CratePublish` |
| `GoRelease` | `publish_go_release.py` against a release that loses uploads and replies | |
| `GoReleaseProofs` | theorems about it | `GoRelease`, TLAPS |
| `MCGoRelease` | bounds of its run | `GoRelease` |

### Observable

`stack` is the call stack of the thread, one frame for each `notify_observers`
(with the part of its snapshot still to visit), `update()` (with its observer) and
`drain_pending` (with the rest of its batch and what stalled). An observer's
`RefCell` is borrowed exactly while an update frame of it is on the stack, or
while top-level code holds it (`held`). Each engine step is one iteration of a
loop of the code; each call an observer may make is an action enabled at the top
level and inside an update, so an update body is any sequence of calls. A panic
empties the stack and does what the `Drop` of `DepthGuard` and `DrainGuard` do.

Registries and batches are sets: the code keeps vectors, in order of arrival, and
the model visits them in any order. Everything shown therefore holds whatever
the order; what an order would guarantee is not claimed. `owned` is whether a
strong reference outside the engine exists; the strong references of snapshots
and running updates are derived from the stack, which is what decides whether a
`Weak` can still be upgraded.

### Instrument

One instrument with its lazy object and updater, one relinkable handle to one of
several quotes, engines that observe the handle, the evaluation date reduced to
whether the instrument is expired, and clients. The notification steps are those
of `Observable`, by INSTANCE; what that module leaves to the observers is here
given by the code of each: the forwarders of link and engine (`ResetThenNotify`),
the updater (`deferred_update`), and clients of three kinds, which stand for the
code of a program. A method of the instrument that can be interrupted by
notifications is a frame of the same stack, which is also what `&mut` borrows it:
a reader that finds it borrowed cannot price it. A price is the pair of engine
and quote value it was computed from, so staleness is a comparison.
Instruments always forward (`LazyObject::new(true)`), so `always_forward` has no
variable.

Which clients observe what is chosen at the start from `Wirings`. Two operations
are disabled while a reader is registered with the instrument (`Unread`): writing
back to a quote out of a calculation, and swapping the engine silently. Either
leaves a reader with a price it has no way to learn is old: the first is finding
1, the second is what the name of the operation promises.

### Settings

The store of fixings by upper-case name, the notifiers by name, the evaluation
date, and readers: lazily calculated objects that read one fixing of one index,
or its latest one, the way `Index::fixing` decides between history and forecast,
and cache the answer until they are notified. A call of the settings that
notifies is a frame of a stack; between its steps observers run user code, which
calls the settings again. A clear is modelled in the order of the code: it
notifies first and removes afterwards, so an observer that recomputes at once
sees the fixing that is about to go; `FreshAtRest` excepts exactly what was read
out of the notifications of a clear that was still to remove it. `RecordsStand`
has the exception the code makes with `close`: adding a fixing close to the
recorded one replaces it, although the comment at `settings.rs:222` calls it a
no-op (the difference is within the tolerance of `close`, so no run lists it as a
finding). Missing-fixing errors are a value. Today's-fixing flags other than the
one indexes consult are plain cells without observers.

### MultiCurve

Contributors (piecewise curves solved together), passives (spreaded curves on
one of them), their helpers and quotes, the evaluation date, the multi-curve that
observes what they observe, and two sorts of dependants: consumers, which cache
what they read until notified, and users, whose updates run any code. The
notification steps are those of `Observable`. A solve is a frame: its set-up
marks contributors calculated one by one and may fail at any of them, it writes
trial nodes into all of them, notifies the passives before each evaluation (out
of whose updates users read), and ends with the joint solution, with an error
that takes the marks back, or with a panic. Nodes are the inputs they were solved
from, so a solution is right if it names the current quotes and date.

Left out, with the reason: the construction step by step (the assembly is
complete at the start, and the order in which members registered is left open);
moving reference dates as a cache of their own (a moving curve reads the date
when it is solved); helpers whose dates follow the evaluation date (theirs are
absolute); freezing of curves; additional variables, penalties, and the iterative
and local bootstraps, which are floating-point iterations. Whether a solve
succeeds is left open. `LazyObject::updating` is not a variable: it is set exactly
while the curve's update frame is on the stack. Dropping a contributor that a
solve still needs is the error the code makes of it.

`missed` records what the design gives up: members that `MultiCurve::update`
passes over because their updater is borrowed, or that it does not reach because
it was itself mid-update (it declines deferral), and caches filled with trial
points. The invariant is stated for the rest. For passives it rests on the solve
notifying them: nothing else tells a spreaded curve that its base was calculated
again.

### Dates, Calendars, Schedules

`Dates` gives the tables of `date.rs` by what they tabulate (a formula for
`YEAR_OFFSET`, a rule for `YEAR_IS_LEAP`), and arithmetic by months with the day
cut to the month. They are functions rather than operators, which TLC evaluates
once per argument. `Calendars` has the market's rule as a constant predicate
(`IsTradingDay`), the two override sets that clones share, and the seven
conventions; runs of holidays are no longer than `Horizon`, beyond which the
code's loops would leave the supported range of dates.

`Schedules` makes the loop of `Schedule::new` a state machine: `New` checks and
normalises the arguments and lays the first dates, each `Generate` is one pass of
the loop, `Close` adds what follows it, `Roll` snaps and rolls, `Trim` trims both
ends and refuses a single date. Backward and forward generation are one action
each, on either end of the sequence (the code builds the backward one reversed).
`After` and `Until` cut the schedule they are given; `lower_bound` is a binary
search, so on dates out of order any place it may find is allowed. Holidays are
edited before a schedule is made: afterwards nothing but the calendar inside it
changes. A panic is the phase `refused`.

`Orderly` lists the arguments for which order is claimed. The struct's doc says "a
non-decreasing sequence of dates" (`schedule.rs:24`) without exceptions, but
`Schedule::new` accepts, and makes unordered schedules of:
- stub dates that cross each other (a first date after the next-to-last), or third
  Wednesdays outside the range, which nothing compares;
- third-Wednesday rules with tenors below a month (weekly from April 30th to May
  14th 2026 ends ..., May 20th, May 14th);
- end-of-month schedules with a next-to-last date (from February 27th 2026, next
  to last April 28th, to April 29th: April 30th precedes April 29th);
- unadjusted schedules whose last date is rolled back over more than one date (daily
  to a Sunday by `Preceding`: Saturday precedes the Friday that Sunday becomes, and
  only one of the two dates before it is taken away), or over a next-to-last date;
- a third Wednesday given as next-to-last that is a holiday and rolls past an
  unadjusted end.
The last two kinds were met in proving how trimming orders dates.
The third-Wednesday rule that includes the ends may also end on the third Wednesday
of the month before: monthly from January 30th to May 2nd 2026 by `Following`, in a
market closed on April 30th and May 1st, April 30th rolls with May 2nd, takes its
place, and becomes April 15th. `Covers` allows for it; `dategenerationrule.rs:23-24` has "All dates including effective date
and termination date are taken to be on the third Wednesday of their month".

### GoSession

One record per goroutine and per worker thread says where it is in `invoke` or
`Close`: at the flag, at the gate, sending, awaiting, answered. The gate is Go's
`RWMutex`: a writer announces itself, which keeps new readers out, and waits for
those inside. Sending on the unbuffered queue is a rendezvous with an idle
worker. A worker that runs a callback is a thread that may call any session. The
steps of a worker are the entries of the C boundary: insert, get, release, a
reported error, a contained panic, free; callbacks run while an object is created
or used. The names of handles are drawn from one set for all
sessions, as `NEXT_HANDLE` is one counter.

`SerialSession` states the promise: a call is answered by having its turn on the
session, or refused because a callback is running there at that moment, or
because the session is closed. `GoSession` is shown to implement it by the
mapping in its definition `Serial`.

### CratePublish

Any number of runs of the script for one version, concurrently or one after the
other, each of which may stop at any point. A run has verified the files of its
own package (`prepare` has returned); two runs may have built different ones. The
registry (crates.io) is external: it accepts one upload of a version, whether or
not `cargo publish` learns of it, shows the version in API, index and storage, in
any order, and may show it as yanked. What a place has shown it keeps showing.
`existing` is three steps, one for each fetch, because the registry moves on
between them; what happens after a fetch depends on what the probe was for
(`purpose`): the first look, the wait of `visible_or_absent`, or the confirmation
after an upload. `read_url`'s own retries are part of a fetch, and its giving up
is `Stop`.

### GoRelease

The runs of `publish_go_release.py` for one release, one after the other, as the
workflow queues them; each brings packages of its own build, some missing or
unsound, and can be cut off between any two requests. The release (GitHub) is
external: an upload may fail, succeed without a reply, or be confirmed and lost.
An archive is the build it came from and a checksum the build it was computed
from, so a pair that does not belong together is visible. The required platforms
come in the order of the script, then the tag, then the optional platform with
its clean-up, then the notes.

## Runs

The runs of the library's parts count the calls that programs make (`calls` in
the MC modules) and stop making them at a bound; nothing that the modelled code does is bounded.
Deadlock is not checked in the runs, because a program may stop calling: a state
with the calls used up and nothing under way is a proper end. That nothing hangs
is shown by the liveness property in each run.

| Run | Shows | Bounds |
|---|---|---|
| `observable` | the safety of the engine; the outermost call ends | 3 observers (one declining deferral), 2 observables, 4 calls, every wiring of two or three observers |
| `instrument` | freshness, convergence of a reader, frozen or not, the recursion guard, panics, a cycle of two instruments that ends | 2 quotes of 2 values, 2 engines; 4 calls with a reader, 3 with a writer, a forwarder and write backs |
| `instrument_converge` | *violation*: a reader and a writer in one round leave a stale cache | 3 calls |
| `instrument_cycle` | *violation*: a cycle through a deferring forwarder never ends | 1 call |
| `settings` | freshness of readers, fixings on record stand, notifications end | 3 names of 2 indexes, 2 dates, 3 rates, 2 readers, 5 calls |
| `multicurve` | freshness but for what was missed, no half-solved state, own inputs arrive, calls end | 2 contributors, 1 spreaded curve, 3 quotes of 2 values, 2 trial points, 3 calls |
| `multicurve_borrow` | *violation*: the solve borrows a member that is mid-update | as above |
| `schedules` | order, business days, coverage, flags, cuts, an end of every build | 1,685 requests that `Schedule::new` accepts, over half a year; 2 holidays edited, 2 cuts at 3 places |
| `schedules_flags` | *violation*: a cut gives a flagless schedule one flag | as above |
| `gosession` | refinement of the serial server, safe close, no circular wait, every call returns | 2 sessions, 2 goroutines, 2 handles, 4 calls, 2 callbacks |
| `publish` | success is reported only for one's own, installable files; late runs do not upload again, do not confirm a yanked version, and finish | 2 runs of the script, 2 builds, 2 retries |
| `gorelease` | a run that ends well leaves a complete release, the tag is for complete releases, a cut-off run stays repairable, reruns complete it | 2 runs, 3 platforms, 3 builds of which one is unsound, leftovers of at most one platform |

The bounds were raised until the mutants in `PROJECT.json` were all found and
the interesting cases occur: four calls are enough for a nested notification
that finds an observer busy, registers another, and drops a third or panics; and
for two sessions whose callbacks call each other after both have looked at
the other's flag; longer circles of callbacks are left to the proof, which is for
any number of sessions. Three calls on a multi-curve are a change in the middle of
a solve in the middle of a fan-out. Two runs of a script are the winner of the race
and its loser, or an interrupted run and its rerun; `DELAYS` has five entries and
two stand for it, a first and a last. `CratePublish` needs no bound on calls: each
run executes once. The requests of `schedules` are every rule and both pairs of
rolling conventions over dates around a month that ends in a holiday (April 30th to
May 3rd), with and without stub dates, by one and three months and two weeks; the
conventions that the pairs leave out over February to May; a CDS that starts on a
weekend; and arguments that are refused. Two cuts at three places are a cut of a cut
at the same side, at the other, and on and between dates.

### Fairness

- `MCObservable`, `MCInstrument`, `MCSettings`, `MCMultiCurve`: weak fairness of the
  program's own steps. There is one thread and it runs. What updates and programs
  decide to call is not fair, and is bounded.
- `FairSpec` of `Schedules`: weak fairness of the steps of `Schedule::new`, which is
  one call on one thread. The client's truncations are not fair.
- `MCGoSession`: weak fairness of each goroutine's steps in `invoke` and `Close`,
  of each worker, and of the end of a callback. Goroutines are scheduled; a
  mutex and a channel with one closing writer need no more than that; that
  callbacks end is what the contract asks of them ("callback code must not wait
  for an already queued session operation").
- `FairSpec` of `CratePublish`, `MCSpec` of `MCGoRelease`: weak fairness of each
  run's next step. A process runs until it ends or is stopped, and `Stop`, which is
  not fair, may happen at any time. Nothing is assumed of the registry:
  `RerunsFinish` starts where it already shows the files, and `RerunsComplete` asks
  for an end of the run, not for its success, when requests keep failing.

## Findings

1. *Convergence* (`instrument_converge`). `observable.rs` promises that "every
   observer converges on the final state". The updater of an instrument declines
   deferral, so a notification that reaches it mid-update is dropped. If one
   client prices the instrument during a round and a later client changes an
   input the updater hears directly, the instrument stays marked calculated with
   the old result. `instrument` shows that the promise holds when either no client
   writes or no client prices.
2. *Cycles* (`instrument_cycle`). `lazyobject.rs` says its guard "breaks
   notification cycles". In a cycle through a plain forwarder, the notification
   that comes back is queued at the forwarder and replayed by the drain after
   the guard was dropped, again and again. `instrument` has the case that does
   end, two instruments, both declining deferral.
3. *Borrow in a solve* (`multicurve_borrow`). A spread quote changes, an observer of
   the spreaded curve reprices at once, the price starts the joint solve, and the
   solve notifies the spreaded curve with a plain `borrow_mut` while its update is
   running: the thread panics. `MultiCurve::update` guards against the same borrow.
4. *Flags of a cut schedule* (`schedules_flags`). `after` and `until` add a flag for
   the period at the cut also when the schedule has no flags. The result says it
   has flags and has too few; `is_regular_at` panics on the periods without one,
   as `FixedRateLeg` asks for them.

Two more were met that no run states. `defer_reentrant_update` is asked only when an
observer registers while it is not borrowed; otherwise it counts as `true`, and an
observer that declines replays is replayed all the same (`NewEntry` in `Observable`).
And the schedules listed under *Dates, Calendars, Schedules*, unordered or ending a
month early.

The runs give `TypeOK` to TLC for `Instrument` and `Schedules` only. The type
invariants of the other modules, and `OneEntryPerObserver`, are proved for every
value of the constants (`TypeCorrect` and `OneEntryEach` below), and a run could
show nothing more of them. Those of `Instrument` and `Schedules` are proved as well.

## Proofs

`ObservableProofs` proves for every set of observers and observables, every
wiring and every deferral map, from the two assumptions on those constants, that
`TypeOK`, `NoSecondBorrow`, `GuardsMatchStack` and `OneEntryPerObserver` are
invariants and that every step satisfies `NothingLost`, `RoundReachesAll` and
`OnlyBusyStayQueued`.

The inductive invariant is about the *shape of the stack*. `DEPTH` equals the
number of notify frames only if each step that pushes or pops a frame also moves
the counter, and `draining` is true exactly when a drain frame exists only if a
drain is never started inside one: `WellFormed` says that update frames sit on
notify, drain or nothing, that there is at most one drain, that a drain frame is
below every frame with which it coexists at depth zero, and that no observer has
two update frames. These are stated of an arbitrary stack, so that the lemmas
about pushing, popping and changing the top frame are proved once and each
action cites the one it needs. `NothingLost` is then a case split: an observer
leaves `Outstanding` only by the step that takes it from a snapshot or a batch,
and each of these starts its update, queues it, sets it aside or finds it dead.

`InstrumentProofs` proves for any quotes, values, engines, clients and wirings that
`TypeOK` and `GuardHeldOnce` are invariants, and, from the hypothesis `ReadersApart`,
that `FreshUnlessPanicked` and `ReadersConverge` are. The hypothesis is on the
wiring: where a client prices the instrument in its `update()`, no client that
writes inputs in its own observes anything, and what such a reader observes includes the instrument.
It cannot be dropped: without it finding 1 is a counterexample, so the theorem says
exactly which programs the finding does not reach. The invariants come in three layers:

- `IInv`, the shape of the calls: stack, depth and drain match as in the engine;
  there is one `update()` per observer, at most one `swap`, at most one
  calculation; and `lazy.updating` is set exactly while the updater or a swap holds
  the deferred update (`Guard`). `GuardHeldOnce` is read off it.
- `FInv`, what is cached: a result marked calculated is `Valued` (it is the current
  price, or that of a calculation under way that has read, or will read, the present
  inputs), or an
  invalidation is `Coming`: the updater, or an engine or the forwarder that lead to it, is
  still in a snapshot, a batch or the queue, or has been entered and not got to its
  work. Each write to an input creates what is coming, since the updater is
  registered wherever a calculation reads (`Registered`); each step of the engine passes it on. The
  deferral that the updater declines is where it could be lost, and there
  `GuardedFresh` says that with the guard up nothing has been calculated, or nobody
  writes. All of it holds until an observer panics.
- `CInv`, what readers hold: where readers run undisturbed, a reader's price is the
  current one, or it is due a notification, or in the middle of one (`Told`). While
  the guard is up that holds for every reader, for the round that the guard is held
  over goes to all of them; while it is down it holds unless the instrument is frozen,
  a recalculation is to notify, or the updater's own notification is still coming
  (`ThawedTold`). There no observer writes or panics in an update, and a calculation
  has nothing above it on the stack (`CalculationOnTop`).

`GoSessionProofs` proves for every set of sessions, goroutines and handles that
`TypeOK`, `FreedAlone` and `NoWaitCycle` are invariants. The inductive invariant
adds four facts. `FlagsHonest`: a worker's flag is up exactly while it runs a
callback, and its thread makes calls only then. `ServesAwaiting`: a worker serves
a thread that awaits it. `WriterCloses`: the gate's writer is a thread in `Close`.
`HoldsGate`: a call that is sent or served holds the gate, for reading, or, if it
is `Close`, for writing with no reader inside and `closed` set. From the last,
`FreedAlone` follows at the one step that frees. For `NoWaitCycle` the only step
that adds a wait is the look at the flag, and what it saw means that the session
it will wait for makes no call itself: the new edge leads to a worker that waits
for nobody and closes no circle. A callback that starts there later looks at
flags that are up, the waiting worker's own included. This is why looking once,
before the gate, is enough.

It also proves that `Spec` implements `SerialSession`: initial states map to initial
states, and each step to a step of the serial server or to a stutter. The worker
taking a call off its queue is the server's turn, its answer the server's; the gate, the
queue and the flags, and the way through them, map to stutters, except where they
answer by themselves (a call during a callback, or to what is closed). The strengthening (`RInv`) says that a closed session has
no live context but while the `Close` that closed it is admitted (`ClosedIsFreed`), that
a session has a queue exactly if it has had a context (`QueuesMatch`), and that
admitted calls go to sessions with one (`AdmittedQueued`); it is what makes an
answer of "closed" without a visit to the worker the answer the server gives.

`CratePublishProofs` proves for every set of runs, of package contents and every
number of retries that `TypeOK` and `SuccessIsInstallable` are invariants. The
strengthening is `ShownIsAccepted` (the registry shows only what it accepted) and
`ProbeFound` (a probe that has come to the index saw the API, and so on); the
steps of a run fall into those that end a probe without success, for which the
registry does not matter, and the two that go on or succeed. The two properties of
late runs are proved too, `RerunsDoNotUpload` and `YankedIsNeverConfirmed`: the
registry only grows (`RegistryGrows`) and a run is changed by its own steps only
(`OwnSteps`), so what the API shows as a run starts is true at each of its fetches;
a run that found the version in the API is not sent to its upload, and one that is
told of a yanked version ends without success.

`GoReleaseProofs` proves for every set of builds, packages and platforms that
`TypeOK` and `DoneIsComplete` are invariants and that every step satisfies
`TagsCompleteReleases` and `StaysRepairable`. The strengthening ties what a run has
read to what the release has: names read at the start still tell what is there, as
long as the run has only added to it; platforms before the one it is at are verified
pairs; a checksum goes up only next to an archive of the same build. Uploads that
are lost are excepted by the history variable `lost`, at the one place the
repair relies on them.

`SettingsProofs` proves for any names, dates, rates and readers that `TypeOK` and
`FreshAtRest` are invariants and that every step satisfies `RecordsStand`. The
invariant says that a cache outside of clears is current or about to be dropped: the
round on the stack has still to come to the reader. During a clear, what is cached
was calculated without the fixing or its name has still to be announced.

`MultiCurveProofs` proves for any number of curves,
helpers, quotes, consumers and users that `TypeOK`, `NoHalfSolved`,
`OwnInputsReach` and `FreshUnlessMissed` are invariants. What is not current is
*owed* an invalidation: a round has it in its snapshot, a drain in its batch, the
queue holds it, or its update has been entered and not got to it yet; and what the
owed one would invalidate is owed through it (a curve through its helpers, any
member through the multi-curve and the rest of its fan-out). Each step of the engine
either keeps a debt or passes it on, deferral being what keeps the debts of busy
curves; each step that changes an input creates debts for all that depend on it; and
the fan-out, where debts may be dropped, records that in `missed`. At rest there are
no frames and no queue, so nothing is owed and everything is current.

`SchedulesProofs` proves, for any calendar, any requests, any list of dates and any
cuts, that `FlagsMatch` is an invariant, and for any market that `LastEditHolds` is.
The invariant of the first (`FlagsInv`) extends it to schedules under construction;
each helper that lays, adds, trims or cuts dates has a lemma that it keeps one flag
fewer than dates. Nothing about dates is used: their sequence is one of whatever
(`Sequential`), so the result does not depend on how dates are reckoned.

It also proves what `after` and `until` do: for any number of cuts, at any dates and in
any order, `Ordered`, `CutToWindow` and `PeriodsKeepFlags` hold in every state whose
schedule was *made* in order (`MadeInOrder`, about `made`, which no cut
changes), the ones `with_metadata` is given among them. That `Schedule::new` makes them so
is proved further below.
The invariant (`InItsWindow`) says which dates a
schedule has by those it was made with and the innermost cuts, that it begins and ends at
them, and that each of its periods is one of the schedule it was made as or
irregular with an end that one lacks (`Traced`). The lemmas about a single
cut (`AfterDates`, `UntilDates`, `AfterTraced`, `UntilTraced`) rest on the code's two
searches: in order, the place `partition_point` finds has all earlier dates before it
and all later ones after, and so does the place where the popping of `until` stops.

What `Schedule::new` makes is proved under two hypotheses about the states passed
through: `DatesInRange`, that the dates under construction are those of 1901 to
2199, beyond which `Date` panics (`date.rs:409-410`), and `NoLongHolidays`, that from
every day there is a business day within `Horizon` on either side, which edits may
take away and without which `try_adjust` finds none. Both hold in every state of the
run `schedules` (for the days its dates span). Then `Schedules.TypeOK` and
`PaysOnBusinessDays` hold, whatever the rule, the conventions and the market, and a
schedule by any rule but those of the twentieths covers what was asked for
(`SchedulesCoverWhatWasAsked`). The first facts are about numbers: each day in range
has its year and its month (`YearIs`, `MonthIs`), so snapping to a third Wednesday or
a last of the month gives a day; and each convention gives a business day no further
than `Horizon` (`AdjustRolls`, by the least number of days to one). The invariants
follow a build: its request is an accepted one (`RequestInv`); up to the rolling,
one end is the one asked for and the other is not beyond (`CoverInv`); after it, each
date that a convention rolls is a business day (`RollInv`). Trimming keeps both ends
and takes its inner dates from those there were (`TrimmingThins`), unless a single
date is left, which `Schedule::new` refuses.

`RegularSpansTenor` is proved (`RegularPeriodsSpanATenor`) under two hypotheses more:
`CandidatesInRange`, that the dates the loop computes, the one it stops at included, are
the library's, and `WeeksRollApart`, that two dates a week apart never roll to one
business day, without which the loop drops a date and the flag of the next one tells
of two tenors. Both hold in the run `schedules`. The argument is about months: a day is
its month's number and its day in it (`DayIs`, `MonthOfDay`), adding months adds to the
one and cuts the other (`AddMonthsIs`), so the date `n` tenors from the seed has a form
of its own (`AwayIs`); of two such dates one tenor apart, one is reached from the other
by a tenor, forwards or backwards (`OneTenorApart`: monthly from January 30th, February
28th and a month is not March 30th, but March 30th back a month is February 28th). The
invariant (`SpanInv`) is that the last date the loop made is the one it counts from, none
left out, and that every period made so far is as its flag says.

For the rules of the twentieths, `CoversWhatWasAsked` asks besides that their first date
does not roll past the start and that their last rolls to no earlier day than the
termination date. `EveryRuleCovers` proves it for every rule, where no day is further
than eight from a business day (`ShortHolidays`, about the constant `Horizon`, which the
run sets to six) and the dates asked for and made are a year within the library's
(`DatesWithin`). `next_twentieth` gives the least standard date from a day on
(`NextIs`) and `previous_twentieth` the greatest up to it (`PreviousIs`), standard dates
lie at least 28 days apart (`TwentiethsRise`), rolling twice is rolling once
(`AdjustTwice`), and rolling by one convention keeps the order of days (`AdjustRises`).

That `Schedule::new` makes a schedule in order is the longest of these proofs. Before it is
rolled, a schedule is in order but perhaps for its last dates; rolling by one convention at
the last date and another before it may put that one, or the last two, in front of dates
they followed; and trimming takes away a single date at each end. `SchedulesAreOrdered`,
`SchedulesAreCutToTheWindow` and `SchedulesKeepFlags` say that this is enough, for every
market, rule, pair of conventions, tenor and cut, where the arguments are `Orderly`, under
`ShortHolidays`, `NoLongHolidays`, `DatesWithin` and `CandidatesInRange` as above, and
`ListsInOrder`: what `with_metadata` is given, which it does not look at, is in order. All
five hold in the run `schedules`. The argument has a predicate for each phase (`OrderInv`):

- while the loop runs (`Preparing`), dates put in front (`Backed`) or laid behind (`Laid`)
  are in order, no two neighbours roll to one day, those counted in months are 28 days and a
  month apart, and the date next to be laid is one more tenor from the seed than any before
  (`ReckonedRises`);
- when it is closed (`Steady`), that is still so but for the last date, which may be a stub
  or the end asked for; the date two before it is then a month away, or rolls to another
  day (`ForwardCloses`, `BackwardCloses`);
- rolled (`TrimOrders`), all dates but the last are in order and the last but two is
  not past the last (`RollingOrders`). Conventions move a date by eight days at most and
  keep it in its month if they are the modified ones, so what is a month apart stays in
  order whichever conventions are mixed (`FarOrders`, `PlainOrders`), and so do third
  Wednesdays and ends of months (`SnappedOrders`, `LastsRise`);
- trimmed, they are all in order (`TrimmingSorts`), and cuts keep them so.

Two conjuncts of `Orderly` were found by this proof, at steps of `RollingOrders` that no
argument closed: a last date that is rolled back over unadjusted ones close before it, and
an unadjusted last date after a third Wednesday, given as a stub, that is rolled past it.
Without either, TLC finds a schedule whose dates are out of order (the second where that
Wednesday is a holiday and the date before it in the loop is not: 2026-04-20, then
2026-04-16).

Model-checked only, and why:

- all liveness (`ComesToRest` of four modules, `EveryCallReturns`, `RerunsFinish`,
  `RerunsComplete`, `EveryBuildEnds`), which rests on fairness and ENABLED, beyond
  the prover used.

Every other property that a passing run checks is proved for all values of the constants,
under the hypotheses named above where there are any.

## Not modelled

Real arithmetic: engines, models, math, methods, processes, optimizers, the
solves inside bootstraps, which are most of the code. Formatting and validation of arguments, pointer checks
of the C boundary. Python and .NET wrappers, examples, documentation tooling.
Threads inside the library: it is `Rc`-based and single threaded by design. Tables:
the holiday rules of the markets' calendars, the direction numbers of Sobol
sequences. Of `time/`: the defaults of `MakeSchedule`, the algebra of periods,
counting and advancing over business days, IMM, ECB and ASX dates, day counters.
The optimizers' callbacks and the adoption of bootstrap callbacks by a constructor
that fails: single calls of one thread, planned below.

## Plan

Done in this order: the engine with its proofs; the instrument; the sessions with
their proofs; crate publication, Go releases, settings, multi-curves and schedules,
each with its proofs. Next:

1. `CallbackOwner` (`bootstrap_callbacks.rs`): adoption and single release.
2. `MakeSchedule` in front of `Schedules`, and legs of cash flows over schedules
   (`fixedrateleg.rs`), which use the flags.
3. Adding members to a multi-curve one by one; moving reference dates as a cache.
