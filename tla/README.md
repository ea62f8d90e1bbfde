# TLA+ specification of Attaform's runtime

Attaform is a form library for Vue. A *form store* holds the values of one form; the
user and the consumer's code write to it at any time, while asynchronous work runs beside
them and reports back later: background validation, submission, async input transforms and
async defaults. None of it locks anything. Around the store, components claim and leave it,
timers decide what the user sees, and undo takes it back to what it was. This directory
models that behaviour, checks it with TLC and proves the safety part with TLAPS.

Paths below are relative to `src/src/runtime/core/` unless they say otherwise.

## 1. The system

| Component | State | Operations | Talks to | Hard part |
|---|---|---|---|---|
| Field validation scheduler (`create-form-store.ts` 1353-1359, 1459-1499, 2888-3092) | `fieldValidationState` (key to entry), `scheduleEpoch`, `lastCommittedEpoch`, `activeValidations`, `fieldValidationCounts` | schedule, timer, commit or drop, finally; cancel all, cancel under a path | the schema adapter (async answers), the error cells, every write | answers in any order; cancels that race with a run's own `finally` |
| Imperative validation (`process-form.ts` 116-300) | a count in `activeValidations` | `validate()`, `parse()`, `parse({ commit })` | same counters and cells | late answers, shared counter |
| Submission (`process-form.ts` 390-630, `reset` 3976-4151) | `activeSubmissions`, `submissionGeneration`, `submitting`, `submissionAttempts`, `submitted`, `submitError` | `handleSubmit`, `reset` | transforms (drain), validation, the consumer's callbacks, `onSubmitSuccess` subscribers | `reset()` in the middle of any number of submissions |
| Transform channel (`create-form-store.ts` 1501-1660, `assigner-pipeline.ts` 230-300, `dom-binding.ts` 201-223) | `transformRuns`, `transformTokenSeq`, `activeTransforms`, `fieldTransformCounts`, `transformErrors`, `transformWaiters` | begin, end, cancel all or under a path, settle | writes, bindings, the drain of `handleSubmit` | superseded runs that answer late; waiters |
| Form store values (`create-form-store.ts`, `store-records.ts`, `defaults.ts`) | `form`, originals, field records, blank paths | `setValueAtPath`, `applyFormReplacement`, union reshape, `reset`, `resetField` | everything above | one write has to invalidate all async work that read the old value |
| Registry (`registry.ts`) | stores and wizards by key, consumer counts, eviction tokens | `trackConsumer`, release, microtask eviction, dispose | components mounting and unmounting | a claim between the release and the eviction it queued |
| Wizard (`../composables/use-wizard.ts`, `wizard-*.ts`) | active step, visited steps, cleared gates, `done`, `submitting`, a deferred advance | `next`, `tryNext`, `back`, `goTo`, `handleSubmit`, `reset`, `relock` | the submissions of its member forms | awaits between a check and the move it allows |
| History (`history.ts`) | positions, cursor, `suppressNext`, generation | record, undo, redo, clear | form replacement, hydration, reset, array identity | truncation, capacity, positions taken under other circumstances than the present ones |
| Array engine (`array-engine.ts`) | identity tokens, baselines | typed array operations as index remaps, restore plans | values, records, errors, runs, originals | every per-row map has to move alike |
| Activation (`form-activation.ts`, `resolve-default-values.ts`, `merge-hydration.ts`, store 3838-3905) | `hydrating`, `activated`, `activationPromise`, `hydrateError` | activate, rehydrate | reset, the registry, SSR | two factories at once, a store disposed under a fetch |
| Display engine (`display-engine.ts`, `display-state.ts`) | a machine per field, one timer, the deadline last fired | resolve, rearm, clear | validation, submission, focus, the page's visibility | timers that fire early or late, fields that nobody reads any more |
| Directive and bindings (`directive*.ts`, `dom-binding.ts`, `register-*.ts`) | listeners, bound elements | bind, update, unbind | transforms, records | DOM order |
| API surface, paths, walkers, diff, adapters, serialization, build plugins, devtools | caches at most | sequential | | see "Not modelled" |

What each of the central components has to guarantee:

* *Validation*: once everything has settled every field shows the verdict on the value it
  holds; no late answer brings back an old verdict; the busy indicators go off, and not
  before the work is over.
* *Submission*: at most one submission of the current generation; a reset is final for what
  it overtook; the re-entry guard never sticks; `meta.submitting` tells the truth.
* *Transforms*: the latest input of a path wins, whatever order promises answer in;
  `handleSubmit` never validates before what the user typed has landed; every wait ends.
* *Registry and activation*: a component on the page has the one live store of its key; a
  store nobody claims goes; a form says it is loading exactly while it is.
* *Rows and history*: what is known of a row stays with the row through any operation; a form
  that differs from its baseline never reads pristine, and one that is back at it does; undo
  and redo go to the very value that was there.
* *Display*: a spinner neither flashes nor stays; no deadline is left without a timer.
* *Wizard*: the pin passes no gate that is sealed and skips no step; a gate opens on a
  confirmation of its own form only; a deferred advance belongs to the submission it was
  asked for, and is not lost when that one lands.

## 2. Modules

| Module | What it is |
|---|---|
| `FieldValidation` | the scheduler, the reset paths and the imperative passes that share its counters |
| `FieldValidation_proofs` | TLAPS proofs about it |
| `Submission` | any number of `handleSubmit` calls against `reset` and the transform counter |
| `Submission_proofs` | TLAPS proofs about it |
| `Transforms` | the transform channel with its writes, cancels and waits |
| `LatestWins` | what the channel promises a field: the abstract specification `Transforms` implements |
| `Transforms_proofs` | TLAPS proofs about it, the refinement included |
| `Wizard` | the pin of a flow, its gates, its deferred advances and its submission |
| `Wizard_proofs` | TLAPS proofs about it |
| `ArrayRemap` | the index permutation of a typed array operation, and what it does to lists, maps and sets keyed by index |
| `ArrayRemap_proofs` | every remap is a bijection, the migrations carry by it |
| `Rows` | one list of a form: its bookkeeping, the typed operations, the writes, undo and redo |
| `UndoStack` | what undo and redo promise: the abstract specification `Rows` implements |
| `Rows_proofs` | TLAPS proofs about it: the refinement, and every property its run checks |
| `Registry` | the life of the store at a key |
| `Activation` | async defaults of the stores of a key, composed with `Registry` |
| `Activation_proofs` | TLAPS proofs about both |
| `Display` | the display reducer, the one timer of the form and the clock |
| `Display_proofs` | TLAPS proofs about it |
| `MC...` | what TLC loads; each run's `.cfg` gives the constants their values |

`Activation` extends `Registry`; `Rows` extends `ArrayRemap` and instantiates `UndoStack`;
`Transforms` instantiates `LatestWins`. The other modules meet at the actions they share with
the code: a `Reset` is in each with what it does there.

### FieldValidation

`val` is `form.value`, `cell[f]` the schema side of the error cell of `f`. A verdict is
abstracted to the *value it judged*: that is all the properties tell apart, and it makes
"stale" a comparison of `cell` and `val`. `runs` are the closures that
`scheduleFieldValidation` leaves behind, each with its `FieldValidationEntry`; `entry` is
`fieldValidationState`, so a run can be alive and no longer in the map, which is where the
hard cases are. The awaits of the code are the phases of a run:

    timer -> started -> waiting -> closing -> settled
    (debounce)  (counted)  (adapter)  (finally pending)

`Write`, `Reshape`, `ResetField`, `Reset`, `StartProbe`, `StartCommittingParse` and
`StartSubmit` are what the consumer does and each includes every cancel and schedule the
code makes in the same turn. `CancelledRuns`/`CancelledActive` are `cancelFieldValidation`
(counts are taken off, the entry is *not* marked released); `ReleasedRuns`/`ReleasedActive`
are `cancelFieldValidationUnder` (it is). `MayCommit` is the abort check and the epoch gate.
A throw of the adapter is the disjunct of `Drop` under `AdapterThrows`.

`Closing`, `Orphan` and `SettledRun` forget the fields of a run that no later step reads
(its data and epoch once it cannot commit), which keeps the state space small and loses no
behaviour.

### Submission

Each handler is one call of `handleSubmit`, with the awaits as phases: the drain, the
validation, `onError`, `onSubmit`, the end. `Submit` is the part up to the first await,
with the re-entry guard in it; `Accepted`, `Rejected` and `ValidationThrows` are what
follows validation;
`Finish` is the `finally`. `Judged` is the generation check, `Publish` the second one.
`Reset` bumps the generation and zeroes the count. `SetErrors` is the consumer's callback
writing user errors, which turns a clean `onSubmit` into a failed one.

### Transforms and LatestWins

Values sit at `Leaves`; `Group` is a container over some of them, so that a write, an
unmount or a wait may cover more than one run. `Begin` is `beginTransform` with its
supersede, `Resolves` and `Rejects` the two continuations in `kickoffAsyncTransform` with
the `endTransform` and the landing in the same turn, `Release`/`Flush` the release of a run
and the scan of the waiters. A landing that the write gate refuses is a nondeterministic
alternative. `Settle` is `settleTransforms`, `Drain` the loop at the head of `handleSubmit`,
which waits, is resumed in a later microtask, and looks again. `transformErrors[f]` is the
token of the run whose failure the field shows, so that a property can ask whose it is;
`aborted` are the holders whose `aborted` flag is set. `newest` and `failed` are history: the
last run begun at each leaf since the last reset, and the runs whose promise rejected.

`LatestWins` has no runs and no tokens: an edit leaves an *intent*, a later edit or write
replaces it, and a field changes only when its latest intent lands. `LatestEditWins` maps
the live run of a leaf to its intent.

### Wizard

Steps are numbers, `active` is the pin. Everything about locks follows from `clearedGates`:
`Sealing` are the gates not in it, `Locked` the steps after one of those, `Landing` is
`resolveLandingKey`, `Moved` and `Advanced` what `moveTo` and `advanceOne` make of the pin.
`ready` are the forms whose defaults have resolved, since a gate that has none yet does not
draw the pin to itself.

A member submission is what the wizard can tell of it: `Submit` (the guard, the count, the
entry-clear of user errors), `CallsBack`, then `Fails` or `Lands` with the `finally` in the
same turn. `Lands` is `emitSubmitSuccess` with its two subscribers in the order in which they
subscribed: the gate opens, then the deferred advance fires, then attempts are counted.
`tried` marks the submissions of `tryNext`, which go on in `TryResumes`, a later microtask.
Two submissions of one form overlap when a reset comes between them, as in `Submission`.

`Defer` is `advanceWhenInFlightSubmitLands`; the `gen`, `rides` and `contested` of a deferral
are history that the properties need and no guard reads: the resets before it was asked, the
submissions it waits for that are still in flight, and whether its step had any other counted
or started beside them. `WizardSubmit`,
`Judged`, `OnSubmitReturns` and `WizardEnds` are the turns of the wizard's `handleSubmit`;
which forms are found invalid is free. `Relock` is the turn after the commit, since nothing is
read before it; a reset leaves member submissions, deferrals and the flow's submission alone,
as in the code.

### Rows, ArrayRemap and UndoStack

One list of leaves, with everything the code keys by index beside it: `items` and `defaults`
are the list in `form.value` and in the defaults, `touched` the records with sticky flags,
`cells` the slots with a user and with a schema error, `running` the leaf runs in flight,
`structure` what `captureStructure` reads (tokens, originals, removed paths). `structure.rows`
is the one thing that is not in the code: it names the row at each slot as the application
sees rows move, so that a property can ask whose a flag or a key is. It is set from the
remap alone, never from the tokens it is compared with. The ghosts beside it name
the rows that were touched (`touchedRows`), those of the baseline (`baseRows`), and the two
cases in which the code loses track (`lateAnchor`, `strayBaseline`, section 5); no guard reads
them.

`Remap` is the record `remapForOp` computes; `PermuteList`, `MigrateMap` and `MigrateSet` are
`permuteList`, `migrateMapSubtree` and `migrateSetSubtree`. `Typed` is `applyStructuralOp`
with what `commitWritePatches` and the history module do in the same turn, in the order of
the code; `Insert`, `Remove`, `Swap`, `Move` and `Replace` are the typed operations.
`Overwrite` is a write of the list, or of the form around it (which does not anchor the
identity first). `Ensure` is `ensure`, `PlannedIdentity` is `planOrders`, `StepTo` is `stepTo`
with `restorePosition`. `Hydrate` queues the clear of the history, which `FloorClears` does in
a microtask before anything else of the application runs; that is why the other actions ask
for `~floorPending`.

`UndoStack` has a past, a present and a future and no cursor, generations or capacity
arithmetic; the mapping cuts `positions` at `cursor`, and is empty on both sides while the
clear that hydration queued is still to run.

### Registry and Activation

One key. A consumer is one claim on it and an eviction is named by the consumer whose release
queued it. `UseForm`, `InjectForm` and `ShareForm` are the three ways to a claim, each with
`trackConsumer`; `ReleaseConsumer` is the disposer it returns; `Evict` the microtask, whose
order among the others is left open. `Activation` adds, for each store, the flags and the
promise of the orchestrator and, for each call of a factory, where it is: fetching, settled
(its `finally` has run), done (the second `finally`, which clears the promise). `overlapped`
and `replaced` are history: the stores at which two calls overlap, until the last of them has
answered, and those whose root errors a whole-form pass or a reset replaced since their last
failure. A store may be
disposed while it is fetching, and the code of a component that has gone may still call its
form, so no hydration action asks whether the store is in use. The value that arrives is in
`Rows` (`Hydrate`).

### Display

`Reduced` is the reducer, `WithLiveness` the floor of the engine under it, `Rearmed` is
`rearm`, `Resolve` the computed of a field. A field's computed runs when something it reads
changed and somebody reads it (`stale`, `read`), and a flush precedes any timer and any move
of the clock. Instants are relative to `Date.now()`: `Tick` lets deadlines come nearer and
ages grow. A deadline that is past stays in a state, so it is cut off below; the one the timer
last fired for is cut off one tick lower than the others, because the guard of `rearm`
compares the two and must not see different deadlines become equal. With a tick as the least
difference `Date.now()` can tell, a timer is at most one tick early and up to `Late` late.

## 3. What is checked

| Run | Question | Result |
|---|---|---|
| `validation_verdicts` | Do two fields under async and cross-field checks, with and without debounce and a reset, end with the verdict on the value they hold, and does the indicator go off? | holds |
| `validation_counters` | Do the counters and the run table survive every mix of reshape, resetField, reset, parse, submit and throw? | holds |
| `subtree_epoch_gate` | Is the newest verdict kept when runs are scoped to a field? | violated, finding 1 |
| `stolen_count` | Is `meta.validating` on while a pass is in flight? | violated, finding 2 |
| `submission` | Three handlers, two resets, one transform: guard, surface, indicator | holds |
| `second_callback` | Does the re-entry guard keep a second submission of the form out? | violated, finding 3 |
| `transforms` | Does the channel implement `LatestWins`, with exact counts and honest waits? | holds |
| `wizard` | Does the pin stay where it may be, are gates confirmed, and does an advance ride what it waits for and land with it, whatever overlaps? | holds |
| `stale_deferral` | Can a stale deferral move the pin? | violated, finding 4 |
| `rows` | Do flags, keys, errors, runs and baselines follow the rows through typed operations, plain writes, resets, hydrations, undo and redo, does dirty tell the truth, and does history implement `UndoStack`? | holds |
| `lifetime` | Does every consumer have the live store, does an unclaimed one go, and does the form report its hydration truthfully? | holds |
| `display` | Is no deadline lost, does the spinner leave, and does it never flash? | holds |

### Bounds

* `validation_verdicts`: two fields and two values (one to be overtaken by the other), three
  run records and three schedules between resets (a run in flight, one that supersedes it,
  one of the other field), one reset. Whole-form scope, no callers: this is the
  configuration in which the code promises current verdicts without exception.
  With three schedules every order of two answers around a third is reached.
* `validation_counters`: one union with a synchronous and an asynchronous variant, two run
  records, one caller of any kind, `resetField`, a throwing adapter, two schedules, one
  reset. A count can go wrong with one run that is cancelled and one counter it shares.
* `subtree_epoch_gate`, `stolen_count`: the smallest instances in which the case happens.
* `submission`: three calls, since the guard needs a submission before a reset, one after,
  and one that should be refused; two resets; one transform for the drain.
* `transforms`: two leaves of which one is in the container, one `settleTransforms` call and
  one submit drain, four consumer actions. A superseded run needs two, a cancel in between
  a third, a wait around it a fourth.
* `wizard`: three steps, so that a step can be skipped and the pin can be behind a gate and not
  on the next step; the first is a gate that may be seeded and whose defaults come late. Two
  member submissions at a time, the first form submitted twice between resets (so that one can
  fail under a deferral and another land), one reset; user errors on the first form.
  Submissions are interchangeable, and the run says so with `SYMMETRY`; it is the only one.
* `stale_deferral`: two steps, no seed and no late defaults, two submissions of the first form.
* `rows`: two rows and room for a third, so that every operation has a slot it moves, one it
  does not and one that comes; three writes, since an operation between two others is the
  shortest history in which a map that is left behind is read; one mark (a touch, an error, an
  answer), because marks do not interact; two steps of undo or redo; a capacity of three, so
  that a third write evicts; a shorter list to overwrite with and another order to fetch.
* `lifetime`: three claims (one leaves, one comes in the same tick, one stays), two stores (one
  disposed under its successor), two calls of a factory that may overlap.
* `display`: two fields, because one field's deadline is what the other's is compared with;
  windows of one to three ticks, all different enough that show delay, focus grace, minimum and
  liveness floor end in different orders; a timer a tick early or late; four acts.
  The invariant of the proof was checked with five.
* `MaxEpoch`, `MaxGen`, `MaxActs`, `MaxAttempts`, `MaxResets`, `MaxWrites`, `MaxMarks`,
  `MaxSteps`, `MaxLen`, `Fallible` and the number of slots, callers, handlers, submissions,
  consumers, stores and factory calls are the only bounds. The configurations that say
  `CHECK_DEADLOCK FALSE` do so because these bounds stop the consumer, or because a form that
  everybody has left, or that nobody uses, really rests; the others keep the deadlock check.

### Fairness

Only what the runtime or the adapter owes is fair: a timer fires, a queued microtask runs,
a promise that was asked for answers (`WF` of `StartInitialPass`, of the steps of each run,
each caller, each handler; `Answers` and `ResumeDrain` in `Transforms`). The library's docs
ask that checks, transforms and callbacks settle. In `Activation` the eviction microtask runs,
a factory that was called answers, and the `finally` of its promise follows. In `Display` a
flush runs, a timer that is due fires and a submission gets its answers; the clock is strongly
fair, since time passes however often a flush holds it up. No consumer action is fair: liveness
never relies on a user who goes on typing, or on a `reset()`. `Wizard` and
`Rows` state no fairness: what they promise is safety.

### Findings

1. **Form-wide epoch gate under subtree scope** (`create-form-store.ts:2969`). When no
   container or root refine exists, runs are scoped to their field, but the gate still
   compares with the one last committed epoch of the form. Edit `a`, edit `b`, let `b`
   answer first: the answer about `a` is dropped and nothing schedules it again.
   `docs/validation/async-refinements.md:93` says that `errors.<path>` tracks the newest
   committed value.
2. **A stolen count** (`create-form-store.ts:3056`). `cancelFieldValidation` takes off the
   count of a run in flight without marking the entry released; the run's own `finally`
   takes another one. While the submit that cancelled it validates, `meta.validating` reads
   false. The comment at `process-form.ts:252-254` promises the contrary.
3. **Two submissions at once after a reset** (`process-form.ts:617`). `reset()` zeroes
   `activeSubmissions`, a submission it overtook decrements all the same, and it is the
   count of its successor that goes. The comment at `process-form.ts:406-409` says what the
   guard is for.
4. **A deferred advance outlives its submission** (`../composables/use-wizard.ts:1449`). The
   submission it waited for fails, or is still in flight, and `wizard.reset()` zeroes the
   attempts it is compared with: the next submission of that step to land moves the pin for it.
   The comment at `use-wizard.ts:1436-1438` says that a stale deferral can never do that.

## 4. What is proved

For every value of the constants that the named assumptions allow:

| Module | Theorem | Says |
|---|---|---|
| `FieldValidation_proofs` | `TypeCorrect`, `RunsAreTracked`, `CountersNeverLeak` | `TypeOK`, `Tracked`, `NoLeak` are invariants |
| | `VerdictsAreCurrent` | so is `VerdictsCurrent`, where runs judge the whole form, the adapter does not throw, and no union, `resetField` or committing pass is there (`WholeFormRuns`) |
| `Submission_proofs` | `TypeCorrect`, `GuardNeverLocks`, `SubmittingIsHonest`, `SurfaceSpeaksOfNow` | `TypeOK`, `NeverLockedOut`, `SubmittingIsLive`, `SurfaceIsCurrent` are invariants |
| | `ResetIsFinal` | `StaleLeavesErrors`: a submission that was overtaken changes nothing |
| `Transforms_proofs` | `TypeCorrect`, `CountersAreExact`, `ErrorIsLastInputs` | `TypeOK`, `CountsExact`, `ErrorsAreLatest` are invariants |
| | `DrainIsComplete`, `SettleIsHonest` | `SubmitSeesLanded`; `SettledIsQuiet` when no container is waited for |
| | `ImplementsLatestWins` | `Spec => LatestEditWins` |
| `Wizard_proofs` | `TypeCorrect` | `TypeOK` is an invariant |
| | `ClearanceConfirmed`, `PinOut`, `NoStepSkipped` | the steps respect `ClearanceIsConfirmed`, `PinStaysOut`, `NoSkip` |
| | `RidesOwn`, `AdvanceNotLost` | a deferred advance fires for a submission it waited for and no other (`RidesItsOwn`), and does fire for it (`AdvanceLands`) |
| `Rows_proofs` | `TypeCorrect`, `RecordsGoWithRows`, `LostHistoryIsKept` | `TypeOK`, `RecordsFollowRows`, `HistoryIsKept` are invariants |
| | `NeverPristineByMistake`, `PristineAgain`, `RowsKeepTheirKeys` | so are `DirtyIsTruthful`, `PristineWhenBack`, `KeysAgree` |
| | `HistoryIsALine` | `Spec => ImplementsUndoStack` |
| | `WhatIsKeyedMoves` | the steps respect `MarksMove` |
| `ArrayRemap_proofs` | `InsertIsBijection`, `RemoveIsBijection`, `ReplaceIsBijection`, `SwapIsBijection`, `MoveIsBijection` | the remap of every typed operation is a bijection between the slots that survive and those that are not fresh, at every length |
| | `BetweenIsBijection` | so is the remap an undo computes between any two orders of distinct keys |
| | `MigrationCarries`, `MapMigrationCarries`, `PermutationCarries`, `MigrationStaysInside` | what is migrated by a bijection is where its slot went, and nowhere else |
| `Activation_proofs` | `TypeCorrect`, `LiveWhileInUse`, `HonestReport` | `TypeOK`, `InUseIsLive`, `ReportIsHonest` are invariants |
| `Display_proofs` | `TypeCorrect`, `NoDeadlineLost` | `TypeOK`, `DeadlinesCovered` are invariants |
| | `NoFlash` | the steps respect `AntiFlash` |

The inductive invariants:

* *FieldValidation*. `NoLeak` counts runs that owe a decrement; that a schedule, a cancel
  and a release each change this set by what they change the counter needs `Tracked`: the
  entry a cancel finds at a key is the only run there that can still commit, and an entry
  names a run of its own key. The counting lemmas say what adding, removing or re-keying one
  slot does to the cardinality of the owing sets, and are stated once for both counters.
  `VerdictsCurrent` needs the epochs of all runs in flight in order (`EpochInv`): none is past
  the last one given out, the run with the last one has read the form as it is, and it is
  still to commit, or has committed and left every other behind the gate, or a queued pass
  will follow it. A reset restarts the epochs, and that no run of the former ones is left to
  commit is `Tracked` again. Each hypothesis of `WholeFormRuns` is needed: finding 1 and the
  known behaviours below are what happens without.
* *Submission*. `SurfaceIsCurrent` relates the attempts to the handlers that ended since the
  last reset. It needs that no handler entered with a generation later than the current
  one (`EnteredBefore`), and that a success is published only by a handler that is done
  (`SucceededAreDone`).
* *Transforms*. The refinement needs that a run is recognised by its token alone: tokens are
  used once (`TokensUsedOnce`) and a live run is one whose promise is pending
  (`LiveRunsPending`). `SettleIsHonest` adds that a waiter waits for a key that has a
  count (`WaitsForCounted`), which is where the hypothesis about containers comes from.
  `ErrorIsLastInputs` says whose error a field shows, and needs that the newest
  run of a leaf is its live one as long as it has neither answered nor been aborted, and that
  a live run is the newest (`NewestRuns`), and that only tokens of the past are among the
  aborted and the failed (`PastTokens`).
* *Wizard*. `RidesOwn` needs that a deferral whose count still compares equal waits for a
  submission in flight (`Awaited`), which needs that a form that counts a submission has one of
  this generation (`CountIsLive`): a submission of an earlier one only takes the count to
  zero. `AdvanceNotLost` needs that the count a deferral compares
  is still the form's while the one submission it waits for is the only one at its step
  (`Uncontested`). `PinOut` rests on the least of the sealing gates being
  well defined (`MinOfSteps`, from the well-foundedness of the naturals).
* *Rows*. The refinement needs that the cursor is at a position, that there are at most
  `Capacity`, and that the one at the cursor has the value of the form unless hydration has put
  another there and its clear is queued (`HistoryInv`). `MarksMove` needs that no two slots name
  one row, live or in any position an undo may bring back, and that no run is past the end of
  the list (`RowsInv`); with that, the slot of a row after an operation is the slot its remap
  says, and the lemmas of `ArrayRemap_proofs` say that everything else is there too.

  The other properties take the whole of `RowsInvariant`, whose other parts need one another:
  - `TypeInv`: the tokens of the live list and of every position are distinct and were
    allocated, so a token allocated now is nobody's.
  - `GenerationsInv`: the positions of the live generation are the last ones, and nothing of an
    earlier one is ahead of the cursor. An undo may go back over a reset, to values only; the
    list it makes then is in front of the ones redo can restore.
  - In `BookInv`, `LiveInv`: the live bookkeeping is `Sound`. A row of the baseline has the
    baseline's key and its value as original, and once all rows of the baseline are there
    nothing is left at the other slots that dirty reads. The records are those of the rows
    touched, and the list itself is marked when a row touched has left it.
  - In `BookInv`, `LineInv`: the positions of the live generation, with the live list at the
    cursor, are in line (`LineOK`). Of any two, a row in both has one key (`Agree`); of
    neighbours, a key in both is of one row (`Apart`); a row that left does not come back
    further on; and the record of a touched row that is missing in the neighbour on the cursor's
    side is kept in the position that has it (`Kept`). Undo and redo find the record they need
    at the neighbour they go to, which is why `Kept` is directed at the cursor: a write and an
    undo turn it around, and what they take away is what they add to the position they leave.
    A push that evicts the oldest position, and a redo branch that is cut, only shorten
    the line.
  - Each position reads soundly under the identity a restore would give it (`Placed`, `Plan`):
    a position taken before the list was tracked has no keys of its own and gets those of the
    live baseline. The proof shows that this does not depend on when the list got its keys
    (`Continues`), which is why reading a key (`TokenAt`) is harmless.

  Where `lateAnchor` holds `BookInv` says nothing, and the properties except it too. Where the
  clear that a hydration queued has not run, the positions are of the list before it, and only
  `KeysAgree` is kept of them.
* *Activation*. `InUseIsLive` needs the count to be the number of consumers on the page
  (`CountsMounted`), an eviction to be pending only while nobody claims the key
  (`PendingIsUnclaimed`), and a queued token that is not cancelled to be the pending one: the
  last is the guard the eviction microtask repeats for safety, which the proof shows to be
  redundant. `ReportIsHonest` needs that a store with two calls in flight is among those
  that overlap (`TwoOverlap`).
* *Display*. `DeadlinesCovered` rests on four facts about the timer: it is aimed at the nearest
  deadline; none is before the one last fired; without a timer the nearest is the one last
  fired; and a field keeps that one only until its flush, or when it has left the page
  (`TimerInv`). The last uses that a timer is at most a tick early: were the clock set back
  further, a field could emit the deadline just fired again and drop it only after the guard
  had left the form without a timer. `AntiFlash` needs that a spinner on the screen is at least
  as old as its machine says (`PendingIsShown`).

The assumptions are the `ASSUME`s of the modules, which TLC evaluates in every run: finite sets
of actors, sentinels that are not values, windows of at least a tick.

Only model-checked: all liveness (`VerdictArrives`, `IndicatorClears`, `SubmittingEnds`,
`WaitsEnd`, `UnclaimedGoes`, `HydratingEnds`, `SpinnerLeaves`), which is beyond the prover
together with `ENABLED`. Every safety property of a passing run is proved, two of them on a
condition the theorem states: `VerdictsAreCurrent` (`WholeFormRuns`) and `SettleIsHonest` (no
container is waited for). The inductive invariant of `Rows` was checked by TLC before it was
proved, over random behaviours of up to eight writes and eight undos or redos, with five lists
to overwrite with and a capacity of four: it needs histories longer than an exhaustive run can
take.

## 5. Not modelled, and why

* Inside the modelled components. *FieldValidation*: blur- and submit-triggered validation, the
  reactive kickoff of `validate()`, `firstValidationDone`, `dispose` of a store; the abort an
  array operation makes is in `Rows`. *Transforms*: runs at a container, transforms under array
  operations. *Submission*: the focus policy. *Wizard*: function and lazy slots (the steps are
  fixed), the list of visited steps, the wizard's own counters and `submitError`,
  `focusFirstError: false`, the freeze of member forms, the URL written back, SSR. *Rows*:
  nested lists and tuples, the key registry of rendered rows, `resetField` of a list. *Registry*:
  wizards, callers without a scope, hydration payloads and SSR prefetch. *Activation*: the
  merge of payload, stored value and factory. *Display*: disabled forms, custom reducers.
* Left out for good: schema adapters (an oracle that answers or throws), serialization,
  DOM and event plumbing of the directive, proxies and computed views (no state of their
  own), type declarations, build plugins, devtools, and the demos and the site, which make up
  much of the repository. What they do is sequential input and output.

Known behaviours that no property judges, or that one excepts, most of them in `PROJECT.json`
under "hazards" with a note:

* a sibling's whole-form run commits on a union that was reshaped synchronously, or on a field
  that was reset; `resetField` of a pristine field cancels its run and schedules none; a
  committing parse answers late (the reasons for `WholeFormRuns`);
* `settleTransforms` of a container resolves at once, although `types/types-api.ts:3692-3693`
  says "at or under it"; undo and redo cancel neither transforms nor validation runs;
* a list that a write around it resizes before it was ever tracked takes the resized order for
  its baseline (`create-form-store.ts:2660`): removing a row may then read pristine. The
  properties of `Rows` except it as `lateAnchor`;
* `ensure` gives a slot that a list grows back the key the baseline has there
  (`array-engine.ts:449`), while `originals` keeps what moved there with another row
  (`create-form-store.ts:4816`). Move rows, set the list empty and set it to the moved order:
  it reads pristine, although `docs/reading-the-form/fields.md:87` says `true` until the value
  diverges from the original. The attempt to prove `DirtyIsTruthful` met it, since it takes
  other lists than the run of `Rows` writes; the property excepts it as `strayBaseline`;
* user errors past the end of a list that was shortened stay, and a row that grows there gets
  them (`array-engine.ts:866`);
* a field that leaves the page while it has a deadline keeps its machine
  (`display-engine.ts:128`, `171`): once that deadline is past it stays the nearest, the guard
  refuses it, and a spinner elsewhere may stay until something wakes it. The properties of
  `Display` except it as `Abandoned`;
* two factories at once: `hydrating` goes off when the first settles, and the one that answers
  last is adopted, be it the older; a whole-form pass takes the hydration error out of the
  error list and leaves `hydrateError`;
* a wizard mounted again in the tick its key was released returns another handle than the one
  registered (`../composables/use-wizard.ts:2072`);
* a `tryNext` whose submission failed on errors set from outside;
* the flow's `handleSubmit` counts an attempt on every form it has judged
  (`../composables/use-wizard.ts:1796`), also on one with a submission of its own in flight: an
  advance that was asked of that one is dropped when it lands, although
  `../types/types-wizard.ts:628-630` says that the advance lands with the in-flight submit.
  `AdvanceLands` excepts it as `contested`; without the exception TLC shows the lost advance;
* the submission of the flow latches `done` when `onSubmit` returns without errors
  (`../composables/use-wizard.ts:1851`), also if a gate was sealed again or the flow reset while
  it ran. The docs say that a clean submission latches it and a reset takes it back
  (`../types/types-wizard.ts:574`), and leave open which of the two wins when they overlap;
* a submission that a reset overtook still emits its success and opens its gate
  (`process-form.ts:561`): `ClearanceIsConfirmed` says whose submission may open a gate and not
  of which generation;
* a restore is one step with the change event it makes history ignore (`suppressNext`,
  `history.ts:233`): a listener that writes in reply to that event, and a value that Vue
  refuses to store, are not modelled.

## 6. Plan

What is left, in this order:

1. `Rows`: a list inside a row, and `resetField` of a list.
2. `FieldValidation`: blur mode, `firstValidationDone`; what can be promised beside a
   synchronous reshape, a `resetField` and a committing parse.
3. Composition of `Submission` and `Transforms` (the drain against real runs in place of a
   counter), and `SubmitSurface`, the abstract submission that the member submissions of
   `Wizard` are.
4. `Wizard`: step lists that change (function slots), with the slide of the pin to a
   neighbour; the freeze of member forms; its registration.
5. Diff and apply as operators against a reference definition over bounded trees.
