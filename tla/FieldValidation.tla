-------------------------- MODULE FieldValidation --------------------------
(***************************************************************************)
(* Background field validation of one form store, and the imperative       *)
(* passes that compete with it (create-form-store.ts, process-form.ts).    *)
(*                                                                         *)
(* A write schedules a run at its path.  The run waits out a debounce,     *)
(* reads the form, asks the schema adapter, and commits the verdict to the *)
(* error cells when the answer comes, unless it was aborted or a run       *)
(* scheduled later has committed first.  Nothing blocks the user in the    *)
(* meantime: writes, resetField, reset, parse and submit may all happen    *)
(* between any two steps of any run.                                       *)
(*                                                                         *)
(* A verdict is abstracted to the value it judged: cell[f] is the value of *)
(* f the schema side of f's errors was computed from.  It is Unjudged when *)
(* no full verdict is there: the field's errors were cleared, or only the  *)
(* synchronous part of an async schema has been seeded.                    *)
(***************************************************************************)
EXTENDS Integers, FiniteSets

CONSTANTS
    Fields,         \* leaf paths of the form
    Root,           \* the empty path, that of a whole-form pass
    Unions,         \* fields that are discriminated unions
    Values,         \* values a field may hold; a variant, at a union
    SyncVariants,   \* variants whose sub-schema parses synchronously
    Default,        \* the value every field is constructed with
    Slots,          \* run records alive at once
    Callers,        \* imperative callers alive at once
    CallKinds,      \* what the callers do: "probe", "commit", "submit"
    Resettable,     \* fields the consumer calls resetField on
    None,           \* no entry in fieldValidationState
    Unjudged,       \* no full verdict at the field
    SubtreeScope,   \* hasContainerOrRootRefine() === false
    NeedsAsync,     \* needsAsyncValidation() === true
    AdapterThrows,  \* the adapter may reject
    MaxEpoch,       \* bound on schedules between two resets
    MaxGen          \* bound on resets

ASSUME DataAssumption ==
    /\ Root \notin Fields /\ Unions \subseteq Fields /\ Resettable \subseteq Fields
    /\ SyncVariants \subseteq Values
    /\ IsFiniteSet(Fields)
    /\ Default \in Values /\ Unjudged \notin Values

ASSUME ActorAssumption ==
    /\ IsFiniteSet(Slots) /\ None \notin Slots
    /\ IsFiniteSet(Callers)
    /\ CallKinds \subseteq {"probe", "commit", "submit"}

ASSUME ConfigAssumption ==
    /\ SubtreeScope \in BOOLEAN /\ NeedsAsync \in BOOLEAN
    /\ AdapterThrows \in BOOLEAN
    /\ MaxEpoch \in Nat /\ MaxGen \in Nat

VARIABLES
    val,            \* form.value
    cell,           \* the schema side of errorCells
    runs,           \* the runs, each with its FieldValidationEntry
    entry,          \* fieldValidationState: key -> the entry a cancel reaches
    scheduleEpoch, lastCommitted,
    active,         \* activeValidations, behind meta.validating
    counts,         \* fieldValidationCounts, behind field.validating
    queued,         \* whole-form passes queued as microtasks
    calls,          \* parse() and handleSubmit() calls
    gen,            \* submissionGeneration
    activeSubmissions

vars == <<val, cell, runs, entry, scheduleEpoch, lastCommitted, active,
          counts, queued, calls, gen, activeSubmissions>>

Keys == Fields \cup {Root}

(* The fields a path holds, and those the verdict of a run at a key is for. *)
FieldsAt(k) == IF k = Root THEN Fields ELSE {k}
Scoped(k) == SubtreeScope /\ k # Root
RunScope(k) == IF Scoped(k) THEN {k} ELSE Fields

Read(v, fs) == [f \in Fields |-> IF f \in fs THEN v[f] ELSE Default]
Verdict(data, fs) == [f \in Fields |-> IF f \in fs THEN data[f] ELSE cell[f]]

NoData == [f \in Fields |-> Default]

(* "free" is no record at all; "settled" a finished run still in the map.  *)
RunPhases == {"free", "timer", "started", "waiting", "closing", "settled"}
InFlight == {"started", "waiting", "closing"}   \* counted, .finally not run

FreeRun == [phase |-> "free", key |-> Root, epoch |-> 0, aborted |-> FALSE,
            released |-> FALSE, data |-> NoData]

CallPhases == {"idle", "waiting", "closing", "deciding"}
IdleCall == [phase |-> "idle", kind |-> "probe", key |-> Root,
             data |-> NoData, gen |-> 0]

(* Mutant of Monus: no clamp.                                               *)
Minus(a, n) == a - n

Monus(a, n) == IF n <= a THEN a - n ELSE 0      \* Math.max(0, a - n)

-----------------------------------------------------------------------------
(* Scheduling.                                                              *)

(* A timer that is cleared leaves nothing behind, nor does a settled entry; *)
(* of a run that will not commit, only what it owes the counters matters.   *)
Orphan(r, released) ==
    IF r.phase \in InFlight
    THEN [phase |-> r.phase, key |-> r.key, epoch |-> 0, aborted |-> TRUE,
          released |-> released, data |-> NoData]
    ELSE FreeRun

(* Mutant of Abort: not at all.                                            *)
AbortNothing(r) == r

Abort(r) == Orphan(r, r.released)
Release(r) == Orphan(r, TRUE)
Closing(r) == [r EXCEPT !.phase = "closing", !.epoch = 0, !.data = NoData]

(* ++scheduleEpoch, and a mutant: the epoch before it is bumped.            *)
SameEpoch == scheduleEpoch
NextEpoch == scheduleEpoch + 1

NewRun(k, immediate, v) ==
    [phase |-> IF immediate THEN "started" ELSE "timer", key |-> k,
     epoch |-> NextEpoch, aborted |-> FALSE, released |-> FALSE,
     data |-> IF immediate THEN Read(v, RunScope(k)) ELSE NoData]

(* scheduleFieldValidation at k, from the runs, map and counters given: an  *)
(* action may have released some first.  The superseded run is aborted and  *)
(* left to count itself down.                                               *)
Schedule(rs, ent, act, cnt, k, immediate, v) ==
    LET s == CHOOSE x \in Slots : rs[x].phase = "free" IN
        /\ \E x \in Slots : rs[x].phase = "free"
        /\ runs' = [t \in Slots |->
                      IF t = s THEN NewRun(k, immediate, v)
                      ELSE IF t = ent[k] THEN Abort(rs[t])
                      ELSE rs[t]]
        /\ entry' = [ent EXCEPT ![k] = s]
        /\ scheduleEpoch' = scheduleEpoch + 1
        /\ active' = IF immediate THEN act + 1 ELSE act
        /\ counts' = IF immediate THEN [cnt EXCEPT ![k] = @ + 1] ELSE cnt

-----------------------------------------------------------------------------
(* The cancels.  InFlightAt(k) says a cancel at k has a count to take off.  *)

InFlightAt(k) == entry[k] # None /\ runs[entry[k]].phase \in InFlight

(* cancelFieldValidation: every entry of the map, counters included; the    *)
(* run's own .finally is left to count down as well.                        *)
CancelledRuns ==
    [s \in Slots |-> IF \E k \in Keys : entry[k] = s THEN Abort(runs[s]) ELSE runs[s]]
CancelledActive(act) == Monus(act, Cardinality({k \in Keys : InFlightAt(k)}))
CancelledCounts ==
    [k \in Keys |-> IF InFlightAt(k) THEN Monus(counts[k], 1) ELSE counts[k]]
NoEntries == [k \in Keys |-> None]

(* cancelFieldValidationUnder a field: the one entry there is, and the run  *)
(* is told its count is gone.                                               *)
ReleasedRuns(f) ==
    [s \in Slots |-> IF entry[f] = s THEN Release(runs[s]) ELSE runs[s]]
(* Mutant of ReleasedActive: released, and not counted out.                 *)
KeptActive(f) == active

ReleasedActive(f) == IF InFlightAt(f) THEN Monus(active, 1) ELSE active
ReleasedCounts(f) ==
    IF InFlightAt(f) THEN [counts EXCEPT ![f] = Monus(@, 1)] ELSE counts
ReleasedEntry(f) == [entry EXCEPT ![f] = None]

-----------------------------------------------------------------------------
(* What the consumer and the user do.                                       *)

(* setValueAtPath in change mode.  A write of the value already there is    *)
(* short-circuited, so it schedules nothing.                                *)
Write(f, v, immediate) ==
    /\ f \notin Unions /\ v # val[f]
    /\ scheduleEpoch < MaxEpoch
    /\ val' = [val EXCEPT ![f] = v]
    /\ Schedule(runs, entry, active, counts, f, immediate, val')
    /\ UNCHANGED <<cell, lastCommitted, queued, calls, gen, activeSubmissions>>

(* A write of a union, or of its discriminator, is reshapeUnionVariant's.    *)
(* Where the sub-schema allows it the verdict on the new variant is computed *)
(* in place and the entry at the union dropped; otherwise a run is scheduled.*)
Reshape(u, v, immediate) ==
    /\ u \in Unions
    /\ val' = [val EXCEPT ![u] = v]
    /\ \/ /\ v \in SyncVariants
          /\ cell' = [cell EXCEPT ![u] = v]
          /\ runs' = [s \in Slots |-> IF entry[u] = s THEN Abort(runs[s]) ELSE runs[s]]
          /\ entry' = [entry EXCEPT ![u] = None]
          /\ UNCHANGED <<scheduleEpoch, active, counts>>
       \/ /\ v \notin SyncVariants /\ scheduleEpoch < MaxEpoch
          /\ Schedule(runs, entry, active, counts, u, immediate, val')
          /\ UNCHANGED cell
    /\ UNCHANGED <<lastCommitted, queued, calls, gen, activeSubmissions>>

(* resetField: tear down what runs under the field, write its baseline back  *)
(* and drop its error cells.  The write of a leaf already at its baseline is *)
(* short-circuited; that of a union never is, and schedules as Reshape does. *)
RestoreSchedules(f) ==
    IF f \in Unions THEN Default \notin SyncVariants ELSE val[f] # Default

ResetField(f, immediate) ==
    /\ cell' = [cell EXCEPT ![f] = Unjudged]
    /\ val' = [val EXCEPT ![f] = Default]
    /\ \/ /\ RestoreSchedules(f) /\ scheduleEpoch < MaxEpoch
          /\ Schedule(ReleasedRuns(f), ReleasedEntry(f), ReleasedActive(f),
                      ReleasedCounts(f), f, immediate, val')
       \/ /\ ~RestoreSchedules(f)
          /\ runs' = ReleasedRuns(f) /\ entry' = ReleasedEntry(f)
          /\ active' = ReleasedActive(f) /\ counts' = ReleasedCounts(f)
          /\ UNCHANGED scheduleEpoch
    /\ UNCHANGED <<lastCommitted, queued, calls, gen, activeSubmissions>>

(* reset: a fresh form, its errors re-seeded by the synchronous pass, the   *)
(* async pass queued again, every run cancelled and the epochs restarted.   *)
Reset ==
    /\ gen < MaxGen /\ gen' = gen + 1
    /\ val' = [f \in Fields |-> Default]
    /\ cell' = [f \in Fields |-> IF NeedsAsync THEN Unjudged ELSE Default]
    /\ queued' = IF NeedsAsync THEN queued + 1 ELSE queued
    /\ runs' = CancelledRuns /\ entry' = NoEntries
    /\ active' = CancelledActive(active) /\ counts' = CancelledCounts
    /\ scheduleEpoch' = 0 /\ lastCommitted' = 0
    /\ activeSubmissions' = 0
    /\ UNCHANGED calls

-----------------------------------------------------------------------------
(* The life of a run.                                                       *)

(* The microtask queueInitialAsyncValidation left at construction or reset. *)
StartInitialPass ==
    /\ queued > 0 /\ queued' = queued - 1
    /\ Schedule(runs, entry, active, counts, Root, TRUE, val)
    /\ UNCHANGED <<val, cell, lastCommitted, calls, gen, activeSubmissions>>

TimerFires(s) ==
    /\ runs[s].phase = "timer"
    /\ runs' = [runs EXCEPT ![s].phase = "started",
                            ![s].data = Read(val, RunScope(runs[s].key))]
    /\ active' = active + 1
    /\ counts' = [counts EXCEPT ![runs[s].key] = @ + 1]
    /\ UNCHANGED <<val, cell, entry, scheduleEpoch, lastCommitted, queued, calls, gen,
                   activeSubmissions>>

(* One microtask later the adapter gets the data.  A whole-form run hands   *)
(* over the live form, so it sees what was written since; a subtree run     *)
(* hands over the value it took when it started.                            *)
Parse(s) ==
    /\ runs[s].phase = "started"
    /\ runs' = [runs EXCEPT ![s].phase = "waiting",
                            ![s].data = IF runs[s].aborted \/ Scoped(runs[s].key) THEN @
                                        ELSE Read(val, Fields)]
    /\ UNCHANGED <<val, cell, entry, scheduleEpoch, lastCommitted, active, counts,
                   queued, calls, gen, activeSubmissions>>

(* Mutant of MayCommit: no epoch gate.                                      *)
UngatedCommit(r) == ~r.aborted

MayCommit(r) == ~r.aborted /\ r.epoch > lastCommitted

Commit(s) ==
    /\ runs[s].phase = "waiting" /\ MayCommit(runs[s])
    /\ cell' = Verdict(runs[s].data, RunScope(runs[s].key))
    /\ lastCommitted' = runs[s].epoch
    /\ runs' = [runs EXCEPT ![s] = Closing(@)]
    /\ UNCHANGED <<val, entry, scheduleEpoch, active, counts, queued, calls, gen,
                   activeSubmissions>>

(* The answer is discarded, or there is none: the adapter rejected.         *)
Drop(s) ==
    /\ runs[s].phase = "waiting" /\ (AdapterThrows \/ ~MayCommit(runs[s]))
    /\ runs' = [runs EXCEPT ![s] = Closing(@)]
    /\ UNCHANGED <<val, cell, entry, scheduleEpoch, lastCommitted, active, counts,
                   queued, calls, gen, activeSubmissions>>

SettledRun(s) ==
    IF entry[runs[s].key] = s
    THEN [FreeRun EXCEPT !.phase = "settled", !.key = runs[s].key]
    ELSE FreeRun

(* Whether a settling run still owes its counts; the mutant has an aborted  *)
(* run not count itself down.                                               *)
OwesUnlessAborted(r) == ~r.aborted
Owes(r) == ~r.released

Finally(s) ==
    /\ runs[s].phase = "closing"
    /\ runs' = [runs EXCEPT ![s] = SettledRun(s)]
    /\ IF Owes(runs[s])
       THEN /\ active' = Monus(active, 1)
            /\ counts' = [counts EXCEPT ![runs[s].key] = Monus(@, 1)]
       ELSE UNCHANGED <<active, counts>>
    /\ UNCHANGED <<val, cell, entry, scheduleEpoch, lastCommitted, queued, calls, gen,
                   activeSubmissions>>

-----------------------------------------------------------------------------
(* The imperative passes: parse(path, { commit }) and the validation of a   *)
(* handleSubmit.  They read the form at once and hold one count.            *)

NewCall(kind, k) ==
    [phase |-> "waiting", kind |-> kind, key |-> k,
     data |-> Read(val, FieldsAt(k)), gen |-> gen]

StartProbe(c, k) ==
    /\ "probe" \in CallKinds /\ calls[c].phase = "idle"
    /\ calls' = [calls EXCEPT ![c] = NewCall("probe", k)]
    /\ active' = active + 1
    /\ UNCHANGED <<val, cell, runs, entry, scheduleEpoch, lastCommitted, counts,
                   queued, gen, activeSubmissions>>

(* The shell counts itself in before the cancel counts the runs out.        *)
StartCommittingParse(c, k) ==
    /\ "commit" \in CallKinds /\ calls[c].phase = "idle"
    /\ calls' = [calls EXCEPT ![c] = NewCall("commit", k)]
    /\ runs' = CancelledRuns /\ entry' = NoEntries
    /\ active' = CancelledActive(active + 1) /\ counts' = CancelledCounts
    /\ UNCHANGED <<val, cell, scheduleEpoch, lastCommitted, queued, gen, activeSubmissions>>

(* The re-entry guard, which reset reopens.                                 *)
StartSubmit(c) ==
    /\ "submit" \in CallKinds /\ calls[c].phase = "idle"
    /\ activeSubmissions = 0 /\ activeSubmissions' = activeSubmissions + 1
    /\ calls' = [calls EXCEPT ![c] = NewCall("submit", Root)]
    /\ runs' = CancelledRuns /\ entry' = NoEntries
    /\ active' = CancelledActive(active) + 1 /\ counts' = CancelledCounts
    /\ UNCHANGED <<val, cell, scheduleEpoch, lastCommitted, queued, gen>>

(* parse commits as soon as the adapter answers, whatever happened since;   *)
(* a rejection commits nothing.                                             *)
CallAnswer(c) ==
    /\ calls[c].phase = "waiting"
    /\ calls' = [calls EXCEPT ![c].phase = "closing"]
    /\ \/ /\ calls[c].kind = "commit"
          /\ cell' = Verdict(calls[c].data, FieldsAt(calls[c].key))
       \/ /\ calls[c].kind # "commit" \/ AdapterThrows
          /\ UNCHANGED cell
    /\ UNCHANGED <<val, runs, entry, scheduleEpoch, lastCommitted, active, counts,
                   queued, gen, activeSubmissions>>

CallFinally(c) ==
    /\ calls[c].phase = "closing"
    /\ active' = Monus(active, 1)
    /\ calls' = [calls EXCEPT ![c] =
                   IF calls[c].kind = "submit" THEN [@ EXCEPT !.phase = "deciding"]
                   ELSE IdleCall]
    /\ UNCHANGED <<val, cell, runs, entry, scheduleEpoch, lastCommitted, counts,
                   queued, gen, activeSubmissions>>

(* handleSubmit replaces the schema errors, unless a reset came in between  *)
(* or the adapter rejected; its finally counts it out.                      *)
SubmitDecides(c) ==
    /\ calls[c].phase = "deciding"
    /\ \/ calls[c].gen = gen /\ cell' = Verdict(calls[c].data, Fields)
       \/ (calls[c].gen # gen \/ AdapterThrows) /\ UNCHANGED cell
    /\ calls' = [calls EXCEPT ![c] = IdleCall]
    /\ activeSubmissions' = Monus(activeSubmissions, 1)
    /\ UNCHANGED <<val, runs, entry, scheduleEpoch, lastCommitted, active, counts,
                   queued, gen>>

-----------------------------------------------------------------------------
Init ==
    /\ val = [f \in Fields |-> Default]
    /\ cell = [f \in Fields |-> IF NeedsAsync THEN Unjudged ELSE Default]
    /\ runs = [s \in Slots |-> FreeRun]
    /\ entry = NoEntries
    /\ scheduleEpoch = 0 /\ lastCommitted = 0
    /\ active = 0 /\ counts = [k \in Keys |-> 0]
    /\ queued = IF NeedsAsync THEN 1 ELSE 0
    /\ calls = [c \in Callers |-> IdleCall]
    /\ gen = 0 /\ activeSubmissions = 0

RunStep(s) == TimerFires(s) \/ Parse(s) \/ Commit(s) \/ Drop(s) \/ Finally(s)

CallStep(c) == CallAnswer(c) \/ CallFinally(c) \/ SubmitDecides(c)

Next ==
    \/ \E f \in Fields, v \in Values, immediate \in BOOLEAN : Write(f, v, immediate)
    \/ \E u \in Unions, v \in Values, immediate \in BOOLEAN : Reshape(u, v, immediate)
    \/ \E f \in Resettable, immediate \in BOOLEAN : ResetField(f, immediate)
    \/ Reset
    \/ StartInitialPass
    \/ \E s \in Slots : RunStep(s)
    \/ \E c \in Callers, k \in Keys : StartProbe(c, k)
    \/ \E c \in Callers, k \in Keys : StartCommittingParse(c, k)
    \/ \E c \in Callers : StartSubmit(c)
    \/ \E c \in Callers : CallStep(c)

(* Timers fire, microtasks run, and an adapter answers what it was asked:   *)
(* only what the runtime and the adapter owe is fair, never a user's input. *)
Fairness ==
    /\ WF_vars(StartInitialPass)
    /\ \A s \in Slots : WF_vars(RunStep(s))
    /\ \A c \in Callers : WF_vars(CallStep(c))

Spec == Init /\ [][Next]_vars /\ Fairness

-----------------------------------------------------------------------------
(* Properties.                                                              *)

RunType ==
    [phase : RunPhases, key : Keys, epoch : Nat, aborted : BOOLEAN,
     released : BOOLEAN, data : [Fields -> Values]]

CallType ==
    [phase : CallPhases, kind : {"probe", "commit", "submit"}, key : Keys,
     data : [Fields -> Values], gen : Nat]

(* Every variable of the store holds what its declaration says.             *)
TypeOK ==
    /\ val \in [Fields -> Values]
    /\ cell \in [Fields -> Values \cup {Unjudged}]
    /\ runs \in [Slots -> RunType]
    /\ entry \in [Keys -> Slots \cup {None}]
    /\ scheduleEpoch \in Nat /\ lastCommitted \in Nat
    /\ active \in Nat /\ counts \in [Keys -> Nat]
    /\ queued \in Nat /\ gen \in Nat /\ activeSubmissions \in Nat
    /\ calls \in [Callers -> CallType]

(* A run that may still commit is the one the map holds at its key.  So a   *)
(* cancel, which walks the map, reaches all of them, and a key never has    *)
(* two: supersede, cancel and release leave no run loose that would land    *)
(* its verdict on a form that moved on.                                     *)
Tracked ==
    \A s \in Slots :
        runs[s].phase \in {"timer"} \cup InFlight /\ ~runs[s].aborted
            => entry[runs[s].key] = s

(* The runs and calls that still owe the counters a decrement.              *)
Owing(rs) == {s \in Slots : rs[s].phase \in InFlight /\ ~rs[s].released}
OwingAt(rs, k) == {s \in Owing(rs) : rs[s].key = k}
OwingCalls == {c \in Callers : calls[c].phase \in {"waiting", "closing"}}

(* The busy counters never exceed what is still going to count down, so     *)
(* meta.validating and field.validating cannot stay on once the work is     *)
(* over, through any mix of supersede, abort, release, cancel and throw.    *)
NoLeak ==
    /\ active <= Cardinality(Owing(runs)) + Cardinality(OwingCalls)
    /\ \A k \in Keys : counts[k] <= Cardinality(OwingAt(runs, k))

(* Nothing that could still change an error cell is on its way.             *)
Quiet ==
    /\ queued = 0
    /\ \A s \in Slots :
          runs[s].phase \in {"timer", "started", "waiting"} => runs[s].aborted
    /\ \A c \in Callers : calls[c].phase = "idle"

(* Once nothing is on its way, no field shows a verdict about a value it    *)
(* does not hold: the aborts and the epoch gate leave the newest verdict in *)
(* whatever order timers fire and adapters answer.                          *)
NoStaleVerdict == Quiet => \A f \in Fields : cell[f] \in {val[f], Unjudged}

(* Nor is a verdict lost: once nothing is on its way, every field has been  *)
(* judged, on the value it holds.  A dropped answer, an aborted run and a   *)
(* reset are always made up for by a pass that commits.                     *)
VerdictsCurrent == Quiet => cell = val

(* A verdict about an old value is eventually replaced or cleared.          *)
VerdictArrives ==
    \A f \in Fields :
        (cell[f] \notin {val[f], Unjudged}) ~> (cell[f] \in {val[f], Unjudged})

(* The busy indicator goes off again.                                       *)
IndicatorClears == (active > 0) ~> (active = 0)

(* While a run that may still commit, or an imperative pass, is in flight,  *)
(* meta.validating says so: the comment on withActiveValidation promises    *)
(* that the counter can neither leak nor steal a concurrent run's count.    *)
NeverStolen ==
    (\/ \E s \in Slots : runs[s].phase \in InFlight /\ ~runs[s].aborted
     \/ OwingCalls # {}) => active > 0

=============================================================================
