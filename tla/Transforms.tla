----------------------------- MODULE Transforms -----------------------------
(***************************************************************************)
(* Async register transforms (create-form-store.ts, assigner-pipeline.ts): *)
(* an input whose transform returns a promise opens a run at its path, the *)
(* run's answer is committed if the run is still the path's live one, and  *)
(* settleTransforms and the drain of handleSubmit wait until none is live. *)
(*                                                                         *)
(* Answers come in any order.  A run is superseded by the next input at    *)
(* its path and cancelled by a write at or above the path, by reset(),     *)
(* resetField() and by the unmount of the path's last binding.             *)
(*                                                                         *)
(* The form is a flat one with a container, Group, over some of its leaves *)
(* and every run is at a leaf.  An entry of transformRuns is never marked  *)
(* released: what releases a run also removes or replaces its entry.       *)
(***************************************************************************)
EXTENDS Naturals, FiniteSets

CONSTANTS
    Leaves, Group, GroupLeaves,
    Form,           \* the key of a wait for the whole form
    WaitKeys,       \* the keys that settleTransforms is called with
    Waiters,        \* calls that wait, of which
    Submitters,     \* these are drains of handleSubmit
    Values, Default,
    None,           \* no run, no key
    MaxActs         \* bound on what the consumer does

ASSUME TransformsAssumption ==
    /\ IsFiniteSet(Leaves) /\ Group \notin Leaves /\ GroupLeaves \subseteq Leaves
    /\ Form \notin Leaves \cup {Group}
    /\ WaitKeys \subseteq Leaves \cup {Group, Form}
    /\ None \notin Leaves \cup {Group, Form} \cup Values
    /\ Submitters \subseteq Waiters
    /\ Default \in Values
    /\ MaxActs \in Nat

Runs == [token : Nat, leaf : Leaves, result : Values]

ASSUME NoneIsNoRun == None \notin Runs

VARIABLES
    value,                  \* form.value at the leaves
    transformTokenSeq,
    transformRuns,          \* the live run of each leaf
    pending,                \* runs whose promise has not answered
    activeTransforms, fieldTransformCounts,
    aborted,                \* tokens of the runs whose holder was aborted
    transformErrors,        \* of each leaf, the run whose error it shows, or 0
    stands, asked,          \* of each waiter, where it stands and its key
    acts,                   \* what the consumer did so far
    newest, failed          \* history: the last run of each leaf since the last
                            \* reset, or 0, and the runs that failed

counts == <<activeTransforms, fieldTransformCounts>>
waits == <<stands, asked>>
history == <<newest, failed>>
vars == <<value, transformTokenSeq, transformRuns, pending, counts, aborted,
          transformErrors, waits, acts, history>>

Act == acts < MaxActs /\ acts' = acts + 1

(* The leaves at or under a path.                                           *)
Under(p) == IF p = Group THEN GroupLeaves ELSE {p} \cap Leaves

Live(S) == {f \in S : transformRuns[f] # None}

-----------------------------------------------------------------------------
(* The store's bookkeeping of runs.                                         *)

Less(n, k) == IF n > k THEN n - k ELSE 0

(* Idle as settleTransforms and the flush test it: a container has no count *)
(* of its own.                                                              *)
Idle(key, active, perField) ==
    IF key = Form THEN active = 0 ELSE key \in Leaves => perField[key] = 0

(* Mutants of Woken: nobody, everybody.                                     *)
WokenNever(active, perField) == {}
WokenAlways(active, perField) == {w \in Waiters : stands[w] = "waiting"}

(* The waiters that a flush resolves.                                       *)
Woken(active, perField) ==
    {w \in Waiters : stands[w] = "waiting" /\ Idle(asked[w], active, perField)}

Flush ==
    /\ stands' = [w \in Waiters |->
                    IF w \notin Woken(activeTransforms', fieldTransformCounts') THEN stands[w]
                    ELSE IF w \in Submitters THEN "resumed" ELSE "done"]
    /\ UNCHANGED asked

(* Mutant of Release: the entry goes, its count stays.                      *)
ReleaseUncounted(S) ==
    /\ transformRuns' = [f \in Leaves |-> IF f \in S THEN None ELSE transformRuns[f]]
    /\ UNCHANGED counts

(* The runs at S are released and their entries removed.                    *)
Release(S) ==
    /\ transformRuns' = [f \in Leaves |-> IF f \in S THEN None ELSE transformRuns[f]]
    /\ activeTransforms' = Less(activeTransforms, Cardinality(Live(S)))
    /\ fieldTransformCounts' =
         [f \in Leaves |-> Less(fieldTransformCounts[f], IF f \in Live(S) THEN 1 ELSE 0)]

Abort(S) == aborted' = aborted \cup {transformRuns[f].token : f \in Live(S)}

(* The error of a path goes only together with its live run.                *)
CancelUnder(S) ==
    /\ Release(S) /\ Abort(S)
    /\ transformErrors' = [f \in Leaves |-> IF f \in Live(S) THEN 0 ELSE transformErrors[f]]
    /\ Flush

(* Mutant of Superseded: the prior run keeps its count.                     *)
NotSuperseded(f) == 0

(* The prior run at f, which a new one releases.                            *)
Superseded(f) == IF f \in Live(Leaves) THEN 1 ELSE 0

(* beginTransform, for an input that will resolve to v.                     *)
Begin(f, v) ==
    /\ Act
    /\ transformTokenSeq' = transformTokenSeq + 1
    /\ LET run == [token |-> transformTokenSeq + 1, leaf |-> f, result |-> v] IN
       /\ transformRuns' = [transformRuns EXCEPT ![f] = run]
       /\ pending' = pending \cup {run}
    /\ fieldTransformCounts' =
         [fieldTransformCounts EXCEPT ![f] = Less(@, Superseded(f)) + 1]
    /\ activeTransforms' = Less(activeTransforms, Superseded(f)) + 1
    /\ Abort({f})
    /\ transformErrors' = [transformErrors EXCEPT ![f] = 0]
    /\ newest' = [newest EXCEPT ![f] = transformTokenSeq + 1]
    /\ UNCHANGED <<value, waits, failed>>

(* Mutant of IsCurrent: any run of the leaf will do.                        *)
IsCurrentAtAll(run) == transformRuns[run.leaf] # None

IsCurrent(run) ==
    /\ transformRuns[run.leaf] # None
    /\ transformRuns[run.leaf].token = run.token

(* endTransform.                                                            *)
End(run) ==
    /\ pending' = pending \ {run}
    /\ Release({f \in {run.leaf} : IsCurrent(run)})
    /\ Flush
    /\ UNCHANGED aborted

(* The promise resolves: a live run's value is committed in the same turn,  *)
(* or refused by the write gate.                                            *)
Resolves(run) ==
    /\ run \in pending
    /\ End(run)
    /\ \/ /\ IsCurrent(run)
          /\ value' = [value EXCEPT ![run.leaf] = run.result]
          /\ UNCHANGED <<transformErrors, failed>>
       \/ /\ IsCurrent(run)
          /\ transformErrors' = [transformErrors EXCEPT ![run.leaf] = run.token]
          /\ failed' = failed \cup {run.token}
          /\ UNCHANGED value
       \/ ~IsCurrent(run) /\ UNCHANGED <<value, transformErrors, failed>>
    /\ UNCHANGED <<transformTokenSeq, acts, newest>>

(* Mutant of Failed: the failure of any run shows.                          *)
FailedAnyway(run) == [transformErrors EXCEPT ![run.leaf] = run.token]

(* The errors that show once the run has failed.                            *)
Failed(run) ==
    IF IsCurrent(run) THEN [transformErrors EXCEPT ![run.leaf] = run.token]
    ELSE transformErrors

Rejects(run) ==
    /\ run \in pending
    /\ End(run)
    /\ transformErrors' = Failed(run)
    /\ failed' = failed \cup {run.token}
    /\ UNCHANGED <<value, transformTokenSeq, acts, newest>>

-----------------------------------------------------------------------------
(* What else happens to the form.                                           *)

(* setValueAtPath that clears the write gates, and resetField, whose        *)
(* restore is such a write.                                                 *)
Write(p) ==
    /\ Act
    /\ value' \in [Leaves -> Values] /\ \A f \in Leaves \ Under(p) : value'[f] = value[f]
    /\ CancelUnder(Under(p))
    /\ UNCHANGED <<transformTokenSeq, pending, history>>

(* applyFormReplacement, by an undo or a redo: runs are left alone.         *)
Replace ==
    /\ Act
    /\ value' \in [Leaves -> Values]
    /\ UNCHANGED <<transformTokenSeq, transformRuns, pending, counts, aborted,
                   transformErrors, waits, history>>

(* The last binding of p is removed.                                        *)
Unmount(p) ==
    /\ CancelUnder(Under(p))
    /\ UNCHANGED <<value, transformTokenSeq, pending, acts, history>>

Reset ==
    /\ Act
    /\ value' = [f \in Leaves |-> Default]
    /\ Release(Leaves) /\ Abort(Leaves) /\ Flush
    /\ transformErrors' = [f \in Leaves |-> 0]
    /\ newest' = [f \in Leaves |-> 0]
    /\ UNCHANGED <<transformTokenSeq, pending, failed>>

-----------------------------------------------------------------------------
(* Waiting.                                                                 *)

Settle(w, key) ==
    /\ stands[w] = "idle"
    /\ asked' = [asked EXCEPT ![w] = key]
    /\ stands' = [stands EXCEPT ![w] =
                    IF Idle(key, activeTransforms, fieldTransformCounts)
                    THEN "done" ELSE "waiting"]
    /\ UNCHANGED <<value, transformTokenSeq, transformRuns, pending, counts, aborted,
                   transformErrors, acts, history>>

(* Mutant of MayPass: handleSubmit waits once and does not look again.      *)
MayPassOnce(w) == stands[w] = "resumed" \/ activeTransforms = 0

MayPass(w) == activeTransforms = 0

(* handleSubmit at the head of its drain loop.                              *)
Drain(w) ==
    /\ stands' = [stands EXCEPT ![w] = IF MayPass(w) THEN "done" ELSE "waiting"]
    /\ asked' = [asked EXCEPT ![w] = Form]
    /\ UNCHANGED <<value, transformTokenSeq, transformRuns, pending, counts, aborted,
                   transformErrors, acts, history>>

StartDrain(w) == stands[w] = "idle" /\ Drain(w)
ResumeDrain(w) == stands[w] = "resumed" /\ Drain(w)

-----------------------------------------------------------------------------
Init ==
    /\ value = [f \in Leaves |-> Default]
    /\ transformTokenSeq = 0 /\ pending = {}
    /\ transformRuns = [f \in Leaves |-> None]
    /\ activeTransforms = 0
    /\ fieldTransformCounts = [f \in Leaves |-> 0]
    /\ aborted = {} /\ failed = {}
    /\ transformErrors = [f \in Leaves |-> 0]
    /\ newest = [f \in Leaves |-> 0]
    /\ stands = [w \in Waiters |-> "idle"]
    /\ asked = [w \in Waiters |-> None]
    /\ acts = 0

Answers == \E run \in pending : Resolves(run) \/ Rejects(run)

Next ==
    \/ \E f \in Leaves, v \in Values : Begin(f, v)
    \/ Answers
    \/ \E p \in Leaves \cup {Group} : Write(p) \/ Unmount(p)
    \/ Replace \/ Reset
    \/ \E w \in Waiters \ Submitters, key \in WaitKeys : Settle(w, key)
    \/ \E w \in Submitters : StartDrain(w) \/ ResumeDrain(w)

(* Promises answer, and a resolved wait is resumed.                         *)
Fairness ==
    /\ WF_vars(Answers)
    /\ \A w \in Submitters : WF_vars(ResumeDrain(w))

Spec == Init /\ [][Next]_vars /\ Fairness

-----------------------------------------------------------------------------
(* Properties.                                                              *)

(* Every variable holds what its declaration says; a path counts one run at *)
(* most.                                                                    *)
TypeOK ==
    /\ value \in [Leaves -> Values]
    /\ transformTokenSeq \in Nat /\ acts \in Nat
    /\ transformRuns \in [Leaves -> Runs \cup {None}]
    /\ pending \subseteq Runs
    /\ activeTransforms \in Nat
    /\ fieldTransformCounts \in [Leaves -> 0..1]
    /\ transformErrors \in [Leaves -> Nat] /\ newest \in [Leaves -> Nat]
    /\ aborted \subseteq Nat /\ failed \subseteq Nat
    /\ stands \in [Waiters -> {"idle", "waiting", "resumed", "done"}]
    /\ asked \in [Waiters -> Leaves \cup {Group, Form, None}]

(* The counters that busy flags and waits read agree with the runs that are *)
(* live, through every supersede, cancel and late answer.                   *)
CountsExact ==
    /\ activeTransforms = Cardinality(Live(Leaves))
    /\ \A f \in Leaves : fieldTransformCounts[f] = IF f \in Live(Leaves) THEN 1 ELSE 0

(* The transformError of a field is that of the last input given there      *)
(* since the last reset, and it shows whenever that input's run failed      *)
(* without having been cancelled: the failure of a run that newer input     *)
(* superseded never shows, however late it comes, and nothing that becomes  *)
(* of an older run takes a newer error away.                                *)
ErrorsAreLatest ==
    \A f \in Leaves :
        transformErrors[f] = IF newest[f] \in failed \ aborted THEN newest[f] ELSE 0

(* handleSubmit goes on to validate only when every input given so far has  *)
(* landed, failed or been superseded, whatever starts while it waits.       *)
SubmitSeesLanded ==
    [][\A w \in Submitters : stands[w] # "done" /\ stands'[w] = "done"
                                => Live(Leaves) = {}]_vars

(* settleTransforms(path) resolves only when no run at or under the path is *)
(* live.                                                                    *)
Covered(key) == IF key = Form THEN Leaves ELSE Under(key)
SettledIsQuiet ==
    [][\A w \in Waiters \ Submitters : stands[w] # "done" /\ stands'[w] = "done"
                                => (Live(Covered(asked[w])) = {})']_vars

(* Every wait ends: no cancel or supersede forgets the waiters.             *)
WaitsEnd ==
    \A w \in Waiters : stands[w] \in {"waiting", "resumed"} ~> stands[w] = "done"

(* The fields behave as LatestWins promises, the live run of a leaf being   *)
(* its intent: a run that was superseded or cancelled never lands.          *)
intent == [f \in Leaves |-> IF transformRuns[f] = None THEN None ELSE transformRuns[f].result]
LW == INSTANCE LatestWins WITH NoIntent <- None
LatestEditWins == LW!Spec
=============================================================================
