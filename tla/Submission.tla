----------------------------- MODULE Submission -----------------------------
(***************************************************************************)
(* handleSubmit and the submission surface of one form (process-form.ts),  *)
(* with the part of reset() that clears it (create-form-store.ts).         *)
(*                                                                         *)
(* A submit handler may be called at any time, by a click or by code.  It  *)
(* is let in when no submission is counted in flight, drains the async     *)
(* transforms, validates, and runs onSubmit or onError; each of these      *)
(* awaits.  reset() may come between any two steps: it zeroes the surface  *)
(* and bumps the generation, and the handler it overtook runs on, its      *)
(* writes to the surface guarded by the generation it entered with.        *)
(*                                                                         *)
(* Every handler of the model is called at most once; a call that finds a  *)
(* submission in flight returns at once and is no step here.               *)
(***************************************************************************)
EXTENDS Integers, FiniteSets

CONSTANTS
    Handlers,       \* the calls that are let in
    NoError,        \* submitError is null
    WithOnError,    \* those whose consumer passed an onError
    MaxGen,         \* bound on resets
    MaxTransforms   \* bound on transforms started

ASSUME SubmissionAssumption ==
    /\ IsFiniteSet(Handlers) /\ NoError \notin Handlers
    /\ WithOnError \subseteq Handlers
    /\ MaxGen \in Nat /\ MaxTransforms \in Nat

VARIABLES
    phase,          \* where each handler stands
    entered,        \* genAtEntry of each handler
    succeeded,      \* handlers that emitted submitSuccess
    generation,     \* submissionGeneration
    activeSubmissions, submitting, submitted, submissionAttempts,
    submitError,    \* the handler whose failure is published, or NoError
    schemaErrors,   \* the schema side of the error cells is not empty
    userErrors,     \* the user side is not empty
    activeTransforms,
    started         \* transforms started so far

surface == <<submitting, submitted, submissionAttempts, submitError>>
errors == <<schemaErrors, userErrors>>
transforms == <<activeTransforms, started>>
vars == <<phase, entered, succeeded, generation, activeSubmissions, surface,
          errors, transforms>>

Phases == {"idle", "draining", "validating", "onError", "onSubmit", "done"}
InFlight(h) == phase[h] \notin {"idle", "done"}
Current(h) == entered[h] = generation

-----------------------------------------------------------------------------
(* The life of a handler.                                                   *)

(* The synchronous entry: the re-entry guard, then everything up to the     *)
(* first await, which is the drain when a transform is in flight.           *)
Submit(h) ==
    /\ phase[h] = "idle" /\ activeSubmissions = 0
    /\ phase' = [phase EXCEPT ![h] = IF activeTransforms > 0 THEN "draining"
                                     ELSE "validating"]
    /\ entered' = [entered EXCEPT ![h] = generation]
    /\ activeSubmissions' = activeSubmissions + 1
    /\ submitting' = TRUE /\ submitError' = NoError
    /\ userErrors' = FALSE
    /\ UNCHANGED <<succeeded, generation, submitted, submissionAttempts,
                   schemaErrors, transforms>>

Drained(h) ==
    /\ phase[h] = "draining" /\ activeTransforms = 0
    /\ phase' = [phase EXCEPT ![h] = "validating"]
    /\ UNCHANGED <<entered, succeeded, generation, activeSubmissions, surface,
                   errors, transforms>>

(* Math.max(0, n - 1), and two mutants of it: no clamp, no decrement.       *)
CountOutUnclamped(n) == n - 1
CountOutSkipped(n) == n
CountOut(n) == IF n > 0 THEN n - 1 ELSE 0

(* activeSubmissions > 0, and a mutant that is off by one.                  *)
StillBusyOffByOne(n) == n >= 0
StillBusy(n) == n > 0

(* The finally block, which every exit runs through: the count always goes  *)
(* down, the visible counters only in the handler's own generation.         *)
Finish(h) ==
    /\ phase' = [phase EXCEPT ![h] = "done"]
    /\ activeSubmissions' = CountOut(activeSubmissions)
    /\ IF Current(h)
       THEN /\ submitting' = StillBusy(activeSubmissions')
            /\ submissionAttempts' = submissionAttempts + 1
       ELSE UNCHANGED <<submitting, submissionAttempts>>
    /\ UNCHANGED <<entered, generation, transforms>>

(* Mutant of Publish: no generation guard.                                  *)
PublishAnyway(h) == submitError' = h

(* The catch block: a failure is published in the handler's own generation, *)
(* and rendered as a user error unless it came out of onError.              *)
Publish(h) == submitError' = IF Current(h) THEN h ELSE submitError

(* The schema side after a verdict, in the handler's own generation only;   *)
(* the mutant has no generation guard.                                      *)
JudgedAnyway(h, invalid) == invalid
Judged(h, invalid) == IF Current(h) THEN invalid ELSE schemaErrors

(* The verdict is in.  onSubmit, and onError, are called synchronously.     *)
Accepted(h) ==
    /\ phase[h] = "validating"
    /\ phase' = [phase EXCEPT ![h] = "onSubmit"]
    /\ schemaErrors' = Judged(h, FALSE)
    /\ UNCHANGED <<entered, succeeded, generation, activeSubmissions, surface,
                   userErrors, transforms>>

(* A form that fails for its blank fields only has no schema error: those   *)
(* are derived elsewhere.                                                   *)
Rejected(h) ==
    /\ phase[h] = "validating"
    /\ \E invalid \in BOOLEAN : schemaErrors' = Judged(h, invalid)
    /\ IF h \in WithOnError
       THEN /\ phase' = [phase EXCEPT ![h] = "onError"]
            /\ UNCHANGED <<entered, generation, activeSubmissions, submitting,
                           submissionAttempts, transforms>>
       ELSE Finish(h)
    /\ UNCHANGED <<succeeded, submitted, submitError, userErrors>>

ValidationThrows(h) ==
    /\ phase[h] = "validating"
    /\ Publish(h) /\ userErrors' = (userErrors \/ Current(h))
    /\ Finish(h)
    /\ UNCHANGED <<succeeded, submitted, schemaErrors>>

OnErrorReturns(h) ==
    /\ phase[h] = "onError"
    /\ Finish(h)
    /\ UNCHANGED <<succeeded, submitted, submitError, errors>>

OnErrorThrows(h) ==
    /\ phase[h] = "onError"
    /\ Publish(h)
    /\ Finish(h)
    /\ UNCHANGED <<succeeded, submitted, errors>>

(* onSubmit resolved.  Errors left in the user layer make it a failure; the *)
(* success event is emitted whatever the generation.                        *)
OnSubmitReturns(h) ==
    /\ phase[h] = "onSubmit"
    /\ IF userErrors
       THEN UNCHANGED <<succeeded, submitted>>
       ELSE /\ succeeded' = succeeded \cup {h}
            /\ submitted' = (submitted \/ Current(h))
    /\ Finish(h)
    /\ UNCHANGED <<submitError, errors>>

OnSubmitThrows(h) ==
    /\ phase[h] = "onSubmit"
    /\ Publish(h) /\ userErrors' = (userErrors \/ Current(h))
    /\ Finish(h)
    /\ UNCHANGED <<succeeded, submitted, schemaErrors>>

-----------------------------------------------------------------------------
(* What goes on around it.                                                  *)

(* setErrors and clearErrors, from onSubmit or from anywhere else.          *)
SetErrors ==
    /\ userErrors' \in BOOLEAN
    /\ UNCHANGED <<phase, entered, succeeded, generation, activeSubmissions,
                   surface, schemaErrors, transforms>>

TransformStarts ==
    /\ started < MaxTransforms /\ started' = started + 1
    /\ activeTransforms' = activeTransforms + 1
    /\ UNCHANGED <<phase, entered, succeeded, generation, activeSubmissions,
                   surface, errors>>

TransformEnds ==
    /\ activeTransforms > 0
    /\ activeTransforms' = activeTransforms - 1
    /\ UNCHANGED <<phase, entered, succeeded, generation, activeSubmissions,
                   surface, errors, started>>

(* reset, on a form whose defaults are valid: the error store is emptied    *)
(* and the synchronous pass seeds nothing.                                  *)
Reset ==
    /\ generation < MaxGen /\ generation' = generation + 1
    /\ activeSubmissions' = 0
    /\ submitting' = FALSE /\ submitted' = FALSE
    /\ submissionAttempts' = 0 /\ submitError' = NoError
    /\ schemaErrors' = FALSE /\ userErrors' = FALSE
    /\ activeTransforms' = 0
    /\ UNCHANGED <<phase, entered, succeeded, started>>

-----------------------------------------------------------------------------
Init ==
    /\ phase = [h \in Handlers |-> "idle"]
    /\ entered = [h \in Handlers |-> 0]
    /\ succeeded = {}
    /\ generation = 0 /\ activeSubmissions = 0
    /\ submitting = FALSE /\ submitted = FALSE
    /\ submissionAttempts = 0 /\ submitError = NoError
    /\ schemaErrors = FALSE /\ userErrors = FALSE
    /\ activeTransforms = 0 /\ started = 0

HandlerStep(h) ==
    \/ Drained(h)
    \/ Accepted(h) \/ Rejected(h) \/ ValidationThrows(h)
    \/ OnErrorReturns(h) \/ OnErrorThrows(h)
    \/ OnSubmitReturns(h) \/ OnSubmitThrows(h)

Next ==
    \/ \E h \in Handlers : Submit(h) \/ HandlerStep(h)
    \/ SetErrors \/ TransformStarts \/ TransformEnds \/ Reset

(* Adapters, transforms and the consumer's callbacks answer.                *)
Fairness ==
    /\ WF_vars(TransformEnds)
    /\ \A h \in Handlers : WF_vars(HandlerStep(h))

Spec == Init /\ [][Next]_vars /\ Fairness

-----------------------------------------------------------------------------
(* Properties.                                                              *)

(* Every variable holds what its declaration says.                          *)
TypeOK ==
    /\ phase \in [Handlers -> Phases]
    /\ entered \in [Handlers -> Nat]
    /\ succeeded \subseteq Handlers
    /\ generation \in Nat /\ activeSubmissions \in Nat
    /\ submitting \in BOOLEAN /\ submitted \in BOOLEAN
    /\ submissionAttempts \in Nat /\ submitError \in Handlers \cup {NoError}
    /\ schemaErrors \in BOOLEAN /\ userErrors \in BOOLEAN
    /\ activeTransforms \in Nat /\ started \in Nat

LiveHandlers == {h \in Handlers : InFlight(h) /\ Current(h)}

(* The re-entry guard never locks the form out: what it counts is never     *)
(* more than the submissions in flight since the last reset, each of which  *)
(* will count itself out.                                                   *)
NeverLockedOut == activeSubmissions <= Cardinality(LiveHandlers)

(* meta.submitting is never stuck on, nor turned on by a submission that a  *)
(* reset overtook.                                                          *)
SubmittingIsLive == submitting => LiveHandlers # {}

(* The submission surface speaks of the submissions since the last reset    *)
(* and of nothing else: it is pristine until one is started, counts exactly *)
(* those that finished, shows an error only of one of them, and claims      *)
(* success only when one of them succeeded.                                 *)
Finished == {h \in Handlers : phase[h] = "done" /\ Current(h)}
SurfaceIsCurrent ==
    /\ submissionAttempts = Cardinality(Finished)
    /\ submitError # NoError => submitError \in Finished
    /\ submitted <=> succeeded \cap Finished # {}
    /\ LiveHandlers \cup Finished = {} => ~submitting

(* A schema error that a submission writes belongs to the form it judged:   *)
(* a submission that a reset overtook leaves the form's errors as they are. *)
StaleLeavesErrors ==
    [][\A h \in Handlers : HandlerStep(h) /\ ~Current(h) => UNCHANGED <<surface, errors>>]_vars

(* meta.submitting always comes back off, so the button is not stranded.    *)
SubmittingEnds == submitting ~> ~submitting

(* While a submission since the last reset is in flight, another is not let *)
(* in: the comment on the re-entry guard says that the callback would       *)
(* otherwise run twice.                                                     *)
OneAtATime == Cardinality(LiveHandlers) <= 1
=============================================================================
