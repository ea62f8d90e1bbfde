------------------------------- MODULE Wizard -------------------------------
(***************************************************************************)
(* useWizard (use-wizard.ts): a pin that moves over the steps of a flow,   *)
(* gates that seal what comes after them until their form is submitted     *)
(* clean, and a submission of the whole flow.                              *)
(*                                                                         *)
(* The steps are fixed, 1 to Last, and each is a form whose submissions    *)
(* run on their own: a submission validates, calls its callback and lands, *)
(* and the wizard hears of it only when it lands clean.  Everything the    *)
(* wizard does across an await can be overtaken by the user's navigation,  *)
(* by the address bar, by relock() and by reset().                         *)
(***************************************************************************)
EXTENDS Naturals, FiniteSetsExt

CONSTANTS
    Last,           \* the number of steps
    Gates,          \* the steps wrapped in gate()
    Seeded,         \* the gates that defaultStatuses declares cleared
    Lazy,           \* the steps whose defaults come late, or never
    Subs,           \* member-form submissions alive at once
    None,           \* no deferred advance
    Fallible,       \* bound: the steps that get user errors
    MaxAttempts,    \* bound on the submissions of each form
    MaxResets       \* bound on wizard.reset()

Steps == 1..Last

ASSUME WizardAssumption ==
    /\ Last \in Nat \ {0}
    /\ Gates \subseteq Steps /\ Seeded \subseteq Gates /\ Lazy \subseteq Steps
    /\ Fallible \subseteq Steps
    /\ IsFiniteSet(Subs)
    /\ MaxAttempts \in [Steps -> Nat] /\ MaxResets \in Nat

VARIABLES
    active,         \* activeKey
    clearedGates,
    seedKnown,      \* the defaultStatuses factory has answered
    ready,          \* steps whose defaults have resolved
    subs,           \* the member submissions in flight
    activeSubmissions, submissionAttempts, userErrors,  \* of the member forms
    deferral,       \* the advance that waits for a submission in flight
    wizard,         \* where the submission of the whole wizard stands
    done,
    generation      \* resets so far: submissionGeneration of every form

forms == <<activeSubmissions, submissionAttempts, userErrors>>
vars == <<active, clearedGates, seedKnown, ready, subs, forms, deferral,
          wizard, done, generation>>

Idle == [phase |-> "idle", step |-> 1, tried |-> FALSE, gen |-> 0]
Deferrals == [step : Steps, attempts : Nat,
              gen : Nat, rides : SUBSET Subs, contested : BOOLEAN]

ASSUME NoneIsNoDeferral == None \notin Deferrals

submitting == wizard # "idle"

-----------------------------------------------------------------------------
(* Gates and the pin.                                                       *)

Sealing(c) == Gates \ c
Locked(c) == {k \in Steps : \E g \in Sealing(c) : g < k}

(* lastReachableKey: the first uncleared gate; with none, the last step.    *)
LastReachable(c) == IF Sealing(c) = {} THEN Last ELSE Min(Sealing(c))

(* Mutant of Landing: the target is taken as it is.                         *)
LandingAsAsked(k, c) == k

(* resolveLandingKey: a locked target redirects to the gate, unless the     *)
(* gate's own defaults have not resolved.                                   *)
Landing(k, c) ==
    IF k \in Locked(c) /\ LastReachable(c) \in ready THEN LastReachable(c) ELSE k

(* moveTo and advanceOne, as the pin after them.                            *)
Moved(k, c) == IF k = active THEN active ELSE Landing(k, c)
Advanced(c) == IF active < Last THEN Moved(active + 1, c) ELSE active

-----------------------------------------------------------------------------
(* Member submissions.                                                      *)

Running(h) == subs[h].phase \in {"validating", "callback"}
RunningAt(k) == {h \in Subs : Running(h) /\ subs[h].step = k}

(* Mutant of CountOut: the clamp is missing.                                *)
CountOutUnclamped(n) == n - 1

CountOut(n) == IF n > 0 THEN n - 1 ELSE 0

(* History: a submission starts or is counted beside those the deferral,    *)
(* of step k, waits for.                                                    *)
Contest(k) ==
    IF deferral = None \/ deferral.step # k THEN deferral
    ELSE [deferral EXCEPT !.contested = TRUE]

(* form.handleSubmit of step k, tried when it is tryNext's.                 *)
Submit(k, tried) ==
    \E h \in Subs :
        /\ subs[h] = Idle
        /\ activeSubmissions[k] = 0 /\ submissionAttempts[k] < MaxAttempts[k]
        /\ subs' = [subs EXCEPT ![h] = [phase |-> "validating", step |-> k,
                                        tried |-> tried, gen |-> generation]]
        /\ activeSubmissions' = [activeSubmissions EXCEPT ![k] = @ + 1]
        /\ userErrors' = userErrors \ {k}
        /\ deferral' = Contest(k)
        /\ UNCHANGED <<active, clearedGates, seedKnown, ready, submissionAttempts,
                       wizard, done, generation>>

CallsBack(h) ==
    /\ subs[h].phase = "validating"
    /\ subs' = [subs EXCEPT ![h].phase = "callback"]
    /\ UNCHANGED <<active, clearedGates, seedKnown, ready, forms, deferral,
                   wizard, done, generation>>

(* The finally block.  tryNext goes on if its callback ran, clean or not.   *)
Finish(h) ==
    LET k == subs[h].step IN
    /\ activeSubmissions' = [activeSubmissions EXCEPT ![k] = CountOut(@)]
    /\ submissionAttempts' =
         [submissionAttempts EXCEPT ![k] = IF subs[h].gen = generation THEN @ + 1 ELSE @]
    /\ subs' = [subs EXCEPT ![h] =
                  IF subs[h].tried /\ subs[h].phase = "callback"
                  THEN [@ EXCEPT !.phase = "landed"] ELSE Idle]

Dismount(h) ==
    IF deferral = None THEN None ELSE [deferral EXCEPT !.rides = @ \ {h}]

(* Invalid input, a throw, or user errors found when the callback returns.  *)
(* tryNext's own callback does not throw.                                   *)
Fails(h) ==
    /\ Running(h)
    /\ \/ /\ subs[h].phase = "callback" => subs[h].step \in userErrors
          /\ UNCHANGED userErrors
       \/ /\ subs[h].phase = "callback" => ~subs[h].tried
          /\ subs[h].step \in Fallible
          /\ userErrors' = IF subs[h].gen = generation
                           THEN userErrors \cup {subs[h].step} ELSE userErrors
    /\ Finish(h)
    /\ deferral' = Dismount(h)
    /\ UNCHANGED <<active, clearedGates, seedKnown, ready, wizard, done,
                   generation>>

(* A submission may honour the deferral: one of its step, asked when the    *)
(* form had as many attempts behind it.  Mutants: it does not compare them, *)
(* it takes the count for one that is bumped before the success signal.     *)
HonoursAny(k) == active = k
HonoursCounted(k) == deferral.attempts + 1 = submissionAttempts[k] /\ active = k
Honours(k) == deferral.attempts = submissionAttempts[k] /\ active = k

(* Mutant of LeftClean: errors the callback left do not matter.             *)
LeftAnyhow(k) == TRUE
LeftClean(k) == k \notin userErrors

Opened(k) == IF k \in Gates THEN clearedGates \cup {k} ELSE clearedGates

(* The callback returned and left no errors: the success signal opens the   *)
(* gate, then fires the deferral, before the finally block.                 *)
Lands(h) ==
    LET k == subs[h].step
        waited == deferral # None /\ deferral.step = k
    IN
    /\ subs[h].phase = "callback" /\ LeftClean(k)
    /\ clearedGates' = Opened(k)
    /\ active' = IF waited /\ Honours(k) THEN Advanced(Opened(k)) ELSE active
    /\ deferral' = IF waited THEN None ELSE Dismount(h)
    /\ Finish(h)
    /\ UNCHANGED <<seedKnown, ready, userErrors, wizard, done, generation>>

(* Mutant of Resumed: not pinned to the step it started from.               *)
ResumedAnywhere(h) == Advanced(clearedGates)
Resumed(h) == IF active = subs[h].step THEN Advanced(clearedGates) ELSE active

(* tryNext after its await.                                                 *)
TryResumes(h) ==
    /\ subs[h].phase = "landed"
    /\ active' = Resumed(h)
    /\ subs' = [subs EXCEPT ![h] = Idle]
    /\ UNCHANGED <<clearedGates, seedKnown, ready, forms, deferral, wizard,
                   done, generation>>

(* setErrors and clearErrors on a step.                                     *)
SetErrors(k) ==
    /\ k \in Fallible
    /\ userErrors' \in {userErrors \cup {k}, userErrors \ {k}}
    /\ UNCHANGED <<active, clearedGates, seedKnown, ready, subs, activeSubmissions,
                   submissionAttempts, deferral, wizard, done, generation>>

-----------------------------------------------------------------------------
(* Navigation.                                                              *)

MovePin(to) ==
    /\ active' = to
    /\ UNCHANGED <<clearedGates, seedKnown, ready, subs, forms, deferral,
                   wizard, done, generation>>

(* advanceWhenInFlightSubmitLands.  gen, rides and contested are history:   *)
(* the resets before it was asked, the submissions that were in flight then *)
(* and are still, and whether its step had any other since it was asked.    *)
Defer ==
    /\ deferral' = [step |-> active, attempts |-> submissionAttempts[active],
                    gen |-> generation, rides |-> RunningAt(active),
                    contested |-> \E h, i \in RunningAt(active) : h # i]
    /\ UNCHANGED <<active, clearedGates, seedKnown, ready, subs, forms, wizard,
                   done, generation>>

TryNext ==
    /\ ~submitting /\ active < Last
    /\ IF activeSubmissions[active] > 0 THEN Defer ELSE Submit(active, TRUE)

NextStep ==
    /\ ~submitting /\ active < Last
    /\ IF active \in Sealing(clearedGates) THEN TryNext ELSE MovePin(Advanced(clearedGates))

Back == ~submitting /\ active > 1 /\ MovePin(Moved(active - 1, clearedGates))

GoTo(k) == ~submitting /\ MovePin(Moved(k, clearedGates))

(* The address bar moves the pin, whatever is in flight.                    *)
Restore(k) == MovePin(Moved(k, clearedGates))

(* The corrector: a pin that ended up behind a gate goes back to it.        *)
Correct ==
    /\ active \in Locked(clearedGates) /\ LastReachable(clearedGates) \in ready
    /\ MovePin(LastReachable(clearedGates))

-----------------------------------------------------------------------------
(* Defaults, seeds, relock and reset.                                       *)

Hydrates(k) ==
    /\ k \notin ready /\ ready' = ready \cup {k}
    /\ UNCHANGED <<active, clearedGates, seedKnown, subs, forms, deferral,
                   wizard, done, generation>>

SeedArrives ==
    /\ ~seedKnown /\ seedKnown' = TRUE
    /\ clearedGates' = clearedGates \cup Seeded
    /\ UNCHANGED <<active, ready, subs, forms, deferral, wizard, done,
                   generation>>

(* relock(), when its commit resolved.  It reads nothing before it awaits   *)
(* it, so a call whose commit is late, or throws, changes nothing.          *)
Relock(g) ==
    /\ clearedGates' = clearedGates \ {g}
    /\ UNCHANGED <<active, seedKnown, ready, subs, forms, deferral, wizard,
                   done, generation>>

(* Nothing in flight is stopped: not a deferral, not a submission.          *)
Reset ==
    /\ generation < MaxResets /\ generation' = generation + 1
    /\ done' = FALSE
    /\ clearedGates' = IF seedKnown THEN Seeded ELSE {}
    /\ active' = 1
    /\ activeSubmissions' = [k \in Steps |-> 0]
    /\ submissionAttempts' = [k \in Steps |-> 0]
    /\ userErrors' = {}
    /\ UNCHANGED <<seedKnown, ready, subs, deferral, wizard>>

-----------------------------------------------------------------------------
(* wizard.handleSubmit.                                                     *)

WizardSubmit ==
    /\ ~submitting /\ wizard' = "validating"
    /\ \A k \in Steps : submissionAttempts[k] <= MaxAttempts[k]
    /\ userErrors' = {}
    /\ UNCHANGED <<active, clearedGates, seedKnown, ready, subs, activeSubmissions,
                   submissionAttempts, deferral, done, generation>>

(* The steps that block completion, given those that are invalid.           *)
Blocking(bad) == bad \cup Sealing(clearedGates)

(* Errors come before gates, each in step order; the pin goes to the first. *)
First(bad) == IF bad # {} THEN Min(bad) ELSE Min(Sealing(clearedGates))

Judged ==
    /\ wizard = "validating"
    /\ submissionAttempts' = [k \in Steps |-> submissionAttempts[k] + 1]
    /\ \E bad \in SUBSET Steps :
          IF Blocking(bad) = {}
          THEN wizard' = "onSubmit" /\ UNCHANGED active
          ELSE wizard' = "failing" /\ active' = Moved(First(bad), clearedGates)
    /\ deferral' = IF deferral = None THEN None ELSE Contest(deferral.step)
    /\ UNCHANGED <<clearedGates, seedKnown, ready, subs, activeSubmissions,
                   userErrors, done, generation>>

(* onSubmit returned.  Errors it left on a step make it a failure; which of *)
(* the steps is first depends on the order they were validated in.          *)
OnSubmitReturns ==
    /\ wizard = "onSubmit"
    /\ IF userErrors = {}
       THEN wizard' = "idle" /\ done' = TRUE /\ UNCHANGED active
       ELSE /\ \E k \in userErrors : active' = Moved(k, clearedGates)
            /\ wizard' = "failing" /\ UNCHANGED done
    /\ UNCHANGED <<clearedGates, seedKnown, ready, subs, forms, deferral,
                   generation>>

(* onSubmit threw, or a failed submission is through with onError.          *)
WizardEnds ==
    /\ wizard \in {"onSubmit", "failing"} /\ wizard' = "idle"
    /\ UNCHANGED <<active, clearedGates, seedKnown, ready, subs, forms, deferral,
                   done, generation>>

-----------------------------------------------------------------------------
Init ==
    /\ seedKnown \in BOOLEAN
    /\ clearedGates = IF seedKnown THEN Seeded ELSE {}
    /\ ready = Steps \ Lazy
    /\ \E k \in Steps : active = Landing(k, clearedGates)
    /\ subs = [h \in Subs |-> Idle]
    /\ activeSubmissions = [k \in Steps |-> 0]
    /\ submissionAttempts = [k \in Steps |-> 0]
    /\ userErrors = {}
    /\ deferral = None
    /\ wizard = "idle" /\ done = FALSE
    /\ generation = 0

MemberStep(h) == CallsBack(h) \/ Fails(h) \/ Lands(h) \/ TryResumes(h)

Next ==
    \/ \E k \in Steps : Submit(k, FALSE) \/ SetErrors(k) \/ GoTo(k) \/ Restore(k)
    \/ \E h \in Subs : MemberStep(h)
    \/ TryNext \/ NextStep \/ Back \/ Correct
    \/ \E k \in Lazy : Hydrates(k)
    \/ SeedArrives \/ Reset
    \/ \E g \in Gates : Relock(g)
    \/ WizardSubmit \/ Judged \/ OnSubmitReturns \/ WizardEnds

Spec == Init /\ [][Next]_vars

-----------------------------------------------------------------------------
(* Properties.                                                              *)

SubType ==
    [phase : {"idle", "validating", "callback", "landed"}, step : Steps,
     tried : BOOLEAN, gen : Nat]

(* Every variable holds what its declaration says; the clamped count of a   *)
(* form's submissions is never negative.                                    *)
TypeOK ==
    /\ active \in Steps
    /\ clearedGates \subseteq Gates
    /\ ready \subseteq Steps /\ userErrors \subseteq Steps
    /\ subs \in [Subs -> SubType]
    /\ activeSubmissions \in [Steps -> Nat] /\ submissionAttempts \in [Steps -> Nat]
    /\ deferral \in Deferrals \cup {None}
    /\ wizard \in {"idle", "validating", "onSubmit", "failing"}
    /\ seedKnown \in BOOLEAN /\ done \in BOOLEAN
    /\ generation \in Nat

(* A gate opens only when a submission of its own form lands clean, or by   *)
(* its seed: never because its form is valid, was submitted unsuccessfully, *)
(* or because the pin, the wizard's submission or a reset went past it.     *)
ClearanceIsConfirmed ==
    [][\A g \in clearedGates' \ clearedGates :
          \/ g \in Seeded /\ seedKnown'
          \/ \E h \in Subs : /\ subs[h].step = g /\ subs[h].phase = "callback"
                             /\ subs'[h].phase # "callback" /\ g \notin userErrors]_vars

(* While no gate is waiting for its defaults, the pin never moves behind an *)
(* uncleared gate: not by a jump, a deferred advance, a tryNext whose gate  *)
(* was sealed again meanwhile, a failed submission or the address bar.      *)
PinStaysOut ==
    [][active' # active /\ Gates \subseteq ready => active' \notin Locked(clearedGates')]_vars

(* One submission advances the pin one step: a tryNext whose submission     *)
(* also fired a deferred advance does not skip the step after it.           *)
NoSkip ==
    [][\A h \in Subs : subs[h] # Idle /\ subs'[h] # subs[h] /\ active' # active =>
          active = subs[h].step]_vars

(* An advance asked of a submission in flight is not lost: when that one    *)
(* lands clean with the pin still on its step, and no gate sealed before    *)
(* it, the pin goes to the next step.  Out of this are a deferral from      *)
(* before a reset, and a contested one: the count it compares is also that  *)
(* of the flow's submission and of the form's other submissions.            *)
Awaits(h) ==
    /\ deferral # None /\ h \in deferral.rides
    /\ deferral.gen = generation /\ ~deferral.contested
AdvanceLands ==
    [][\A h \in Subs :
          Lands(h) /\ Awaits(h) /\ active = deferral.step /\ active \notin Locked(clearedGates)
              => active' = active + 1]_vars

(* A deferred advance moves the pin only while a submission that was in     *)
(* flight when it was asked is in flight still, as long as no reset came    *)
(* in between: it does not outlive the failure of the one it waited for.    *)
Honoured(h) ==
    /\ subs[h].phase = "callback" /\ subs'[h].phase # "callback"
    /\ deferral # None /\ deferral.step = subs[h].step /\ active' # active
RidesItsOwn ==
    [][\A h \in Subs : Honoured(h) /\ deferral.gen = generation => deferral.rides # {}]_vars

(* The same with no condition on resets: the comment on                     *)
(* advanceWhenInFlightSubmitLands says that a stale deferral can never move *)
(* the pin on its own, an unchanged count of attempts proving that it is    *)
(* still the submission it rode.                                            *)
NeverStale == [][\A h \in Subs : Honoured(h) => deferral.rides # {}]_vars
=============================================================================
