------------------------- MODULE Submission_proofs -------------------------
(***************************************************************************)
(* The safety properties of Submission, for every number of handlers.      *)
(*                                                                         *)
(* SubmittingIsLive needs NeverLockedOut: the visible flag is recomputed   *)
(* from the count, so it is only as good as the count.  SurfaceIsCurrent   *)
(* needs that no handler entered in a generation to come, so that a reset  *)
(* leaves none that is current.                                            *)
(***************************************************************************)
EXTENDS Submission, FiniteSetTheorems, TLAPS

EnteredBefore == \A h \in Handlers : entered[h] <= generation
SucceededAreDone == \A h \in succeeded : phase[h] = "done"

IInv ==
    /\ TypeOK
    /\ EnteredBefore
    /\ SucceededAreDone
    /\ NeverLockedOut
    /\ SubmittingIsLive
    /\ SurfaceIsCurrent

LEMMA HandlerSetsFinite ==
    /\ IsFiniteSet(LiveHandlers) /\ Cardinality(LiveHandlers) \in Nat
    /\ IsFiniteSet(Finished) /\ Cardinality(Finished) \in Nat
<1>1. LiveHandlers \in SUBSET Handlers /\ Finished \in SUBSET Handlers
  BY DEF LiveHandlers, Finished
<1> QED  BY <1>1, FS_Subset, FS_CardinalityType, SubmissionAssumption

LEMMA CountOutFacts ==
    ASSUME NEW n \in Nat
    PROVE  /\ CountOut(n) \in Nat /\ CountOut(n) <= n
           /\ \A m \in Nat : n <= m /\ m > 0 => CountOut(n) <= m - 1
  BY DEF CountOut

(* A step that moves no handler into or out of a phase that counts.         *)
LEMMA SameSets ==
    ASSUME entered' = entered, generation' = generation,
           \A h \in Handlers : InFlight(h)' <=> InFlight(h),
           \A h \in Handlers : phase'[h] = "done" <=> phase[h] = "done"
    PROVE  LiveHandlers' = LiveHandlers /\ Finished' = Finished
  BY DEF LiveHandlers, Finished, Current

(* The end of a handler: it leaves the live ones and joins the finished     *)
(* ones when it belongs to the current generation, and changes neither when *)
(* it does not.                                                             *)
LEMMA FinishKeepsCounts ==
    ASSUME IInv, NEW h \in Handlers, InFlight(h), Finish(h)
    PROVE  /\ phase' \in [Handlers -> Phases] /\ activeSubmissions' \in Nat
           /\ submitting' \in BOOLEAN /\ submissionAttempts' \in Nat
           /\ EnteredBefore' /\ NeverLockedOut' /\ SubmittingIsLive'
           /\ submissionAttempts' = Cardinality(Finished')
           /\ LiveHandlers' = {} => ~submitting'
           /\ Finished' = IF Current(h) THEN Finished \cup {h} ELSE Finished
<1>1. /\ phase' = [phase EXCEPT ![h] = "done"]
      /\ activeSubmissions' = CountOut(activeSubmissions)
      /\ entered' = entered /\ generation' = generation
  BY DEF Finish
<1>2. /\ phase'[h] = "done" /\ \A g \in Handlers : g # h => phase'[g] = phase[g]
      /\ phase' \in [Handlers -> Phases] /\ phase[h] # "done"
  BY <1>1 DEF IInv, TypeOK, Phases, InFlight
<1>3. activeSubmissions' \in Nat /\ activeSubmissions' <= activeSubmissions
  BY <1>1, CountOutFacts DEF IInv, TypeOK
<1>4. EnteredBefore'  BY <1>1 DEF IInv, EnteredBefore
<1>5. CASE Current(h)
  <2>1. h \in LiveHandlers /\ h \notin Finished
    BY <1>5, <1>2 DEF LiveHandlers, Finished
  <2>2. LiveHandlers' = LiveHandlers \ {h} /\ Finished' = Finished \cup {h}
    BY <1>5, <1>1, <1>2 DEF LiveHandlers, Finished, Current, InFlight
  <2>3. /\ Cardinality(LiveHandlers') = Cardinality(LiveHandlers) - 1
        /\ Cardinality(Finished') = Cardinality(Finished) + 1
        /\ IsFiniteSet(LiveHandlers')
    BY <2>1, <2>2, HandlerSetsFinite, FS_RemoveElement, FS_AddElement
  <2>4. Cardinality(LiveHandlers) > 0
    BY <2>1, HandlerSetsFinite, FS_EmptySet
  <2>5. NeverLockedOut'
    BY <2>3, <2>4, <1>1, CountOutFacts, HandlerSetsFinite
    DEF IInv, TypeOK, NeverLockedOut
  <2>6. /\ submitting' = (activeSubmissions' > 0)
        /\ submissionAttempts' = submissionAttempts + 1
    BY <1>5 DEF Finish, StillBusy
  <2>7. submitting' => LiveHandlers' # {}
    <3>1. activeSubmissions' > 0 => Cardinality(LiveHandlers') > 0
      BY <2>3, <2>5, <1>3, HandlerSetsFinite DEF NeverLockedOut
    <3>2. LiveHandlers' = {} => Cardinality(LiveHandlers') = 0  BY FS_EmptySet
    <3>3. activeSubmissions' > 0 => LiveHandlers' # {}  BY <3>1, <3>2
    <3> QED  BY <2>6, <3>3, Zenon
  <2> QED  BY <1>2, <1>3, <1>4, <1>5, <2>2, <2>3, <2>5, <2>6, <2>7, HandlerSetsFinite
           DEF IInv, TypeOK, SurfaceIsCurrent, SubmittingIsLive
<1>6. CASE ~Current(h)
  <2>1. LiveHandlers' = LiveHandlers /\ Finished' = Finished
    BY <1>6, <1>1, <1>2 DEF LiveHandlers, Finished, Current, InFlight
  <2>2. UNCHANGED <<submitting, submissionAttempts>>  BY <1>6 DEF Finish
  <2>3. NeverLockedOut'
    BY <2>1, <1>3, HandlerSetsFinite DEF IInv, TypeOK, NeverLockedOut
  <2> QED  BY <1>2, <1>3, <1>4, <1>6, <2>1, <2>2, <2>3
           DEF IInv, TypeOK, SurfaceIsCurrent, SubmittingIsLive
<1> QED  BY <1>5, <1>6

-----------------------------------------------------------------------------
LEMMA InitIInv == Init => IInv
<1> SUFFICES ASSUME Init PROVE IInv  OBVIOUS
<1>1. LiveHandlers = {} /\ Finished = {}
  BY DEF Init, LiveHandlers, Finished, InFlight
<1>2. Cardinality(LiveHandlers) = 0 /\ Cardinality(Finished) = 0
  BY <1>1, FS_EmptySet
<1>3. TypeOK
  <2>1. /\ phase \in [Handlers -> Phases] /\ entered \in [Handlers -> Nat]
        /\ generation \in Nat /\ activeSubmissions \in Nat /\ submissionAttempts \in Nat
        /\ activeTransforms \in Nat /\ started \in Nat
    BY DEF Init, Phases
  <2>2. /\ submitting \in BOOLEAN /\ submitted \in BOOLEAN
        /\ schemaErrors \in BOOLEAN /\ userErrors \in BOOLEAN
    BY Zenon DEF Init
  <2>3. succeeded \subseteq Handlers /\ submitError \in Handlers \cup {NoError}
    BY DEF Init
  <2> QED  BY <2>1, <2>2, <2>3 DEF TypeOK
<1>4. EnteredBefore /\ SucceededAreDone
  BY DEF Init, EnteredBefore, SucceededAreDone
<1>5. NeverLockedOut /\ SubmittingIsLive
  BY <1>2 DEF Init, NeverLockedOut, SubmittingIsLive
<1>6. SurfaceIsCurrent
  <2>1. submissionAttempts = Cardinality(Finished)  BY <1>2 DEF Init
  <2>2. submitted <=> succeeded \cap Finished # {}  BY DEF Init
  <2> QED  BY <2>1, <2>2 DEF Init, SurfaceIsCurrent
<1> QED  BY <1>3, <1>4, <1>5, <1>6 DEF IInv

LEMMA StepIInv == IInv /\ [Next]_vars => IInv'
<1> SUFFICES ASSUME IInv, [Next]_vars PROVE IInv'  OBVIOUS
<1>t. TypeOK  BY DEF IInv
<1>1. ASSUME NEW h \in Handlers, Submit(h)  PROVE IInv'
  <2>1. /\ phase[h] = "idle" /\ activeSubmissions = 0
        /\ phase'[h] \in {"draining", "validating"}
        /\ phase' \in [Handlers -> Phases]
        /\ \A g \in Handlers : g # h => phase'[g] = phase[g] /\ entered'[g] = entered[g]
        /\ entered'[h] = generation /\ entered' \in [Handlers -> Nat]
    BY <1>1, <1>t DEF Submit, TypeOK, Phases
  <2>2. h \in LiveHandlers' /\ h \notin Finished' /\ generation' = generation
    BY <1>1, <2>1 DEF Submit, LiveHandlers, Finished, InFlight, Current
  <2>3. Finished' = Finished
    BY <2>1, <2>2 DEF Finished, Current
  <2>4. IsFiniteSet(LiveHandlers') /\ Cardinality(LiveHandlers') \in Nat
    <3>1. LiveHandlers' \in SUBSET Handlers  BY DEF LiveHandlers
    <3> QED  BY <3>1, FS_Subset, FS_CardinalityType, SubmissionAssumption
  <2>5. Cardinality(LiveHandlers') >= 1
    BY <2>2, <2>4, FS_EmptySet
  <2>6. /\ activeSubmissions' = 1 /\ submitting' = TRUE /\ submitError' = NoError
        /\ userErrors' = FALSE
        /\ UNCHANGED <<succeeded, generation, submitted, submissionAttempts,
                       schemaErrors, transforms>>
    BY <1>1, <2>1 DEF Submit
  <2>7. TypeOK'  BY <2>1, <2>6, <1>t DEF TypeOK, transforms
  <2>8. EnteredBefore'  BY <2>1, <2>2, <1>t DEF IInv, EnteredBefore, TypeOK
  <2>9. SurfaceIsCurrent'
    BY <2>2, <2>3, <2>6 DEF IInv, SurfaceIsCurrent
  <2>10. SucceededAreDone'
    BY <2>1, <2>6, <1>t DEF IInv, SucceededAreDone, TypeOK
  <2> QED  BY <2>2, <2>4, <2>5, <2>6, <2>7, <2>8, <2>9, <2>10
           DEF IInv, NeverLockedOut, SubmittingIsLive
<1>2. ASSUME NEW h \in Handlers, Drained(h) \/ Accepted(h)  PROVE IInv'
  <2>1. /\ phase' \in [Handlers -> Phases] /\ InFlight(h) /\ InFlight(h)'
        /\ phase[h] # "done" /\ phase'[h] # "done"
        /\ \A g \in Handlers : g # h => phase'[g] = phase[g]
        /\ schemaErrors' \in BOOLEAN
        /\ UNCHANGED <<entered, generation, activeSubmissions, succeeded, surface,
                       userErrors, transforms>>
    BY <1>2, <1>t DEF Drained, Accepted, Judged, TypeOK, Phases, InFlight, errors
  <2>2. LiveHandlers' = LiveHandlers /\ Finished' = Finished
    BY <2>1, SameSets DEF InFlight
  <2> QED  BY <2>1, <2>2, <1>t
           DEF IInv, TypeOK, EnteredBefore, SucceededAreDone, NeverLockedOut,
               SubmittingIsLive, SurfaceIsCurrent, surface, transforms
<1>3. ASSUME NEW h \in Handlers, Rejected(h), h \in WithOnError  PROVE IInv'
  <2>1. /\ phase' \in [Handlers -> Phases] /\ InFlight(h) /\ InFlight(h)'
        /\ phase[h] # "done" /\ phase'[h] # "done"
        /\ \A g \in Handlers : g # h => phase'[g] = phase[g]
        /\ schemaErrors' \in BOOLEAN
        /\ UNCHANGED <<entered, generation, activeSubmissions, succeeded, surface,
                       userErrors, transforms>>
    BY <1>3, <1>t DEF Rejected, Judged, TypeOK, Phases, InFlight, surface
  <2>2. LiveHandlers' = LiveHandlers /\ Finished' = Finished
    BY <2>1, SameSets DEF InFlight
  <2> QED  BY <2>1, <2>2, <1>t
           DEF IInv, TypeOK, EnteredBefore, SucceededAreDone, NeverLockedOut,
               SubmittingIsLive, SurfaceIsCurrent, surface, transforms
<1>4. ASSUME NEW h \in Handlers, InFlight(h), Finish(h), NEW success \in BOOLEAN,
             succeeded' = IF success THEN succeeded \cup {h} ELSE succeeded,
             submitted' = (submitted \/ (success /\ Current(h))),
             submitError' \in {submitError, h},
             submitError' # submitError => Current(h),
             schemaErrors' \in BOOLEAN, userErrors' \in BOOLEAN
      PROVE  IInv'
  <2>1. /\ phase' \in [Handlers -> Phases] /\ activeSubmissions' \in Nat
        /\ submitting' \in BOOLEAN /\ submissionAttempts' \in Nat
        /\ EnteredBefore' /\ NeverLockedOut' /\ SubmittingIsLive'
        /\ submissionAttempts' = Cardinality(Finished')
        /\ LiveHandlers' = {} => ~submitting'
        /\ Finished' = IF Current(h) THEN Finished \cup {h} ELSE Finished
    BY <1>4, FinishKeepsCounts
  <2>2. UNCHANGED <<entered, generation, transforms>>  BY <1>4 DEF Finish
  <2>3. h \notin Finished /\ h \notin succeeded
    BY <1>4 DEF Finished, InFlight, IInv, SucceededAreDone
  <2>4. TypeOK'
    BY <2>1, <2>2, <1>4, <1>t DEF TypeOK, transforms
  <2>5. submitError' # NoError => submitError' \in Finished'
    BY <2>1, <1>4 DEF IInv, SurfaceIsCurrent
  <2>6. submitted' <=> succeeded' \cap Finished' # {}
    <3>1. submitted <=> succeeded \cap Finished # {}
      BY DEF IInv, SurfaceIsCurrent
    <3>2. CASE success /\ Current(h)
      <4>1. h \in succeeded' \cap Finished'  BY <3>2, <2>1, <1>4
      <4> QED  BY <4>1, <3>2, <1>4
    <3>3. CASE ~(success /\ Current(h))
      <4>1. succeeded' \cap Finished' = succeeded \cap Finished
        BY <3>3, <2>1, <2>3, <1>4 DEF Finished
      <4> QED  BY <4>1, <3>1, <3>3, <1>4
    <3> QED  BY <3>2, <3>3
  <2>7. SucceededAreDone'
    BY <1>4, <1>t DEF IInv, SucceededAreDone, Finish, TypeOK
  <2>8. LiveHandlers' \cup Finished' = {} => ~submitting'
    BY <2>1
  <2> QED  BY <2>1, <2>4, <2>5, <2>6, <2>7, <2>8 DEF IInv, SurfaceIsCurrent
<1>5. ASSUME NEW h \in Handlers, Rejected(h), h \notin WithOnError  PROVE IInv'
  <2>1. /\ InFlight(h) /\ Finish(h) /\ schemaErrors' \in BOOLEAN
        /\ UNCHANGED <<succeeded, submitted, submitError, userErrors>>
    BY <1>5, <1>t DEF Rejected, Judged, InFlight, TypeOK
  <2> QED  BY <2>1, <1>4, <1>t DEF TypeOK
<1>6. ASSUME NEW h \in Handlers, ValidationThrows(h) \/ OnSubmitThrows(h)  PROVE IInv'
  <2>1. /\ InFlight(h) /\ Finish(h) /\ userErrors' \in BOOLEAN
        /\ submitError' = IF Current(h) THEN h ELSE submitError
        /\ UNCHANGED <<succeeded, submitted, schemaErrors>>
    BY <1>6, <1>t DEF ValidationThrows, OnSubmitThrows, Publish, InFlight, TypeOK
  <2> QED  BY <2>1, <1>4, <1>t DEF TypeOK
<1>7. ASSUME NEW h \in Handlers, OnErrorReturns(h) \/ OnErrorThrows(h)  PROVE IInv'
  <2>1. /\ InFlight(h) /\ Finish(h) /\ UNCHANGED <<succeeded, submitted, errors>>
        /\ submitError' \in {submitError, h}
        /\ submitError' # submitError => Current(h)
    BY <1>7 DEF OnErrorReturns, OnErrorThrows, Publish, InFlight
  <2> QED  BY <2>1, <1>4, <1>t DEF TypeOK, errors
<1>8. ASSUME NEW h \in Handlers, OnSubmitReturns(h)  PROVE IInv'
  <2>1. InFlight(h) /\ Finish(h) /\ UNCHANGED <<submitError, errors>>
    BY <1>8 DEF OnSubmitReturns, InFlight
  <2>2. CASE userErrors
    BY <2>1, <2>2, <1>4, <1>8, <1>t DEF OnSubmitReturns, TypeOK, errors
  <2>3. CASE ~userErrors
    BY <2>1, <2>3, <1>4, <1>8, <1>t DEF OnSubmitReturns, TypeOK, errors
  <2> QED  BY <2>2, <2>3
<1>9. ASSUME SetErrors \/ TransformStarts \/ TransformEnds  PROVE IInv'
  <2>1. /\ UNCHANGED <<phase, entered, succeeded, generation, activeSubmissions,
                       surface, schemaErrors>>
        /\ userErrors' \in BOOLEAN /\ activeTransforms' \in Nat /\ started' \in Nat
    BY <1>9, <1>t DEF SetErrors, TransformStarts, TransformEnds, errors, transforms, TypeOK
  <2>2. LiveHandlers' = LiveHandlers /\ Finished' = Finished
    BY <2>1, SameSets DEF InFlight
  <2> QED  BY <2>1, <2>2, <1>t
           DEF IInv, TypeOK, EnteredBefore, SucceededAreDone, NeverLockedOut,
               SubmittingIsLive, SurfaceIsCurrent, surface
<1>10. ASSUME Reset  PROVE IInv'
  <2>1. generation' = generation + 1 /\ entered' = entered  BY <1>10 DEF Reset
  <2>2. \A h \in Handlers : ~Current(h)'
    BY <2>1, <1>t DEF IInv, EnteredBefore, TypeOK, Current
  <2>3. LiveHandlers' = {} /\ Finished' = {}
    BY <2>2 DEF LiveHandlers, Finished
  <2>4. TypeOK'
    <3>1. /\ phase' \in [Handlers -> Phases] /\ entered' \in [Handlers -> Nat]
          /\ generation' \in Nat /\ activeSubmissions' \in Nat
          /\ submissionAttempts' \in Nat
          /\ activeTransforms' \in Nat /\ started' \in Nat
      BY <1>10, <1>t DEF Reset, TypeOK
    <3>2. /\ submitting' \in BOOLEAN /\ submitted' \in BOOLEAN
          /\ schemaErrors' \in BOOLEAN /\ userErrors' \in BOOLEAN
      BY <1>10, Zenon DEF Reset
    <3>3. succeeded' \subseteq Handlers /\ submitError' \in Handlers \cup {NoError}
      BY <1>10, <1>t DEF Reset, TypeOK
    <3> QED  BY <3>1, <3>2, <3>3 DEF TypeOK
  <2>5. EnteredBefore'  BY <2>1, <1>t DEF IInv, EnteredBefore, TypeOK
  <2>6. SucceededAreDone'  BY <1>10 DEF Reset, IInv, SucceededAreDone
  <2>7. NeverLockedOut' /\ SubmittingIsLive' /\ SurfaceIsCurrent'
    <3>1. Cardinality(LiveHandlers') = 0 /\ Cardinality(Finished') = 0
      BY <2>3, FS_EmptySet
    <3>2. NeverLockedOut' /\ SubmittingIsLive'
      BY <1>10, <3>1 DEF Reset, NeverLockedOut, SubmittingIsLive
    <3>3. /\ submissionAttempts' = Cardinality(Finished')
          /\ submitted' <=> succeeded' \cap Finished' # {}
      BY <1>10, <2>3, <3>1 DEF Reset
    <3> QED  BY <1>10, <3>2, <3>3 DEF Reset, SurfaceIsCurrent
  <2> QED  BY <2>4, <2>5, <2>6, <2>7 DEF IInv
<1>11. CASE UNCHANGED vars
  <2>1. LiveHandlers' = LiveHandlers /\ Finished' = Finished
    BY <1>11, SameSets DEF vars, InFlight
  <2> QED  BY <1>11, <2>1
           DEF vars, IInv, TypeOK, EnteredBefore, SucceededAreDone, NeverLockedOut,
               SubmittingIsLive, SurfaceIsCurrent, surface, errors, transforms
<1> QED
  BY <1>1, <1>2, <1>3, <1>5, <1>6, <1>7, <1>8, <1>9, <1>10, <1>11
  DEF Next, HandlerStep

LEMMA InvariantHolds == Spec => []IInv
  BY InitIInv, StepIInv, PTL DEF Spec

-----------------------------------------------------------------------------
(* The counters and flags of the submission surface have their types: the   *)
(* clamped count never goes negative.                                       *)
THEOREM TypeCorrect == Spec => []TypeOK
  BY InvariantHolds, PTL DEF IInv

(* However resets and submissions interleave, the re-entry guard counts no  *)
(* submission that is not in flight.                                        *)
THEOREM GuardNeverLocks == Spec => []NeverLockedOut
  BY InvariantHolds, PTL DEF IInv

(* meta.submitting on means that a submission since the last reset runs.    *)
THEOREM SubmittingIsHonest == Spec => []SubmittingIsLive
  BY InvariantHolds, PTL DEF IInv

(* The surface counts and shows the submissions since the last reset only.  *)
THEOREM SurfaceSpeaksOfNow == Spec => []SurfaceIsCurrent
  BY InvariantHolds, PTL DEF IInv

(* No step of a submission that a reset overtook changes the surface or the *)
(* error cells.                                                             *)
THEOREM ResetIsFinal == Spec => StaleLeavesErrors
<1>1. ASSUME TypeOK, NEW h \in Handlers, HandlerStep(h), ~Current(h)
      PROVE  UNCHANGED <<surface, errors>>
  BY <1>1
  DEF TypeOK, HandlerStep, Drained, Accepted, Rejected, ValidationThrows,
      OnErrorReturns, OnErrorThrows, OnSubmitReturns, OnSubmitThrows, Finish,
      Publish, Judged, surface, errors
<1>2. TypeOK /\ [Next]_vars
        => [\A h \in Handlers : HandlerStep(h) /\ ~Current(h)
                                  => UNCHANGED <<surface, errors>>]_vars
  BY <1>1
<1> QED  BY <1>2, TypeCorrect, PTL DEF Spec, StaleLeavesErrors
=============================================================================
