-------------------------- MODULE Activation_proofs -------------------------
(***************************************************************************)
(* The safety properties of Registry and Activation, for every set of      *)
(* consumers, stores and factory calls.                                    *)
(***************************************************************************)
EXTENDS Activation, FiniteSetTheorems, TLAPS

(* The registry: the count is the number of consumers on the page, the      *)
(* store at the key is built and alive, and an eviction is pending only     *)
(* while nobody claims it.                                                  *)
CountsMounted == consumers = Cardinality(Mounted)
FormsIsLive == forms # None => forms \in built \ disposed
PendingIsUnclaimed == pending # None => Mounted = {}

RegistryInv == /\ RegistryTypeOK /\ InUseIsLive
               /\ CountsMounted /\ FormsIsLive /\ PendingIsUnclaimed

(* The hydration: a call that was made has a store, and two in flight at    *)
(* one store have been noted.                                               *)
RunsHaveStores == \A r \in Runs : run[r].phase # "free" => run[r].store \in Stores
TwoOverlap ==
    \A s \in Stores : \A r, q \in Fetching(s) : r # q => s \in overlapped

ActivationTypeOK ==
    /\ activated \in [Stores -> BOOLEAN] /\ hydrating \in [Stores -> BOOLEAN]
    /\ resolved \in [Stores -> BOOLEAN]
    /\ promise \in [Stores -> Runs \cup {None}]
    /\ hydrateError \in [Stores -> Runs \cup {None}]
    /\ entries \in [Stores -> SUBSET Runs]
    /\ run \in [Runs -> [phase : Phases, store : Stores \cup {None}]]
    /\ overlapped \subseteq Stores /\ replaced \subseteq Stores

ActivationInv == ActivationTypeOK /\ RunsHaveStores /\ TwoOverlap /\ ReportIsHonest

IInv == RegistryInv /\ ActivationInv

LEMMA TypeOKSplits == TypeOK <=> RegistryTypeOK /\ ActivationTypeOK
  BY DEF TypeOK, ActivationTypeOK

LEMMA InitInv == Init => IInv
<1> SUFFICES ASSUME Init PROVE IInv  OBVIOUS
<1>1. Mounted = {}  BY DEF Init, RegistryInit, Mounted
<1>2. RegistryInv
  BY <1>1, FS_EmptySet, RegistryAssumption DEF Init, RegistryInit, RegistryInv, RegistryTypeOK,
     InUseIsLive, CountsMounted, FormsIsLive, PendingIsUnclaimed
<1>3. ActivationInv
  BY DEF Init, ActivationInv, ActivationTypeOK, RunsHaveStores, TwoOverlap, ReportIsHonest,
     Fetching, Phases
<1> QED  BY <1>2, <1>3 DEF IInv

-----------------------------------------------------------------------------
(* A set of consumers with one more, and with one less, is counted so.      *)
LEMMA MountedIsFinite == IsFiniteSet(Mounted)
<1>1. Mounted \subseteq Consumers  BY DEF Mounted
<1> QED  BY <1>1, RegistryAssumption, FS_Subset

LEMMA TrackStep ==
    ASSUME RegistryInv, NEW c \in Consumers, NEW s \in Stores, TrackConsumer(c, s),
           forms' = s, Mounted # {} => forms = s,
           built' \subseteq Stores, built \subseteq built', s \in built', s \notin disposed
    PROVE  RegistryInv'
<1> USE RegistryAssumption DEF RegistryInv
<1>1. c \notin Mounted /\ Mounted' = Mounted \cup {c}
  BY DEF TrackConsumer, Mounted, RegistryTypeOK
<1>2. Cardinality(Mounted') = Cardinality(Mounted) + 1
  BY <1>1, MountedIsFinite, FS_AddElement
<1>3. RegistryTypeOK'
  BY DEF RegistryTypeOK, TrackConsumer, CancelPendingEviction
<1>4. InUseIsLive'
  BY <1>1 DEF InUseIsLive, TrackConsumer, RegistryTypeOK, Mounted
<1>5. CountsMounted'  BY <1>2 DEF CountsMounted, TrackConsumer
<1>6. FormsIsLive' /\ PendingIsUnclaimed'
  BY DEF FormsIsLive, PendingIsUnclaimed, TrackConsumer, CancelPendingEviction
<1> QED  BY <1>3, <1>4, <1>5, <1>6

LEMMA UseFormStep ==
    ASSUME RegistryInv, NEW c \in Consumers, UseForm(c)
    PROVE  RegistryInv'
<1>1. CASE forms # None /\ TrackConsumer(c, forms) /\ UNCHANGED <<forms, built>>
  BY <1>1, TrackStep DEF RegistryInv, RegistryTypeOK, FormsIsLive
<1>2. CASE forms = None /\ \E s \in Stores \ built :
              forms' = s /\ built' = built \cup {s} /\ TrackConsumer(c, s)
  <2>1. PICK s \in Stores \ built :
              forms' = s /\ built' = built \cup {s} /\ TrackConsumer(c, s)
    BY <1>2
  <2>2. Mounted = {}  BY <1>2 DEF RegistryInv, InUseIsLive
  <2> QED  BY <2>1, <2>2, TrackStep DEF RegistryInv, RegistryTypeOK
<1> QED  BY <1>1, <1>2 DEF UseForm

LEMMA ReleaseStep ==
    ASSUME RegistryInv, NEW c \in Consumers, ReleaseConsumer(c)
    PROVE  RegistryInv'
<1> USE RegistryAssumption DEF RegistryInv
<1>1. c \in Mounted /\ Mounted' = Mounted \ {c}
  BY DEF ReleaseConsumer, Mounted, RegistryTypeOK
<1>2. Cardinality(Mounted') = Cardinality(Mounted) - 1 /\ Cardinality(Mounted) \in Nat
  BY <1>1, MountedIsFinite, FS_RemoveElement, FS_CardinalityType
<1>3. IsFiniteSet(Mounted')
  BY <1>1, MountedIsFinite, FS_Subset
<1>4. Cardinality(Mounted') \in Nat /\ (Cardinality(Mounted') = 0 <=> Mounted' = {})
  BY <1>3, FS_CardinalityType, FS_EmptySet
<1>5. pending = None  BY <1>1 DEF PendingIsUnclaimed
<1>6. InUseIsLive'
  BY <1>1 DEF InUseIsLive, ReleaseConsumer
<1>7. CASE Remaining > 0 /\ consumers' = Remaining /\ UNCHANGED <<pending, queued>>
  <2>1. RegistryTypeOK'  BY <1>7, <1>2 DEF RegistryTypeOK, ReleaseConsumer, CountsMounted, Remaining
  <2>2. CountsMounted'  BY <1>7, <1>2 DEF CountsMounted, Remaining
  <2>3. FormsIsLive' /\ PendingIsUnclaimed'
    BY <1>5, <1>7 DEF FormsIsLive, PendingIsUnclaimed, ReleaseConsumer
  <2> QED  BY <1>6, <2>1, <2>2, <2>3
<1>8. CASE Remaining <= 0 /\ consumers' = 0 /\ pending' = c /\ queued' = queued \cup {c}
  <2>1. Mounted' = {}  BY <1>2, <1>4, <1>8 DEF CountsMounted, Remaining
  <2>2. queued \ cancelled = {}  BY <1>5 DEF RegistryTypeOK
  <2>3. RegistryTypeOK'  BY <1>8, <2>2 DEF RegistryTypeOK, ReleaseConsumer
  <2>4. CountsMounted'  BY <1>8, <1>4, <2>1 DEF CountsMounted
  <2>5. FormsIsLive' /\ PendingIsUnclaimed'
    BY <2>1 DEF FormsIsLive, PendingIsUnclaimed, ReleaseConsumer
  <2> QED  BY <1>6, <2>3, <2>4, <2>5
<1> QED  BY <1>7, <1>8 DEF ReleaseConsumer

LEMMA EvictStep ==
    ASSUME RegistryInv, NEW t \in Consumers, Evict(t)
    PROVE  RegistryInv'
<1> USE RegistryAssumption DEF RegistryInv
<1>1. Mounted' = Mounted  BY DEF Evict, Mounted
<1>2. CASE UNCHANGED <<forms, pending, disposed>>
  BY <1>1, <1>2 DEF Evict, RegistryTypeOK, InUseIsLive, CountsMounted, FormsIsLive,
     PendingIsUnclaimed
<1>3. CASE /\ t \notin cancelled /\ pending = t /\ pending' = None /\ forms' = None
           /\ disposed' = disposed \cup ({forms} \ {None})
  <2>1. Mounted = {}  BY <1>3 DEF PendingIsUnclaimed
  <2>2. RegistryTypeOK'  BY <1>3 DEF RegistryTypeOK, Evict, FormsIsLive
  <2> QED
    BY <1>1, <1>3, <2>1, <2>2 DEF InUseIsLive, CountsMounted, FormsIsLive, PendingIsUnclaimed, Evict
<1> QED  BY <1>2, <1>3 DEF Evict

LEMMA RegistryStep ==
    ASSUME RegistryInv, RegistryNext \/ UNCHANGED registry
    PROVE  RegistryInv'
<1>1. CASE UNCHANGED registry
  BY <1>1 DEF registry, RegistryInv, RegistryTypeOK, InUseIsLive, CountsMounted, FormsIsLive,
     PendingIsUnclaimed, Mounted
<1>2. CASE RegistryNext
  <2>1. PICK c \in Consumers :
          \/ UseForm(c) \/ InjectForm(c) \/ ReleaseConsumer(c) \/ Evict(c)
          \/ \E p \in Consumers : ShareForm(c, p)
    BY <1>2 DEF RegistryNext
  <2>2. CASE InjectForm(c)  BY <2>2, UseFormStep DEF InjectForm, UseForm
  <2>3. CASE \E p \in Consumers : ShareForm(c, p)
    <3>1. PICK p \in Consumers : ShareForm(c, p)  BY <2>3
    <3>2. holds[p] = forms /\ forms # None
      BY <3>1 DEF ShareForm, RegistryInv, InUseIsLive, Mounted
    <3> QED  BY <3>1, <3>2, UseFormStep DEF ShareForm, UseForm
  <2> QED  BY <2>1, <2>2, <2>3, UseFormStep, ReleaseStep, EvictStep
<1> QED  BY <1>1, <1>2

-----------------------------------------------------------------------------
(* The ways a call of a factory fails: in the turn it was made, and later.  *)
LEMMA FireStep ==
    ASSUME ActivationInv, NEW s \in Stores, NEW r \in Runs, FireFactory(s, r)
    PROVE  ActivationInv'
<1> USE ActivationAssumption, RegistryAssumption DEF ActivationInv
<1>1. \A x \in Stores : r \notin Fetching(x)  BY DEF FireFactory, Fetching
<1>2. CASE /\ run' = [run EXCEPT ![r] = [phase |-> "fetching", store |-> s]]
           /\ hydrating' = [hydrating EXCEPT ![s] = TRUE]
           /\ UNCHANGED <<resolved, hydrateError, entries, replaced>>
  <2>1. \A x \in Stores : Fetching(x)' = IF x = s THEN Fetching(x) \cup {r} ELSE Fetching(x)
    BY <1>1, <1>2 DEF Fetching, ActivationTypeOK
  <2>2. ActivationTypeOK' /\ RunsHaveStores'
    BY <1>2 DEF FireFactory, ActivationTypeOK, RunsHaveStores, Phases
  <2>3. TwoOverlap'  BY <2>1 DEF FireFactory, TwoOverlap
  <2>4. ReportIsHonest'
    <3> SUFFICES ASSUME NEW x \in Stores
                 PROVE  /\ hydrating'[x] => Fetching(x)' # {}
                        /\ Fetching(x)' # {} /\ x \notin overlapped' => hydrating'[x]
                        /\ entries'[x] = IF x \in replaced' THEN {} ELSE {hydrateError'[x]} \ {None}
      BY DEF ReportIsHonest, Fetching
    <3>1. x \notin overlapped' => x \notin overlapped  BY DEF FireFactory
    <3>2. CASE x = s
      <4>1. hydrating'[x] = TRUE  BY <1>2, <3>2 DEF ActivationTypeOK
      <4>2. Fetching(x)' # {}  BY <2>1, <3>2
      <4> QED  BY <1>2, <4>1, <4>2 DEF ReportIsHonest
    <3>3. CASE x # s
      <4>1. hydrating'[x] = hydrating[x]  BY <1>2, <3>3 DEF ActivationTypeOK
      <4>2. Fetching(x)' = Fetching(x)  BY <2>1, <3>3
      <4> QED  BY <1>2, <3>1, <4>1, <4>2 DEF ReportIsHonest
    <3> QED  BY <3>2, <3>3
  <2> QED  BY <2>2, <2>3, <2>4
<1>3. CASE /\ run' = [run EXCEPT ![r] = [phase |-> "settled", store |-> s]]
           /\ Failed(s, r)
  <2>1. \A x \in Stores : Fetching(x)' = Fetching(x)
    BY <1>1, <1>3 DEF Fetching, ActivationTypeOK
  <2>2. ActivationTypeOK' /\ RunsHaveStores'
    BY <1>3 DEF FireFactory, Failed, Settled, Cleared, ActivationTypeOK, RunsHaveStores, Phases
  <2>3. TwoOverlap'  BY <2>1 DEF FireFactory, TwoOverlap
  <2>4. ReportIsHonest'
    <3> SUFFICES ASSUME NEW x \in Stores
                 PROVE  /\ hydrating'[x] => Fetching(x)' # {}
                        /\ Fetching(x)' # {} /\ x \notin overlapped' => hydrating'[x]
                        /\ entries'[x] = IF x \in replaced' THEN {} ELSE {hydrateError'[x]} \ {None}
      BY DEF ReportIsHonest, Fetching
    <3>1. x \notin overlapped' => x \notin overlapped  BY DEF FireFactory
    <3>2. CASE x = s
      <4>1. ~hydrating'[x]  BY <1>3, <3>2 DEF Failed, Settled, ActivationTypeOK
      <4>2. entries'[x] = {r} /\ hydrateError'[x] = r /\ x \notin replaced'
        BY <1>3, <3>2 DEF Failed, Cleared, ActivationTypeOK
      <4>3. Fetching(x)' # {} => x \in overlapped'  BY <2>1, <3>2 DEF FireFactory
      <4> QED  BY <4>1, <4>2, <4>3
    <3>3. CASE x # s
      <4>1. hydrating'[x] = hydrating[x]
        BY <1>3, <3>3 DEF Failed, Settled, ActivationTypeOK
      <4>2. entries'[x] = entries[x] /\ hydrateError'[x] = hydrateError[x]
        BY <1>3, <3>3 DEF Failed, ActivationTypeOK
      <4>3. x \in replaced' <=> x \in replaced  BY <1>3, <3>3 DEF Failed
      <4> QED  BY <2>1, <3>1, <4>1, <4>2, <4>3 DEF ReportIsHonest
    <3> QED  BY <3>2, <3>3
  <2> QED  BY <2>2, <2>3, <2>4
<1> QED  BY <1>2, <1>3 DEF FireFactory

LEMMA AnswerStep ==
    ASSUME ActivationInv, NEW r \in Runs, Answers(r)
    PROVE  ActivationInv'
<1> USE ActivationAssumption, RegistryAssumption DEF ActivationInv
<1> DEFINE s == run[r].store
<1>1. s \in Stores /\ r \in Fetching(s)
  BY DEF Answers, Resolves, Rejects, RunsHaveStores, Fetching, ActivationTypeOK
<1>2. run' = [run EXCEPT ![r].phase = "settled"] /\ overlapped' = StillOverlapped(r)
  BY DEF Answers, Resolves, Rejects
<1>3. \A x \in Stores : Fetching(x)' = Fetching(x) \ {r}
  BY <1>2 DEF Fetching, ActivationTypeOK
<1>4. \A x \in Stores : x # s => r \notin Fetching(x)  BY DEF Fetching
<1>5. ActivationTypeOK' /\ RunsHaveStores'
  <2>0. \A q \in Runs : run'[q] = IF q = r THEN [phase |-> "settled", store |-> s] ELSE run[q]
    BY <1>2 DEF ActivationTypeOK
  <2>1. run' \in [Runs -> [phase : Phases, store : Stores \cup {None}]] /\ RunsHaveStores'
    BY <1>1, <1>2, <2>0 DEF ActivationTypeOK, RunsHaveStores, Phases
  <2>2. overlapped' \subseteq Stores
    BY <1>2 DEF StillOverlapped, ActivationTypeOK
  <2>3. /\ activated' = activated /\ promise' = promise
        /\ hydrating' = [hydrating EXCEPT ![s] = FALSE] /\ replaced' = replaced \ {s}
    BY DEF Answers, Resolves, Rejects, Failed, Settled
  <2>4. CASE Resolves(r)
    BY <1>1, <2>1, <2>2, <2>3, <2>4 DEF Resolves, Cleared, ActivationTypeOK
  <2>5. CASE Rejects(r)
    <3>1. /\ entries' = [entries EXCEPT ![s] = {r}] /\ hydrateError' = [hydrateError EXCEPT ![s] = r]
          /\ resolved' = resolved
      BY <2>5 DEF Rejects, Failed, Cleared
    <3> HIDE DEF s
    <3> QED  BY <1>1, <2>1, <2>2, <2>3, <3>1 DEF ActivationTypeOK
  <2> QED  BY <2>1, <2>4, <2>5 DEF Answers
<1>9. \A x \in overlapped : Fetching(x)' # {} => x \in overlapped'
  <2>1. \A x \in overlapped : x \in Stores  BY DEF ActivationTypeOK
  <2> QED  BY <1>2, <1>3, <2>1 DEF StillOverlapped
<1>6. TwoOverlap'  BY <1>3, <1>9 DEF TwoOverlap
<1>7. /\ hydrating' = [hydrating EXCEPT ![s] = FALSE]
      /\ entries'[s] = {hydrateError'[s]} \ {None} /\ s \notin replaced'
      /\ \A x \in Stores : x # s => /\ entries'[x] = entries[x]
                                    /\ hydrateError'[x] = hydrateError[x]
                                    /\ x \in replaced' <=> x \in replaced
  BY <1>1 DEF Answers, Resolves, Rejects, Failed, Settled, Cleared, ActivationTypeOK
<1>8. ReportIsHonest'
  <2> SUFFICES ASSUME NEW x \in Stores
               PROVE  /\ hydrating'[x] => Fetching(x)' # {}
                      /\ Fetching(x)' # {} /\ x \notin overlapped' => hydrating'[x]
                      /\ entries'[x] = IF x \in replaced' THEN {} ELSE {hydrateError'[x]} \ {None}
    BY DEF ReportIsHonest, Fetching
  <2>1. CASE x = s
    <3>1. ~hydrating'[x]  BY <1>1, <1>7, <2>1 DEF ActivationTypeOK
    <3>2. Fetching(x)' # {} => x \in overlapped
      BY <1>1, <1>3, <2>1 DEF TwoOverlap
    <3> QED  BY <1>7, <1>9, <2>1, <3>1, <3>2
  <2>2. CASE x # s
    <3>1. Fetching(x)' = Fetching(x)  BY <1>3, <1>4, <2>2
    <3>2. hydrating'[x] = hydrating[x]  BY <1>7, <2>2 DEF ActivationTypeOK
    <3> QED  BY <1>7, <1>9, <2>2, <3>1, <3>2 DEF ReportIsHonest
  <2> QED  BY <2>1, <2>2
<1> QED  BY <1>5, <1>6, <1>8

LEMMA PromiseStep ==
    ASSUME ActivationInv, NEW r \in Runs, PromiseClears(r)
    PROVE  ActivationInv'
<1> USE ActivationAssumption, RegistryAssumption DEF ActivationInv
<1>1. \A x \in Stores : Fetching(x)' = Fetching(x)
  BY DEF PromiseClears, Fetching, ActivationTypeOK
<1>2. ActivationTypeOK' /\ RunsHaveStores'
  BY DEF PromiseClears, ActivationTypeOK, RunsHaveStores, Phases
<1>3. TwoOverlap' /\ ReportIsHonest'
  BY <1>1 DEF PromiseClears, TwoOverlap, ReportIsHonest
<1> QED  BY <1>2, <1>3

LEMMA PassStep ==
    ASSUME ActivationInv, NEW s \in Stores, SchemaPass(s)
    PROVE  ActivationInv'
<1> USE DEF ActivationInv
<1>1. \A x \in Stores : Fetching(x)' = Fetching(x)  BY DEF SchemaPass, Fetching
<1>2. ActivationTypeOK'
  <2>1. entries' \in [Stores -> SUBSET Runs]  BY DEF SchemaPass, ActivationTypeOK
  <2> QED  BY <2>1 DEF SchemaPass, ActivationTypeOK
<1>3. RunsHaveStores' /\ TwoOverlap'
  BY <1>1 DEF SchemaPass, RunsHaveStores, TwoOverlap
<1>4. ReportIsHonest'
  <2>1. \A x \in Stores : entries'[x] = IF x = s THEN {} ELSE entries[x]
    BY DEF SchemaPass, ActivationTypeOK
  <2> QED  BY <1>1, <2>1 DEF SchemaPass, ReportIsHonest
<1> QED  BY <1>2, <1>3, <1>4

LEMMA NextInv == IInv /\ [Next]_vars => IInv'
<1> SUFFICES ASSUME IInv, [Next]_vars PROVE IInv'  OBVIOUS
<1>1. RegistryNext \/ UNCHANGED registry
  BY DEF Next, vars, Activate, Rehydrate, FireFactory, Answers, Resolves, Rejects,
     PromiseClears, SchemaPass
<1>2. RegistryInv'  BY <1>1, RegistryStep DEF IInv
<1>3. ASSUME UNCHANGED activation PROVE ActivationInv'
  BY <1>3 DEF IInv, ActivationInv, activation, ActivationTypeOK, RunsHaveStores, TwoOverlap,
     ReportIsHonest, Fetching
<1>4. ASSUME \E s \in Stores : SchemaPass(s) \/ \E r \in Runs : Activate(s, r) \/ Rehydrate(s, r)
      PROVE  ActivationInv'
  <2>1. PICK s \in Stores : SchemaPass(s) \/ \E r \in Runs : FireFactory(s, r)
    BY <1>4 DEF Activate, Rehydrate
  <2> QED  BY <2>1, PassStep, FireStep DEF IInv
<1>5. ASSUME \E r \in Runs : Answers(r) \/ PromiseClears(r) PROVE ActivationInv'
  BY <1>5, AnswerStep, PromiseStep DEF IInv
<1>6. ActivationInv'  BY <1>3, <1>4, <1>5 DEF Next, vars
<1> QED  BY <1>2, <1>6 DEF IInv

LEMMA Invariance == Spec => []IInv
<1>1. Spec => Init /\ [][Next]_vars  BY DEF Spec
<1> QED  BY <1>1, InitInv, NextInv, PTL

(* Every variable of the registry and of the hydration keeps its type, and  *)
(* an eviction that is queued and not cancelled is the pending one.         *)
THEOREM TypeCorrect == Spec => []TypeOK
<1>1. IInv => TypeOK  BY TypeOKSplits DEF IInv, RegistryInv, ActivationInv
<1> QED  BY <1>1, Invariance, PTL

(* However many consumers mount, leave and come back within a tick, each    *)
(* one on the page has the store registered at the key, and that store has  *)
(* not been disposed.                                                       *)
THEOREM LiveWhileInUse == Spec => []InUseIsLive
<1>1. IInv => InUseIsLive  BY DEF IInv, RegistryInv
<1> QED  BY <1>1, Invariance, PTL

(* However the calls of a factory overlap, throw, answer and fail: the flag *)
(* is off when none is in flight and on during one that overlaps no other,  *)
(* and the root errors hold exactly the failure in hydrateError until a     *)
(* whole-form pass or a reset replaces them.                                *)
THEOREM HonestReport == Spec => []ReportIsHonest
<1>1. IInv => ReportIsHonest  BY DEF IInv, ActivationInv
<1> QED  BY <1>1, Invariance, PTL
=============================================================================
