------------------------- MODULE Transforms_proofs -------------------------
(***************************************************************************)
(* The safety properties of Transforms for every number of leaves and      *)
(* waiters, and that Transforms implements LatestWins.                     *)
(*                                                                         *)
(* The counters are exact because a release takes out of them just what it *)
(* takes out of transformRuns.  That a superseded run never lands rests on *)
(* tokens being used once: a pending run whose token is the live one is    *)
(* the live run, so its result is the leaf's intent.  That the error shown  *)
(* is the last input's rests on NewestRuns: a run that has not answered is  *)
(* live if it is its leaf's newest and was not aborted, so whatever fails   *)
(* without being current is either older or aborted.                        *)
(***************************************************************************)
EXTENDS Transforms, FiniteSetTheorems, TLAPS

LiveRunsPending ==
    \A f \in Leaves : transformRuns[f] # None
        => transformRuns[f] \in pending /\ transformRuns[f].leaf = f

TokensUsedOnce ==
    /\ \A run \in pending : run.token <= transformTokenSeq
    /\ \A run, other \in pending : run.token = other.token => run = other

NewestRuns ==
    /\ \A run \in pending : run.token > 0 /\ run.token \notin failed
    /\ \A run \in pending, f \in Leaves : newest[f] = run.token => run.leaf = f
    /\ \A f \in Leaves : transformRuns[f] # None
          => newest[f] = transformRuns[f].token /\ transformRuns[f].token \notin aborted
    /\ \A run \in pending :
          newest[run.leaf] = run.token /\ run.token \notin aborted
              => transformRuns[run.leaf] = run

PastTokens ==
    /\ \A t \in failed \cup aborted : t > 0 /\ t <= transformTokenSeq
    /\ \A f \in Leaves : newest[f] <= transformTokenSeq

IInv ==
    /\ TypeOK
    /\ NewestRuns
    /\ PastTokens
    /\ CountsExact
    /\ LiveRunsPending
    /\ TokensUsedOnce
    /\ ErrorsAreLatest

LEMMA LiveFinite ==
    ASSUME NEW S \in SUBSET Leaves
    PROVE  IsFiniteSet(Live(S)) /\ Cardinality(Live(S)) \in Nat
<1>1. Live(S) \in SUBSET Leaves  BY DEF Live
<1> QED  BY <1>1, FS_Subset, FS_CardinalityType, TransformsAssumption

LEMMA UnderLeaves == \A p \in Leaves \cup {Group} : Under(p) \in SUBSET Leaves
  BY TransformsAssumption DEF Under

(* What a release of the runs at S does to the runs and to the counters.    *)
LEMMA ReleaseKeepsCounts ==
    ASSUME TypeOK, CountsExact, NEW S \in SUBSET Leaves, Release(S)
    PROVE  /\ transformRuns' \in [Leaves -> Runs \cup {None}]
           /\ \A f \in Leaves : transformRuns'[f] = IF f \in S THEN None ELSE transformRuns[f]
           /\ Live(Leaves)' = Live(Leaves) \ S
           /\ activeTransforms' \in Nat /\ fieldTransformCounts' \in [Leaves -> 0..1]
           /\ CountsExact'
<1>1. /\ transformRuns' \in [Leaves -> Runs \cup {None}]
      /\ \A f \in Leaves : transformRuns'[f] = IF f \in S THEN None ELSE transformRuns[f]
  BY DEF Release, TypeOK
<1>2. Live(Leaves)' = Live(Leaves) \ S
  BY <1>1 DEF Live
<1>3. Cardinality(Live(Leaves)) = Cardinality(Live(Leaves)') + Cardinality(Live(S))
  <2>1. /\ Live(Leaves) = Live(Leaves)' \cup Live(S)
        /\ Live(Leaves)' \cap Live(S) = {}
    BY <1>2 DEF Live
  <2>2. IsFiniteSet(Live(S)) /\ IsFiniteSet(Live(Leaves)')
    <3>1. Live(Leaves)' \in SUBSET Leaves  BY <1>2 DEF Live
    <3> QED  BY <3>1, LiveFinite, FS_Subset, TransformsAssumption
  <2>3. Cardinality(Live(Leaves)' \cap Live(S)) = 0
    BY <2>1, FS_EmptySet
  <2>4. /\ Cardinality(Live(Leaves)') \in Nat /\ Cardinality(Live(S)) \in Nat
    BY <2>2, FS_CardinalityType
  <2>5. Cardinality(Live(Leaves)' \cup Live(S)) =
          Cardinality(Live(Leaves)') + Cardinality(Live(S)) - Cardinality(Live(Leaves)' \cap Live(S))
    BY <2>2, FS_Union
  <2>6. Cardinality(Live(Leaves)) = Cardinality(Live(Leaves)' \cup Live(S))
    BY <2>1
  <2> QED  BY <2>3, <2>4, <2>5, <2>6
<1>4. /\ Cardinality(Live(Leaves)') \in Nat /\ Cardinality(Live(S)) \in Nat
  <2>1. Live(Leaves)' \in SUBSET Leaves  BY <1>2 DEF Live
  <2> QED  BY <2>1, LiveFinite, FS_Subset, FS_CardinalityType, TransformsAssumption
<1>5. activeTransforms' = Cardinality(Live(Leaves)') /\ activeTransforms' \in Nat
  BY <1>3, <1>4 DEF Release, CountsExact, Less
<1>6. /\ fieldTransformCounts' \in [Leaves -> 0..1]
      /\ \A f \in Leaves :
           fieldTransformCounts'[f] = IF f \in Live(Leaves)' THEN 1 ELSE 0
  <2>1. fieldTransformCounts' =
          [f \in Leaves |-> Less(fieldTransformCounts[f], IF f \in Live(S) THEN 1 ELSE 0)]
    BY DEF Release
  <2>2. \A f \in Leaves : fieldTransformCounts'[f] = IF f \in Live(Leaves)' THEN 1 ELSE 0
    BY <2>1, <1>2 DEF CountsExact, Less, Live
  <2> QED  BY <2>1, <2>2
<1> QED  BY <1>1, <1>2, <1>5, <1>6 DEF CountsExact

LEMMA FlushKeepsType ==
    ASSUME TypeOK, Flush
    PROVE  /\ stands' \in [Waiters -> {"idle", "waiting", "resumed", "done"}]
           /\ asked' = asked
  BY DEF TypeOK, Flush

(* The pending run with the live token is the live run.                     *)
LEMMA CurrentIsLive ==
    ASSUME IInv, NEW run \in pending, IsCurrent(run)
    PROVE  transformRuns[run.leaf] = run /\ run.leaf \in Live(Leaves)
<1>1. run \in Runs /\ run.leaf \in Leaves  BY DEF IInv, TypeOK, Runs
<1> QED  BY <1>1 DEF IInv, LiveRunsPending, TokensUsedOnce, IsCurrent, Live

-----------------------------------------------------------------------------
LEMMA InitIInv == Init => IInv
<1> SUFFICES ASSUME Init PROVE IInv  OBVIOUS
<1>1. Live(Leaves) = {}  BY DEF Init, Live
<1>2. Cardinality(Live(Leaves)) = 0  BY <1>1, FS_EmptySet
<1>3. TypeOK  BY TransformsAssumption DEF Init, TypeOK
<1>4. CountsExact  BY <1>1, <1>2 DEF Init, CountsExact
<1>5. NewestRuns /\ PastTokens /\ ErrorsAreLatest
  BY DEF Init, NewestRuns, PastTokens, ErrorsAreLatest
<1> QED  BY <1>1, <1>3, <1>4, <1>5 DEF Init, IInv, LiveRunsPending, TokensUsedOnce

(* What a step that releases runs and starts none does to the table.        *)
LEMMA ReleasingStep ==
    ASSUME IInv, NEW S \in SUBSET Leaves, Release(S), Flush,
           value' \in [Leaves -> Values], acts' \in Nat,
           transformTokenSeq' = transformTokenSeq,
           pending' \subseteq pending,
           \A f \in Leaves \ S : transformRuns[f] # None => transformRuns[f] \in pending',
           transformErrors' \in [Leaves -> Nat], newest' \in [Leaves -> Nat],
           aborted' \subseteq Nat, failed' \subseteq Nat
    PROVE  /\ TypeOK' /\ CountsExact' /\ LiveRunsPending' /\ TokensUsedOnce'
           /\ \A f \in Leaves : transformRuns'[f] = IF f \in S THEN None ELSE transformRuns[f]
<1>1. /\ transformRuns' \in [Leaves -> Runs \cup {None}]
      /\ \A f \in Leaves : transformRuns'[f] = IF f \in S THEN None ELSE transformRuns[f]
      /\ activeTransforms' \in Nat /\ fieldTransformCounts' \in [Leaves -> 0..1]
      /\ CountsExact'
  BY ReleaseKeepsCounts DEF IInv
<1>2. TypeOK'  BY <1>1, FlushKeepsType DEF IInv, TypeOK
<1>3. LiveRunsPending'  BY <1>1 DEF IInv, LiveRunsPending
<1>4. TokensUsedOnce'  BY DEF IInv, TokensUsedOnce
<1> QED  BY <1>1, <1>2, <1>3, <1>4

(* The live runs at S are aborted and their errors go: what a cancel and    *)
(* the supersede of a new input come down to for the runs that stay.        *)
LEMMA AbortedTokens ==
    ASSUME IInv, NEW S \in SUBSET Leaves, Abort(S)
    PROVE  /\ aborted' \subseteq Nat
           /\ \A t \in aborted' : t > 0 /\ t <= transformTokenSeq
           /\ \A f \in Live(S) : newest[f] \in aborted'
           /\ \A f \in Leaves \ Live(S) : newest[f] \in aborted' <=> newest[f] \in aborted
           /\ aborted \subseteq aborted'
<1> DEFINE dropped == {transformRuns[f].token : f \in Live(S)}
<1>1. aborted' = aborted \cup dropped  BY DEF Abort
<1>2. ASSUME NEW f \in Live(S)
      PROVE  /\ transformRuns[f] \in pending /\ transformRuns[f] \in Runs
             /\ transformRuns[f].leaf = f /\ transformRuns[f].token = newest[f]
             /\ transformRuns[f].token \in Nat
             /\ transformRuns[f].token > 0 /\ transformRuns[f].token <= transformTokenSeq
  BY DEF IInv, TypeOK, Runs, LiveRunsPending, NewestRuns, TokensUsedOnce, Live
<1>3. \A f \in Leaves \ Live(S) : newest[f] \notin dropped
  BY <1>2 DEF IInv, NewestRuns, Live
<1>4. dropped \subseteq Nat /\ \A t \in dropped : t > 0 /\ t <= transformTokenSeq
  BY <1>2
<1>5. \A f \in Live(S) : newest[f] \in dropped  BY <1>2
<1> QED  BY <1>1, <1>3, <1>4, <1>5 DEF IInv, TypeOK, PastTokens

LEMMA CancellingStep ==
    ASSUME IInv, NEW S \in SUBSET Leaves, CancelUnder(S),
           value' \in [Leaves -> Values], acts' \in Nat,
           UNCHANGED <<transformTokenSeq, pending, history>>
    PROVE  IInv'
<1>t. TypeOK  BY DEF IInv
<1>1. /\ Release(S) /\ Flush /\ Abort(S)
      /\ transformErrors' = [f \in Leaves |-> IF f \in Live(S) THEN 0 ELSE transformErrors[f]]
      /\ UNCHANGED <<newest, failed>>
  BY DEF CancelUnder, history
<1>2. /\ aborted' \subseteq Nat
      /\ \A t \in aborted' : t > 0 /\ t <= transformTokenSeq
      /\ \A f \in Live(S) : newest[f] \in aborted'
      /\ \A f \in Leaves \ Live(S) : newest[f] \in aborted' <=> newest[f] \in aborted
      /\ aborted \subseteq aborted'
  BY <1>1, AbortedTokens
<1>3. /\ TypeOK' /\ CountsExact' /\ LiveRunsPending' /\ TokensUsedOnce'
      /\ \A f \in Leaves : transformRuns'[f] = IF f \in S THEN None ELSE transformRuns[f]
  <2>1. transformErrors' \in [Leaves -> Nat]  BY <1>1, <1>t DEF TypeOK
  <2> QED  BY <1>1, <1>2, <1>t, <2>1, ReleasingStep DEF TypeOK, IInv, LiveRunsPending
<1>4. NewestRuns'
  <2>1. \A run \in pending : run.leaf \in Leaves  BY <1>t DEF TypeOK, Runs
  <2>2. ASSUME NEW f \in Leaves, transformRuns'[f] # None
        PROVE  newest[f] = transformRuns[f].token /\ transformRuns[f].token \notin aborted'
    <3>1. f \in Leaves \ Live(S) /\ transformRuns[f] # None
      BY <1>3, <2>2 DEF Live
    <3> QED  BY <3>1, <1>2 DEF IInv, NewestRuns
  <2>3. ASSUME NEW run \in pending, newest[run.leaf] = run.token, run.token \notin aborted'
        PROVE  transformRuns'[run.leaf] = run
    <3>1. transformRuns[run.leaf] = run /\ run.leaf \notin Live(S)
      BY <1>2, <2>1, <2>3 DEF IInv, NewestRuns
    <3>2. run # None  BY <1>t, NoneIsNoRun DEF TypeOK
    <3> QED  BY <3>1, <3>2, <1>3, <2>1 DEF Live
  <2> QED  BY <1>1, <1>3, <2>1, <2>2, <2>3 DEF IInv, NewestRuns
<1>5. PastTokens'  BY <1>1, <1>2 DEF IInv, PastTokens
<1>6. ErrorsAreLatest'  BY <1>1, <1>2 DEF IInv, ErrorsAreLatest
<1> QED  BY <1>3, <1>4, <1>5, <1>6 DEF IInv

(* A run that answers counts itself off if it is live; it failed or not.    *)
LEMMA AnswerKeepsIInv ==
    ASSUME IInv, NEW run \in pending, Resolves(run) \/ Rejects(run)
    PROVE  IInv'
<1>t. TypeOK  BY DEF IInv
<1> DEFINE S == {f \in {run.leaf} : IsCurrent(run)}
<1>1. /\ run \in Runs /\ run.leaf \in Leaves /\ run.result \in Values
      /\ run.token \in Nat /\ run.token > 0 /\ run.token <= transformTokenSeq
  BY <1>t DEF TypeOK, Runs, IInv, NewestRuns, TokensUsedOnce
<1>2. /\ Release(S) /\ Flush /\ pending' = pending \ {run} /\ S \in SUBSET Leaves
      /\ transformTokenSeq' = transformTokenSeq /\ acts' = acts
      /\ value' \in [Leaves -> Values] /\ aborted' = aborted /\ newest' = newest
  BY <1>t, <1>1 DEF Resolves, Rejects, End, TypeOK
<1>3. \/ /\ IsCurrent(run)
         /\ transformErrors' = [transformErrors EXCEPT ![run.leaf] = run.token]
         /\ failed' = failed \cup {run.token}
      \/ /\ ~IsCurrent(run) /\ transformErrors' = transformErrors
         /\ failed' = failed \cup {run.token}
      \/ transformErrors' = transformErrors /\ failed' = failed
  BY DEF Resolves, Rejects, Failed
<1>4. transformErrors' \in [Leaves -> Nat] /\ failed' \subseteq Nat
  BY <1>1, <1>3, <1>t DEF TypeOK
<1>5. ASSUME NEW f \in Leaves \ S, transformRuns[f] # None
      PROVE  transformRuns[f] \in pending'
  <2>1. transformRuns[f] \in pending /\ transformRuns[f].leaf = f
    BY <1>5 DEF IInv, LiveRunsPending
  <2>2. transformRuns[f] # run
    BY <1>5, <2>1 DEF IsCurrent
  <2> QED  BY <1>2, <2>1, <2>2
<1>6. /\ TypeOK' /\ CountsExact' /\ LiveRunsPending' /\ TokensUsedOnce'
      /\ \A f \in Leaves : transformRuns'[f] = IF f \in S THEN None ELSE transformRuns[f]
  <2> HIDE DEF S
  <2> QED  BY <1>2, <1>4, <1>5, <1>t, ReleasingStep DEF TypeOK
<1>7. NewestRuns'
  <2>1. \A other \in pending' : other \in pending /\ other # run /\ other.leaf \in Leaves
    BY <1>2, <1>t DEF TypeOK, Runs
  <2>2. \A other \in pending' : other.token > 0 /\ other.token \notin failed'
    BY <1>3, <2>1 DEF IInv, NewestRuns, TokensUsedOnce
  <2>3. \A other \in pending' :
          newest[other.leaf] = other.token /\ other.token \notin aborted
              => transformRuns'[other.leaf] = other
    <3> SUFFICES ASSUME NEW other \in pending', newest[other.leaf] = other.token,
                        other.token \notin aborted
                 PROVE  transformRuns'[other.leaf] = other
      OBVIOUS
    <3>1. transformRuns[other.leaf] = other
      BY <2>1 DEF IInv, NewestRuns
    <3>2. other.leaf \notin S
      BY <2>1, <3>1 DEF IInv, TokensUsedOnce, IsCurrent
    <3> QED  BY <1>6, <2>1, <3>1, <3>2
  <2> QED  BY <1>2, <1>6, <2>1, <2>2, <2>3 DEF IInv, NewestRuns
<1>8. PastTokens'  BY <1>1, <1>2, <1>3 DEF IInv, PastTokens
<1>9. ErrorsAreLatest'
  <2>1. \A f \in Leaves \ {run.leaf} : newest[f] # run.token
    BY DEF IInv, NewestRuns
  <2>2. CASE IsCurrent(run)
    <3>1. newest[run.leaf] = run.token /\ run.token \notin aborted /\ run.token \notin failed
      BY <2>2, <1>1 DEF IInv, NewestRuns, IsCurrent
    <3> QED  BY <3>1, <2>1, <2>2, <1>1, <1>2, <1>3, <1>t DEF IInv, ErrorsAreLatest, TypeOK
  <2>3. CASE ~IsCurrent(run)
    <3>1. newest[run.leaf] = run.token => run.token \in aborted
      BY <2>3, <1>1, <1>t, NoneIsNoRun DEF IInv, NewestRuns, IsCurrent, TypeOK
    <3> QED  BY <3>1, <2>1, <2>3, <1>1, <1>2, <1>3 DEF IInv, ErrorsAreLatest
  <2> QED  BY <2>2, <2>3
<1> QED  BY <1>6, <1>7, <1>8, <1>9 DEF IInv

LEMMA ResetKeepsIInv ==
    ASSUME IInv, Reset
    PROVE  IInv'
<1>t. TypeOK  BY DEF IInv
<1>1. /\ Release(Leaves) /\ Flush /\ Abort(Leaves)
      /\ transformErrors' = [f \in Leaves |-> 0] /\ newest' = [f \in Leaves |-> 0]
      /\ value' \in [Leaves -> Values] /\ acts' \in Nat
      /\ UNCHANGED <<transformTokenSeq, pending, failed>>
  BY <1>t, TransformsAssumption DEF Reset, Act, TypeOK
<1>2. aborted' \subseteq Nat /\ \A t \in aborted' : t > 0 /\ t <= transformTokenSeq
  BY <1>1, AbortedTokens
<1>3. /\ TypeOK' /\ CountsExact' /\ LiveRunsPending' /\ TokensUsedOnce'
      /\ \A f \in Leaves : transformRuns'[f] = IF f \in Leaves THEN None ELSE transformRuns[f]
  <2>1. transformErrors' \in [Leaves -> Nat] /\ newest' \in [Leaves -> Nat]  BY <1>1
  <2> QED  BY <1>1, <1>2, <1>t, <2>1, ReleasingStep DEF TypeOK
<1>4. NewestRuns'
  <2>1. \A run \in pending : run.leaf \in Leaves  BY <1>t DEF TypeOK, Runs
  <2> QED  BY <1>1, <1>3, <2>1 DEF IInv, NewestRuns
<1>5. PastTokens'  BY <1>1, <1>2, <1>t DEF IInv, PastTokens, TypeOK
<1>6. ErrorsAreLatest'  BY <1>1 DEF ErrorsAreLatest
<1> QED  BY <1>3, <1>4, <1>5, <1>6 DEF IInv

(* A step that neither starts nor releases a run.                           *)
LEMMA WaitingStep ==
    ASSUME IInv,
           UNCHANGED <<transformTokenSeq, transformRuns, pending, counts, aborted,
                       transformErrors, history>>,
           value' \in [Leaves -> Values], acts' \in Nat,
           stands' \in [Waiters -> {"idle", "waiting", "resumed", "done"}],
           asked' \in [Waiters -> Leaves \cup {Group, Form, None}]
    PROVE  IInv'
<1>1. Live(Leaves)' = Live(Leaves)  BY DEF Live
<1> QED  BY <1>1 DEF IInv, TypeOK, CountsExact, LiveRunsPending, TokensUsedOnce,
                     NewestRuns, PastTokens, ErrorsAreLatest, counts, history

LEMMA BeginKeepsIInv ==
    ASSUME IInv, NEW f \in Leaves, NEW v \in Values, Begin(f, v)
    PROVE  IInv'
<1> DEFINE run == [token |-> transformTokenSeq + 1, leaf |-> f, result |-> v]
<1>t. TypeOK  BY DEF IInv
<1>1. run \in Runs /\ run # None /\ run.leaf = f /\ run.token = transformTokenSeq + 1
  BY <1>t, NoneIsNoRun DEF TypeOK, Runs
<1>2. /\ transformRuns' = [transformRuns EXCEPT ![f] = run]
      /\ pending' = pending \cup {run}
      /\ transformTokenSeq' = transformTokenSeq + 1
      /\ transformErrors' = [transformErrors EXCEPT ![f] = 0]
      /\ newest' = [newest EXCEPT ![f] = transformTokenSeq + 1]
      /\ Abort({f})
      /\ UNCHANGED <<value, waits, failed>> /\ acts' = acts + 1
      /\ fieldTransformCounts' =
           [fieldTransformCounts EXCEPT ![f] = Less(fieldTransformCounts[f], Superseded(f)) + 1]
      /\ activeTransforms' = Less(activeTransforms, Superseded(f)) + 1
  BY DEF Begin, Act
<1> HIDE DEF run
<1>3. Live(Leaves)' = Live(Leaves) \cup {f}
  BY <1>1, <1>2, <1>t DEF Live, TypeOK
<1>4. /\ IsFiniteSet(Live(Leaves)) /\ Cardinality(Live(Leaves)) \in Nat
      /\ Cardinality(Live(Leaves) \cup {f}) =
           IF f \in Live(Leaves) THEN Cardinality(Live(Leaves)) ELSE Cardinality(Live(Leaves)) + 1
  BY LiveFinite, FS_AddElement
<1>5. f \in Live(Leaves) => Cardinality(Live(Leaves)) > 0
  BY <1>4, FS_EmptySet
<1>6. activeTransforms' = Cardinality(Live(Leaves)') /\ activeTransforms' \in Nat
  BY <1>2, <1>3, <1>4, <1>5 DEF IInv, CountsExact, Less, Superseded
<1>7. /\ fieldTransformCounts' \in [Leaves -> 0..1]
      /\ \A g \in Leaves : fieldTransformCounts'[g] = IF g \in Live(Leaves)' THEN 1 ELSE 0
  <2>1. fieldTransformCounts[f] = Superseded(f)
    BY DEF IInv, CountsExact, Superseded
  <2>2. Less(fieldTransformCounts[f], Superseded(f)) + 1 = 1
    BY <2>1 DEF Less, Superseded
  <2> QED  BY <1>2, <1>3, <1>t, <2>2 DEF IInv, CountsExact, TypeOK
<1>a. /\ aborted' \subseteq Nat
      /\ \A t \in aborted' : t > 0 /\ t <= transformTokenSeq
      /\ \A g \in Live({f}) : newest[g] \in aborted'
      /\ \A g \in Leaves \ Live({f}) : newest[g] \in aborted' <=> newest[g] \in aborted
      /\ aborted \subseteq aborted'
  BY <1>2, AbortedTokens
<1>8. TypeOK'  BY <1>1, <1>2, <1>6, <1>7, <1>a, <1>t DEF TypeOK, waits
<1>9. LiveRunsPending'
  BY <1>1, <1>2, <1>t DEF IInv, LiveRunsPending, TypeOK
<1>10. TokensUsedOnce'
  BY <1>1, <1>2, <1>t DEF IInv, TokensUsedOnce, TypeOK, Runs
<1>11. NewestRuns'
  <2>1. ASSUME NEW other \in pending
        PROVE  /\ other.leaf \in Leaves /\ other.token \in Nat
               /\ other.token <= transformTokenSeq /\ other # run
    BY <1>1, <1>t DEF TypeOK, Runs, IInv, TokensUsedOnce
  <2>2. /\ run.token \notin failed /\ run.token \notin aborted' /\ run.token > 0
        /\ transformTokenSeq \in Nat
    BY <1>1, <1>a, <1>t DEF IInv, PastTokens, TypeOK
  <2>3. /\ transformRuns'[f] = run /\ newest'[f] = run.token
        /\ \A g \in Leaves \ {f} : transformRuns'[g] = transformRuns[g] /\ newest'[g] = newest[g]
        /\ pending' = pending \cup {run} /\ failed' = failed
    BY <1>1, <1>2, <1>t DEF TypeOK
  <2>4. ASSUME NEW g \in Leaves, transformRuns'[g] # None
        PROVE  newest'[g] = transformRuns'[g].token /\ transformRuns'[g].token \notin aborted'
    <3>1. CASE g = f  BY <3>1, <2>2, <2>3
    <3>2. CASE g # f
      BY <3>2, <2>3, <2>4, <1>a DEF IInv, NewestRuns, Live
    <3> QED  BY <3>1, <3>2
  <2>5. ASSUME NEW other \in pending', newest'[other.leaf] = other.token,
               other.token \notin aborted'
        PROVE  transformRuns'[other.leaf] = other
    <3>1. CASE other = run  BY <3>1, <1>1, <2>3
    <3>2. CASE other # run
      <4>1. other \in pending /\ other.leaf # f
        BY <3>2, <2>1, <2>2, <2>3, <2>5, <1>1
      <4> QED  BY <4>1, <2>1, <2>3, <2>5, <1>a DEF IInv, NewestRuns
    <3> QED  BY <3>1, <3>2
  <2>6. \A other \in pending', g \in Leaves : newest'[g] = other.token => other.leaf = g
    <3> SUFFICES ASSUME NEW other \in pending', NEW g \in Leaves, newest'[g] = other.token
                 PROVE  other.leaf = g
      OBVIOUS
    <3>1. CASE other = run
      <4>1. g # f => newest[g] <= transformTokenSeq /\ newest[g] \in Nat
        BY <1>t DEF IInv, PastTokens, TypeOK
      <4> QED  BY <3>1, <4>1, <2>2, <2>3, <1>1
    <3>2. CASE other # run
      <4>1. other \in pending  BY <3>2, <2>3
      <4>2. g # f  BY <4>1, <2>1, <2>2, <2>3, <1>1
      <4> QED  BY <4>1, <4>2, <2>3 DEF IInv, NewestRuns
    <3> QED  BY <3>1, <3>2
  <2>7. \A other \in pending' : other.token > 0 /\ other.token \notin failed'
    BY <2>2, <2>3 DEF IInv, NewestRuns
  <2> QED  BY <2>4, <2>5, <2>6, <2>7 DEF NewestRuns
<1>12. PastTokens'
  BY <1>2, <1>a, <1>t DEF IInv, PastTokens, TypeOK
<1>13. ErrorsAreLatest'
  <2>1. newest'[f] \notin failed
    BY <1>2, <1>t DEF IInv, PastTokens, TypeOK
  <2>2. \A g \in Leaves \ {f} : newest'[g] = newest[g] /\ g \notin Live({f})
    BY <1>2, <1>t DEF TypeOK, Live
  <2> QED  BY <1>2, <1>a, <1>t, <2>1, <2>2 DEF IInv, ErrorsAreLatest, TypeOK
<1> QED  BY <1>6, <1>7, <1>8, <1>9, <1>10, <1>11, <1>12, <1>13 DEF IInv, CountsExact

LEMMA StepIInv == IInv /\ [Next]_vars => IInv'
<1> SUFFICES ASSUME IInv, [Next]_vars PROVE IInv'  OBVIOUS
<1>t. TypeOK  BY DEF IInv
<1>1. ASSUME NEW f \in Leaves, NEW v \in Values, Begin(f, v)  PROVE IInv'
  BY <1>1, BeginKeepsIInv
<1>2. ASSUME NEW run \in pending, Resolves(run) \/ Rejects(run)  PROVE IInv'
  BY <1>2, AnswerKeepsIInv
<1>3. ASSUME NEW p \in Leaves \cup {Group}, Write(p) \/ Unmount(p)  PROVE IInv'
  <2>1. /\ Under(p) \in SUBSET Leaves /\ CancelUnder(Under(p))
        /\ value' \in [Leaves -> Values] /\ acts' \in Nat
        /\ UNCHANGED <<transformTokenSeq, pending, history>>
    BY <1>3, <1>t, UnderLeaves DEF Write, Unmount, Act, TypeOK
  <2> QED  BY <2>1, CancellingStep
<1>4. ASSUME Reset  PROVE IInv'
  BY <1>4, ResetKeepsIInv
<1>5. ASSUME Replace  PROVE IInv'
  BY <1>5, <1>t, WaitingStep DEF Replace, Act, TypeOK, waits
<1>6. ASSUME NEW w \in Waiters, NEW key \in WaitKeys, Settle(w, key)  PROVE IInv'
  <2>1. key \in Leaves \cup {Group, Form, None}  BY TransformsAssumption
  <2> QED  BY <1>6, <2>1, <1>t, WaitingStep DEF Settle, TypeOK
<1>7. ASSUME NEW w \in Submitters, StartDrain(w) \/ ResumeDrain(w)  PROVE IInv'
  <2>1. Drain(w)  BY <1>7 DEF StartDrain, ResumeDrain
  <2> QED  BY <2>1, <1>t, WaitingStep DEF Drain, TypeOK
<1>8. CASE UNCHANGED vars
  BY <1>8, <1>t, WaitingStep DEF vars, TypeOK, waits
<1> QED
  BY <1>1, <1>2, <1>3, <1>4, <1>5, <1>6, <1>7, <1>8 DEF Next, Answers

LEMMA InvariantHolds == Spec => []IInv
  BY InitIInv, StepIInv, PTL DEF Spec

-----------------------------------------------------------------------------
(* The run table and the counters have their types: one run at most counts  *)
(* at a path.                                                               *)
THEOREM TypeCorrect == Spec => []TypeOK
  BY InvariantHolds, PTL DEF IInv

(* The form's and the paths' counts are those of the live runs, so no busy  *)
(* flag sticks and no wait ends early.                                      *)
THEOREM CountersAreExact == Spec => []CountsExact
  BY InvariantHolds, PTL DEF IInv

(* The error of a field is its last input's, and is there whenever that     *)
(* input's run failed uncancelled: a superseded, cancelled or reset run     *)
(* neither shows its failure, however late, nor takes a newer one away.     *)
THEOREM ErrorIsLastInputs == Spec => []ErrorsAreLatest
  BY InvariantHolds, PTL DEF IInv

(* handleSubmit leaves its drain only when no run is live.                  *)
THEOREM DrainIsComplete == Spec => SubmitSeesLanded
<1> DEFINE Leaving(w) == stands[w] # "done" /\ stands'[w] = "done"
<1>1. ASSUME IInv, [Next]_vars, NEW w \in Submitters, Leaving(w)
      PROVE  Live(Leaves) = {}
  <2>t. TypeOK /\ w \in Waiters  BY <1>1, TransformsAssumption DEF IInv
  <2>1. Flush => ~Leaving(w)
    BY <2>t DEF Flush, TypeOK
  <2>2. stands' = stands => ~Leaving(w)  OBVIOUS
  <2>3. ASSUME NEW u \in Waiters \ Submitters, NEW key \in WaitKeys, Settle(u, key)
        PROVE  FALSE
    BY <2>3, <1>1, <2>t DEF Settle, TypeOK
  <2>4. ASSUME NEW u \in Submitters, Drain(u)  PROVE Live(Leaves) = {}
    <3>1. u = w /\ activeTransforms = 0
      BY <2>4, <1>1, <2>t DEF Drain, MayPass, TypeOK
    <3> QED  BY <3>1, <1>1, LiveFinite, FS_EmptySet DEF IInv, CountsExact
  <2>5. ~Flush /\ stands' # stands  BY <2>1, <2>2, <1>1
  <2>6. \/ \E u \in Waiters \ Submitters, key \in WaitKeys : Settle(u, key)
        \/ \E u \in Submitters : Drain(u)
    BY <2>5, <1>1
    DEF Next, vars, waits, Begin, Answers, Resolves, Rejects, End, Write, Unmount,
        CancelUnder, Replace, Reset, StartDrain, ResumeDrain
  <2> QED  BY <2>3, <2>4, <2>6
<1>2. IInv /\ [Next]_vars
        => [\A w \in Submitters : stands[w] # "done" /\ stands'[w] = "done"
                                    => Live(Leaves) = {}]_vars
  BY <1>1
<1> QED  BY <1>2, InvariantHolds, PTL DEF Spec, SubmitSeesLanded

(* What a call that waits is waiting for.                                   *)
WaitsForCounted == \A w \in Waiters : stands[w] = "waiting" => asked[w] \in Leaves \cup {Form}

LEMMA WaitsStayCounted ==
    ASSUME Group \notin WaitKeys, TypeOK, WaitsForCounted, [Next]_vars
    PROVE  WaitsForCounted'
<1>1. ASSUME Flush  PROVE WaitsForCounted'
  BY <1>1 DEF Flush, WaitsForCounted
<1>2. ASSUME UNCHANGED waits  PROVE WaitsForCounted'
  BY <1>2 DEF waits, WaitsForCounted
<1>3. ASSUME NEW u \in Waiters, NEW key \in WaitKeys, Settle(u, key)  PROVE WaitsForCounted'
  <2>1. key \in Leaves \cup {Form}  BY TransformsAssumption
  <2> QED  BY <1>3, <2>1 DEF Settle, WaitsForCounted, TypeOK
<1>4. ASSUME NEW u \in Submitters, Drain(u)  PROVE WaitsForCounted'
  BY <1>4 DEF Drain, WaitsForCounted, TypeOK
<1> QED
  BY <1>1, <1>2, <1>3, <1>4
  DEF Next, vars, Begin, Answers, Resolves, Rejects, End, Write, Unmount, CancelUnder,
      Replace, Reset, StartDrain, ResumeDrain

(* Asked for a leaf or for the form, settleTransforms resolves only when    *)
(* nothing is live there.  Asked for a container it may resolve at once,    *)
(* which is why the hypothesis is needed.                                   *)
THEOREM SettleIsHonest ==
    ASSUME Group \notin WaitKeys
    PROVE  Spec => SettledIsQuiet
<1> DEFINE Settling(w) == stands[w] # "done" /\ stands'[w] = "done"
<1>1. ASSUME IInv, IInv', WaitsForCounted, [Next]_vars,
             NEW w \in Waiters \ Submitters, Settling(w)
      PROVE  (Live(Covered(asked[w])) = {})'
  <2>t. TypeOK  BY <1>1 DEF IInv
  <2>1. /\ asked'[w] \in Leaves \cup {Form}
        /\ Idle(asked'[w], activeTransforms', fieldTransformCounts')
    <3>1. ASSUME Flush  PROVE /\ asked[w] \in Leaves \cup {Form} /\ asked' = asked
                              /\ Idle(asked[w], activeTransforms', fieldTransformCounts')
      BY <3>1, <1>1 DEF Flush, Woken, WaitsForCounted
    <3>2. ASSUME NEW u \in Waiters \ Submitters, NEW key \in WaitKeys, Settle(u, key)
          PROVE  /\ asked'[w] \in Leaves \cup {Form}
                 /\ Idle(asked'[w], activeTransforms', fieldTransformCounts')
      <4>1. u = w  BY <3>2, <1>1, <2>t DEF Settle, TypeOK
      <4>2. asked'[w] = key /\ UNCHANGED counts /\ key \in Leaves \cup {Form}
        BY <3>2, <4>1, <2>t, TransformsAssumption DEF Settle, TypeOK
      <4>3. Idle(key, activeTransforms, fieldTransformCounts)
        BY <3>2, <1>1, <4>1, <2>t DEF Settle, TypeOK
      <4> QED  BY <4>2, <4>3 DEF counts
    <3>3. ASSUME NEW u \in Submitters, Drain(u)  PROVE FALSE
      BY <3>3, <1>1, <2>t, TransformsAssumption DEF Drain, TypeOK
    <3>4. ASSUME UNCHANGED stands  PROVE FALSE
      BY <3>4, <1>1
    <3> QED
      BY <3>1, <3>2, <3>3, <3>4, <1>1
      DEF Next, vars, waits, Begin, Answers, Resolves, Rejects, End, Write, Unmount,
          CancelUnder, Replace, Reset, StartDrain, ResumeDrain
  <2>2. CASE asked'[w] = Form
    <3>1. Cardinality(Live(Leaves)') = 0
      BY <1>1, <2>1, <2>2 DEF IInv, CountsExact, Idle
    <3>2. Live(Leaves)' \in SUBSET Leaves  BY DEF Live
    <3>3. Live(Leaves)' = {}
      BY <3>1, <3>2, FS_Subset, FS_EmptySet, TransformsAssumption
    <3> QED  BY <3>3, <2>2 DEF Covered
  <2>3. CASE asked'[w] \in Leaves
    <3>1. fieldTransformCounts'[asked'[w]] = 0 /\ asked'[w] # Form /\ asked'[w] # Group
      BY <2>1, <2>3, TransformsAssumption DEF Idle
    <3>2. asked'[w] \notin Live(Leaves)'
      BY <3>1, <2>3, <1>1 DEF IInv, CountsExact
    <3> QED  BY <3>1, <3>2, <2>3 DEF Covered, Under, Live
  <2> QED  BY <2>1, <2>2, <2>3
<1>2. IInv /\ IInv' /\ WaitsForCounted /\ [Next]_vars
        => [\A w \in Waiters \ Submitters : stands[w] # "done" /\ stands'[w] = "done"
                => (Live(Covered(asked[w])) = {})']_vars
  BY <1>1
<1>3. Init => WaitsForCounted  BY DEF Init, WaitsForCounted
<1>4. IInv /\ WaitsForCounted /\ [Next]_vars => WaitsForCounted'
  BY WaitsStayCounted DEF IInv
<1> QED  BY <1>2, <1>3, <1>4, InvariantHolds, PTL DEF Spec, SettledIsQuiet

-----------------------------------------------------------------------------
(* A release drops the intents of the leaves it clears, and only those.     *)
LEMMA ReleaseDrops ==
    ASSUME TypeOK, NEW S \in SUBSET Leaves, Release(S)
    PROVE  intent' = LW!Dropped(S)
  BY DEF Release, intent, LW!Dropped

LEMMA StepImplements == IInv /\ [Next]_vars => [LW!Next]_<<value, intent, acts>>
<1> SUFFICES ASSUME IInv, Next  PROVE LW!Next \/ UNCHANGED <<value, intent, acts>>
  BY DEF vars, intent
<1>t. TypeOK  BY DEF IInv
<1>1. ASSUME NEW f \in Leaves, NEW v \in Values, Begin(f, v)  PROVE LW!Edit(f)
  <2> DEFINE run == [token |-> transformTokenSeq + 1, leaf |-> f, result |-> v]
  <2>1. run # None /\ run.result = v
    BY <1>t, NoneIsNoRun DEF TypeOK, Runs
  <2>2. transformRuns' = [transformRuns EXCEPT ![f] = run]
    BY <1>1 DEF Begin
  <2> HIDE DEF run
  <2>3. intent' = [intent EXCEPT ![f] = v]
    BY <2>1, <2>2, <1>t DEF intent, TypeOK
  <2> QED  BY <1>1, <2>3 DEF Begin, Act, LW!Edit, LW!Act
<1>2. ASSUME NEW run \in pending, Resolves(run) \/ Rejects(run)
      PROVE  LW!Next \/ UNCHANGED <<value, intent, acts>>
  <2>1. run \in Runs /\ run.leaf \in Leaves /\ run.result \in Values
    BY <1>t DEF TypeOK, Runs
  <2>2. CASE IsCurrent(run)
    <3>1. {f \in {run.leaf} : IsCurrent(run)} = {run.leaf}  BY <2>2
    <3>2. Release({run.leaf}) /\ acts' = acts
      BY <1>2, <3>1 DEF Resolves, Rejects, End
    <3>3. intent' = LW!Dropped({run.leaf})  BY <3>2, <2>1, <1>t, ReleaseDrops
    <3>4. intent[run.leaf] = run.result /\ run.result # None
      BY <2>1, <2>2, CurrentIsLive, TransformsAssumption DEF intent, Live
    <3>5. CASE value' = value
      BY <3>2, <3>3, <3>5, <2>1 DEF LW!Next, LW!Abandon
    <3>6. CASE value' = [value EXCEPT ![run.leaf] = run.result]
      BY <3>2, <3>3, <3>4, <3>6, <2>1 DEF LW!Next, LW!Land
    <3> QED  BY <1>2, <3>5, <3>6 DEF Resolves, Rejects
  <2>3. CASE ~IsCurrent(run)
    <3>1. {f \in {run.leaf} : IsCurrent(run)} = {}  BY <2>3
    <3>2. Release({}) /\ value' = value /\ acts' = acts
      BY <1>2, <2>3, <3>1 DEF Resolves, Rejects, End
    <3>3. transformRuns' = transformRuns  BY <3>2, <1>t DEF Release, TypeOK
    <3> QED  BY <3>2, <3>3 DEF intent
  <2> QED  BY <2>2, <2>3
<1>3. ASSUME NEW p \in Leaves \cup {Group}, Write(p)  PROVE LW!Write(Under(p))
  <2>1. intent' = LW!Dropped(Under(p))
    BY <1>3, <1>t, UnderLeaves, ReleaseDrops DEF Write, CancelUnder
  <2> QED  BY <1>3, <2>1 DEF Write, Act, LW!Write, LW!Act
<1>4. ASSUME NEW p \in Leaves \cup {Group}, Unmount(p)  PROVE LW!Abandon(Under(p))
  <2>1. intent' = LW!Dropped(Under(p))
    BY <1>4, <1>t, UnderLeaves, ReleaseDrops DEF Unmount, CancelUnder
  <2> QED  BY <1>4, <2>1 DEF Unmount, LW!Abandon
<1>5. ASSUME Reset  PROVE LW!Write(Leaves)
  <2>1. intent' = LW!Dropped(Leaves)  BY <1>5, <1>t, ReleaseDrops DEF Reset
  <2> QED  BY <1>5, <2>1, TransformsAssumption DEF Reset, Act, LW!Write, LW!Act
<1>6. ASSUME Replace  PROVE LW!Replace
  BY <1>6 DEF Replace, Act, LW!Replace, LW!Act, intent
<1>7. ASSUME NEW w \in Waiters, NEW key \in WaitKeys, Settle(w, key)
      PROVE  UNCHANGED <<value, intent, acts>>
  BY <1>7 DEF Settle, intent
<1>8. ASSUME NEW w \in Submitters, StartDrain(w) \/ ResumeDrain(w)
      PROVE  UNCHANGED <<value, intent, acts>>
  BY <1>8 DEF StartDrain, ResumeDrain, Drain, intent
<1> QED
  BY <1>1, <1>2, <1>3, <1>4, <1>5, <1>6, <1>7, <1>8, UnderLeaves
  DEF Next, Answers, LW!Next

(* A field changes only by what the consumer does to it and by the landing  *)
(* of its latest edit: out of order answers, supersedes, cancels and resets *)
(* never let an outdated run land.                                          *)
THEOREM ImplementsLatestWins == Spec => LatestEditWins
<1>1. Init => LW!Init  BY DEF Init, LW!Init, intent
<1> QED  BY <1>1, StepImplements, InvariantHolds, PTL DEF Spec, LatestEditWins, LW!Spec
=============================================================================
