--------------------------- MODULE Wizard_proofs ---------------------------
(***************************************************************************)
(* The safety properties of Wizard, for every number of steps, gates and   *)
(* submissions.                                                            *)
(***************************************************************************)
EXTENDS Wizard, WellFoundedInduction, TLAPS

(* Min of a set of steps is its least element: what makes the first gate    *)
(* that seals, and the first step in error, well defined.                   *)
LEMMA MinOfSteps ==
    ASSUME NEW S \in SUBSET Steps, S # {}
    PROVE  Min(S) \in S /\ \A j \in S : Min(S) <= j
<1> DEFINE R == OpToRel(<, Nat)
<1>1. IsWellFoundedOn(R, Nat)  BY NatLessThanWellFounded
<1>2. S \subseteq Nat  BY WizardAssumption DEF Steps
<1> HIDE DEF R
<1>3. PICK x \in S : \A y \in S : ~(<<y, x>> \in R)  BY <1>1, <1>2, WFMin
<1>4. \A y \in S : x <= y
  <2> SUFFICES ASSUME NEW y \in S PROVE x <= y  OBVIOUS
  <2>1. x \in Nat /\ y \in Nat  BY <1>2
  <2>2. y < x => <<y, x>> \in R  BY <2>1 DEF R, OpToRel
  <2> QED  BY <2>1, <2>2, <1>3
<1> QED  BY <1>4 DEF Min

LEMMA LastReachableFacts ==
    ASSUME NEW c
    PROVE  LastReachable(c) \in Steps /\ LastReachable(c) \notin Locked(c)
<1>1. CASE Sealing(c) = {}
  BY <1>1, WizardAssumption DEF LastReachable, Locked, Steps
<1>2. CASE Sealing(c) # {}
  <2>1. Sealing(c) \in SUBSET Steps  BY WizardAssumption DEF Sealing
  <2>2. Min(Sealing(c)) \in Sealing(c) /\ \A g \in Sealing(c) : Min(Sealing(c)) <= g
    BY <1>2, <2>1, MinOfSteps
  <2>3. \A g \in Sealing(c) : ~(g < Min(Sealing(c)))
    BY <2>1, <2>2, WizardAssumption DEF Steps
  <2> QED  BY <1>2, <2>1, <2>2, <2>3 DEF LastReachable, Locked
<1> QED  BY <1>1, <1>2

LEMMA LandingFacts ==
    ASSUME NEW k \in Steps, NEW c
    PROVE  Landing(k, c) \in Steps /\ (Gates \subseteq ready => Landing(k, c) \notin Locked(c))
<1>1. Sealing(c) # {} => LastReachable(c) \in Gates
  <2>1. Sealing(c) \in SUBSET Steps  BY WizardAssumption DEF Sealing
  <2> QED  BY <2>1, MinOfSteps DEF LastReachable, Sealing
<1>2. k \in Locked(c) => Sealing(c) # {}  BY DEF Locked
<1> QED  BY <1>1, <1>2, LastReachableFacts DEF Landing

LEMMA MovedFacts ==
    ASSUME NEW k \in Steps, NEW c, active \in Steps
    PROVE  /\ Moved(k, c) \in Steps
           /\ Gates \subseteq ready /\ Moved(k, c) # active => Moved(k, c) \notin Locked(c)
  BY LandingFacts DEF Moved

LEMMA AdvancedFacts ==
    ASSUME NEW c, active \in Steps
    PROVE  /\ Advanced(c) \in Steps
           /\ Gates \subseteq ready /\ Advanced(c) # active => Advanced(c) \notin Locked(c)
<1>1. active < Last => active + 1 \in Steps  BY WizardAssumption DEF Steps
<1> QED  BY <1>1, MovedFacts DEF Advanced

LEMMA FirstFacts ==
    ASSUME NEW bad \in SUBSET Steps, Blocking(bad) # {}
    PROVE  First(bad) \in Steps
<1>1. Sealing(clearedGates) \in SUBSET Steps  BY WizardAssumption DEF Sealing
<1> QED  BY <1>1, MinOfSteps DEF First, Blocking
-----------------------------------------------------------------------------
(* What makes the properties inductive: a form that says it has a           *)
(* submission in flight has one of this generation; a deferral that no      *)
(* reset or attempt has made stale waits for one that is in flight; and an  *)
(* uncontested one waits for the only one of its step, and is not stale     *)
(* while that runs.                                                         *)
RunsNow(h, k) == Running(h) /\ subs[h].step = k /\ subs[h].gen = generation

CountIsLive ==
    \A k \in Steps : /\ activeSubmissions[k] <= 1
                     /\ activeSubmissions[k] = 1 => \E h \in Subs : RunsNow(h, k)

Awaited ==
    deferral # None /\ deferral.gen = generation =>
      /\ deferral.attempts <= submissionAttempts[deferral.step]
      /\ deferral.attempts = submissionAttempts[deferral.step]
           => \E h \in deferral.rides : RunsNow(h, deferral.step)

DeferralIsPast == deferral # None => deferral.gen <= generation /\ deferral.step < Last

RunsAt(h, k) == Running(h) /\ subs[h].step = k

Uncontested ==
    deferral # None /\ deferral.gen = generation /\ ~deferral.contested =>
      /\ \A h \in Subs : RunsAt(h, deferral.step) <=> h \in deferral.rides
      /\ \A h, i \in deferral.rides : h = i
      /\ deferral.rides # {} => deferral.attempts = submissionAttempts[deferral.step]

IInv == /\ TypeOK /\ CountIsLive /\ Awaited /\ DeferralIsPast /\ Uncontested

LEMMA InitInv == Init => IInv
<1> SUFFICES ASSUME Init PROVE IInv  OBVIOUS
<1>1. Idle \in SubType /\ 1 \in Steps
  BY WizardAssumption DEF Idle, SubType, Steps
<1>2. active \in Steps  BY LandingFacts DEF Init
<1>3. TypeOK  BY <1>1, <1>2, WizardAssumption DEF Init, TypeOK
<1> QED
  BY <1>3 DEF Init, IInv, CountIsLive, Awaited, DeferralIsPast, Uncontested

(* A step that leaves the submissions, the gates and the deferral alone:    *)
(* the pin may move, and errors come and go.                                *)
LEMMA QuietStep ==
    ASSUME IInv, active' \in Steps, ready' \subseteq Steps, userErrors' \subseteq Steps,
           clearedGates' = clearedGates, seedKnown' = seedKnown, subs' = subs,
           activeSubmissions' = activeSubmissions, deferral' = deferral,
           submissionAttempts' = submissionAttempts, generation' = generation,
           done' \in BOOLEAN,
           wizard' \in {wizard, "idle", "validating", "failing"}
    PROVE  IInv'
<1>1. TypeOK'  BY DEF IInv, TypeOK
<1>2. CountIsLive' /\ Awaited' /\ DeferralIsPast'
  BY DEF IInv, CountIsLive, Awaited, DeferralIsPast, RunsNow, Running
<1>3. Uncontested'
  BY DEF IInv, Uncontested, RunsAt, Running
<1> QED  BY <1>1, <1>2, <1>3 DEF IInv

(* To contest a deferral changes nothing else of it.                        *)
LEMMA ContestFacts ==
    ASSUME IInv, NEW k
    PROVE  /\ Contest(k) \in Deferrals \cup {None}
           /\ Contest(k) = None <=> deferral = None
           /\ deferral # None =>
                /\ Contest(k).step = deferral.step /\ Contest(k).attempts = deferral.attempts
                /\ Contest(k).gen = deferral.gen /\ Contest(k).rides = deferral.rides
                /\ deferral.step = k => Contest(k).contested
                /\ deferral.step # k => Contest(k) = deferral
<1>1. deferral # None =>
        /\ [deferral EXCEPT !.contested = TRUE] \in Deferrals
        /\ [deferral EXCEPT !.contested = TRUE].step = deferral.step
        /\ [deferral EXCEPT !.contested = TRUE].attempts = deferral.attempts
        /\ [deferral EXCEPT !.contested = TRUE].gen = deferral.gen
        /\ [deferral EXCEPT !.contested = TRUE].rides = deferral.rides
        /\ [deferral EXCEPT !.contested = TRUE].contested
  BY DEF IInv, TypeOK, Deferrals
<1> QED  BY <1>1, NoneIsNoDeferral DEF Contest, IInv, TypeOK

LEMMA SubmitStep ==
    ASSUME IInv, NEW k \in Steps, NEW tried \in BOOLEAN, Submit(k, tried)
    PROVE  IInv'
<1>1. PICK h \in Subs :
        /\ subs[h] = Idle /\ activeSubmissions[k] = 0
        /\ subs' = [subs EXCEPT ![h] = [phase |-> "validating", step |-> k,
                                        tried |-> tried, gen |-> generation]]
        /\ activeSubmissions' = [activeSubmissions EXCEPT ![k] = @ + 1]
        /\ userErrors' = userErrors \ {k}
        /\ deferral' = Contest(k)
        /\ UNCHANGED <<active, clearedGates, seedKnown, ready, submissionAttempts,
                       wizard, done, generation>>
  BY DEF Submit
<1>2. [phase |-> "validating", step |-> k, tried |-> tried, gen |-> generation] \in SubType
  BY DEF IInv, TypeOK, SubType
<1>3. TypeOK'  BY <1>1, <1>2, ContestFacts DEF IInv, TypeOK
<1>4. DeferralIsPast'
  BY <1>1, ContestFacts DEF IInv, DeferralIsPast
<1>5. \A g \in Subs : Running(g) => g # h /\ subs'[g] = subs[g]
  BY <1>1 DEF Running, Idle, IInv, TypeOK
<1>6. \A g \in Subs, j \in Steps : RunsNow(g, j) => RunsNow(g, j)'
  BY <1>1, <1>5 DEF RunsNow, Running
<1>7. RunsNow(h, k)'  BY <1>1 DEF RunsNow, Running, IInv, TypeOK
<1>8. CountIsLive'
  BY <1>1, <1>6, <1>7 DEF IInv, TypeOK, CountIsLive
<1>9. Awaited'
  <2>1. deferral # None => deferral.rides \subseteq Subs /\ deferral.step \in Steps
    BY DEF IInv, TypeOK, Deferrals
  <2> QED  BY <1>1, <1>6, <2>1, ContestFacts DEF IInv, Awaited
<1>10. Uncontested'
  <2>1. \A g \in Subs, j \in Steps : j # k => (RunsAt(g, j)' <=> RunsAt(g, j))
    <3>1. ~Running(h) /\ subs'[h].step = k /\ \A g \in Subs : g # h => subs'[g] = subs[g]
      BY <1>1 DEF Running, Idle, IInv, TypeOK
    <3> QED  BY <3>1 DEF RunsAt, Running
  <2>2. deferral # None => deferral.step \in Steps  BY DEF IInv, TypeOK, Deferrals
  <2> QED  BY <1>1, <2>1, <2>2, ContestFacts DEF IInv, Uncontested
<1> QED  BY <1>3, <1>4, <1>8, <1>9, <1>10 DEF IInv

LEMMA CallsBackStep ==
    ASSUME IInv, NEW h \in Subs, CallsBack(h)
    PROVE  IInv'
<1>1. [subs[h] EXCEPT !.phase = "callback"] \in SubType
  BY DEF IInv, TypeOK, SubType
<1>2. TypeOK'  BY <1>1 DEF IInv, TypeOK, CallsBack, forms
<1>3. DeferralIsPast'  BY DEF IInv, DeferralIsPast, CallsBack
<1>4. /\ subs'[h].phase = "callback" /\ subs'[h].step = subs[h].step
      /\ subs'[h].gen = subs[h].gen
      /\ \A g \in Subs : g # h => subs'[g] = subs[g]
  BY DEF CallsBack, IInv, TypeOK, SubType
<1>5. \A g \in Subs, j \in Steps : RunsNow(g, j) => RunsNow(g, j)'
  BY <1>4 DEF RunsNow, Running, CallsBack
<1>6. CountIsLive'  BY <1>5 DEF IInv, CountIsLive, CallsBack, forms
<1>7. deferral # None => deferral.rides \subseteq Subs /\ deferral.step \in Steps
  BY DEF IInv, TypeOK, Deferrals
<1>8. Awaited'  BY <1>5, <1>7 DEF IInv, Awaited, CallsBack, forms
<1>9. Uncontested'
  <2>1. \A g \in Subs, j \in Steps : RunsAt(g, j)' <=> RunsAt(g, j)
    BY <1>4 DEF RunsAt, Running, CallsBack
  <2> QED  BY <1>7, <2>1 DEF IInv, Uncontested, CallsBack, forms
<1> QED  BY <1>2, <1>3, <1>6, <1>8, <1>9 DEF IInv

(* The end of a submission takes the count of its form to zero, and in its  *)
(* own generation outdates the deferral that waited for it.                 *)
LEMMA FinishFacts ==
    ASSUME IInv, NEW h \in Subs, Running(h), Finish(h), generation' = generation,
           deferral' \in {None, Dismount(h)}
    PROVE  /\ subs' \in [Subs -> SubType] /\ deferral' \in Deferrals \cup {None}
           /\ activeSubmissions' \in [Steps -> Nat] /\ submissionAttempts' \in [Steps -> Nat]
           /\ CountIsLive' /\ Awaited' /\ DeferralIsPast' /\ Uncontested'
           /\ subs'[h].phase \notin {"validating", "callback"}
           /\ \A g \in Subs : g # h => subs'[g] = subs[g]
<1> DEFINE k == subs[h].step
<1>1. subs[h] \in SubType /\ k \in Steps /\ subs \in [Subs -> SubType]
  BY DEF IInv, TypeOK, SubType
<1>2. Idle \in SubType /\ Idle.phase = "idle"
  BY WizardAssumption DEF Idle, SubType, Steps
<1>3. /\ subs'[h] \in {[subs[h] EXCEPT !.phase = "landed"], Idle}
      /\ \A g \in Subs : g # h => subs'[g] = subs[g]
      /\ subs' \in [Subs -> SubType]
  <2>1. [subs[h] EXCEPT !.phase = "landed"] \in SubType  BY <1>1 DEF SubType
  <2> QED  BY <1>1, <1>2, <2>1 DEF Finish
<1>4. subs'[h].phase \notin {"validating", "callback"}
  BY <1>1, <1>2, <1>3 DEF SubType
<1>5. /\ \A j \in Steps : j # k => activeSubmissions'[j] = activeSubmissions[j]
      /\ activeSubmissions'[k] = 0 /\ activeSubmissions' \in [Steps -> Nat]
  BY <1>1 DEF Finish, CountOut, IInv, TypeOK, CountIsLive
<1>6. /\ \A j \in Steps : j # k => submissionAttempts'[j] = submissionAttempts[j]
      /\ submissionAttempts'[k] \in {submissionAttempts[k], submissionAttempts[k] + 1}
      /\ subs[h].gen = generation => submissionAttempts'[k] = submissionAttempts[k] + 1
      /\ submissionAttempts' \in [Steps -> Nat]
  BY <1>1 DEF Finish, IInv, TypeOK
<1>7. \A g \in Subs, j \in Steps : g # h /\ RunsNow(g, j) => RunsNow(g, j)'
  BY <1>3 DEF RunsNow, Running
<1>8. CountIsLive'
  <2>1. \A j \in Steps, g \in Subs : j # k /\ RunsNow(g, j) => g # h  BY DEF RunsNow
  <2> QED  BY <1>5, <1>7, <2>1 DEF IInv, CountIsLive
<1>9. CASE deferral' = None
  BY <1>3, <1>4, <1>5, <1>6, <1>8, <1>9 DEF Awaited, DeferralIsPast, Uncontested
<1>10. CASE deferral' # None
  <2>1. /\ deferral # None /\ deferral \in Deferrals
        /\ deferral' = [deferral EXCEPT !.rides = @ \ {h}]
    BY <1>10 DEF Dismount, IInv, TypeOK
  <2>2. /\ deferral' \in Deferrals /\ deferral'.step = deferral.step
        /\ deferral'.attempts = deferral.attempts /\ deferral'.gen = deferral.gen
        /\ deferral'.rides = deferral.rides \ {h} /\ deferral'.contested = deferral.contested
        /\ deferral.step \in Steps /\ deferral.attempts \in Nat /\ deferral.rides \subseteq Subs
    BY <2>1 DEF Deferrals
  <2>3. DeferralIsPast'  BY <2>1, <2>2 DEF IInv, DeferralIsPast
  <2>9. Uncontested'
    <3>1. SUFFICES ASSUME deferral.gen = generation, ~deferral.contested
                   PROVE  /\ \A g \in Subs : RunsAt(g, deferral.step)' <=> g \in deferral.rides \ {h}
                          /\ \A g, i \in deferral.rides \ {h} : g = i
                          /\ deferral.rides \ {h} # {}
                               => deferral.attempts = submissionAttempts'[deferral.step]
      BY <2>2 DEF Uncontested
    <3>2. /\ \A g \in Subs : RunsAt(g, deferral.step) <=> g \in deferral.rides
          /\ \A g, i \in deferral.rides : g = i
          /\ deferral.rides # {} => deferral.attempts = submissionAttempts[deferral.step]
      BY <2>1, <3>1 DEF IInv, Uncontested
    <3>3. \A g \in Subs : RunsAt(g, deferral.step)' <=> RunsAt(g, deferral.step) /\ g # h
      <4>1. ~RunsAt(h, deferral.step)'  BY <1>4 DEF RunsAt, Running
      <4>2. ASSUME NEW g \in Subs, g # h
            PROVE  RunsAt(g, deferral.step)' <=> RunsAt(g, deferral.step)
        <5>1. subs'[g] = subs[g] /\ deferral'.step = deferral.step  BY <1>3, <2>2, <4>2
        <5> QED  BY <5>1 DEF RunsAt, Running
      <4> QED  BY <4>1, <4>2
    <3>4. deferral.rides \ {h} # {} => h \notin deferral.rides /\ deferral.step # k
      BY <2>2, <3>2 DEF RunsAt
    <3> QED  BY <1>6, <2>2, <3>2, <3>3, <3>4
  <2>4. SUFFICES ASSUME deferral.gen = generation
                 PROVE  Awaited'
    BY <1>3, <1>4, <1>5, <1>6, <1>8, <2>2, <2>3, <2>9 DEF Awaited
  <2>5. /\ deferral.attempts <= submissionAttempts[deferral.step]
        /\ deferral.attempts = submissionAttempts[deferral.step]
             => \E g \in deferral.rides : RunsNow(g, deferral.step)
    BY <2>1, <2>4 DEF IInv, Awaited
  <2>6. /\ submissionAttempts[deferral.step] \in Nat
        /\ submissionAttempts[deferral.step] <= submissionAttempts'[deferral.step]
    BY <1>1, <1>6, <2>2 DEF IInv, TypeOK
  <2>7. deferral.attempts <= submissionAttempts'[deferral.step]
    BY <1>6, <2>2, <2>5, <2>6
  <2>8. ASSUME deferral.attempts = submissionAttempts'[deferral.step]
        PROVE  \E g \in deferral'.rides : RunsNow(g, deferral.step)'
    <3>1. /\ deferral.attempts = submissionAttempts[deferral.step]
          /\ submissionAttempts'[deferral.step] = submissionAttempts[deferral.step]
      BY <1>6, <2>2, <2>5, <2>6, <2>8
    <3>2. PICK g \in deferral.rides : RunsNow(g, deferral.step)  BY <2>5, <3>1
    <3>3. g # h
      <4>1. g = h => deferral.step = k /\ subs[h].gen = generation
        BY <3>2 DEF RunsNow
      <4> QED  BY <4>1, <3>1, <1>6, <2>2, <2>6
    <3> QED  BY <3>2, <3>3, <1>7, <2>2
  <2> QED  BY <2>2, <2>7, <2>8 DEF Awaited
<1> QED  BY <1>9, <1>10

LEMMA OpenedFacts ==
    ASSUME NEW k, clearedGates \subseteq Gates
    PROVE  clearedGates \subseteq Opened(k) /\ Opened(k) \subseteq Gates
  BY DEF Opened

LEMMA FailsStep ==
    ASSUME IInv, NEW h \in Subs, Fails(h)
    PROVE  IInv'
<1>1. Running(h) /\ Finish(h) /\ generation' = generation /\ deferral' = Dismount(h)
  BY DEF Fails
<1>2. userErrors' \subseteq Steps
  <2>1. subs[h].step \in Steps  BY DEF IInv, TypeOK, SubType
  <2> QED  BY <2>1 DEF Fails, IInv, TypeOK
<1>3. TypeOK'  BY <1>1, <1>2, FinishFacts DEF Fails, IInv, TypeOK
<1> QED  BY <1>1, <1>3, FinishFacts DEF IInv

LEMMA LandsStep ==
    ASSUME IInv, NEW h \in Subs, Lands(h)
    PROVE  IInv'
<1>1. /\ Running(h) /\ Finish(h) /\ generation' = generation
      /\ deferral' \in {None, Dismount(h)}
  BY DEF Lands, Running
<1>2. clearedGates \subseteq clearedGates' /\ clearedGates' \subseteq Gates
  BY OpenedFacts DEF Lands, IInv, TypeOK
<1>3. active' \in Steps  BY AdvancedFacts DEF Lands, IInv, TypeOK
<1>4. TypeOK'  BY <1>1, <1>2, <1>3, FinishFacts DEF Lands, IInv, TypeOK
<1> QED  BY <1>1, <1>4, FinishFacts DEF IInv

LEMMA TryResumesStep ==
    ASSUME IInv, NEW h \in Subs, TryResumes(h)
    PROVE  IInv'
<1>1. Idle \in SubType  BY WizardAssumption DEF Idle, SubType, Steps
<1>2. active' \in Steps  BY AdvancedFacts DEF TryResumes, Resumed, IInv, TypeOK
<1>3. TypeOK'  BY <1>1, <1>2 DEF TryResumes, forms, IInv, TypeOK
<1>4. DeferralIsPast'  BY DEF TryResumes, IInv, DeferralIsPast
<1>5. \A g \in Subs : Running(g) => subs'[g] = subs[g]
  BY DEF TryResumes, Running, IInv, TypeOK
<1>6. \A g \in Subs, j \in Steps : RunsNow(g, j) => RunsNow(g, j)'
  BY <1>5 DEF TryResumes, RunsNow, Running
<1>7. CountIsLive'  BY <1>6 DEF TryResumes, forms, IInv, CountIsLive
<1>8. deferral # None => deferral.rides \subseteq Subs /\ deferral.step \in Steps
  BY DEF IInv, TypeOK, Deferrals
<1>9. Awaited'  BY <1>6, <1>8 DEF TryResumes, forms, IInv, Awaited
<1>10. Uncontested'
  <2>1. ~Running(h) /\ subs'[h] = Idle /\ \A g \in Subs : g # h => subs'[g] = subs[g]
    BY DEF TryResumes, Running, IInv, TypeOK
  <2>2. \A g \in Subs, j \in Steps : RunsAt(g, j)' <=> RunsAt(g, j)
    BY <2>1 DEF RunsAt, Running, Idle
  <2> QED  BY <1>8, <2>2 DEF TryResumes, forms, IInv, Uncontested
<1> QED  BY <1>3, <1>4, <1>7, <1>9, <1>10 DEF IInv

LEMMA DeferStep ==
    ASSUME IInv, Defer, activeSubmissions[active] > 0, active < Last
    PROVE  IInv'
<1>1. /\ deferral'.step = active /\ deferral'.attempts = submissionAttempts[active]
      /\ deferral'.gen = generation /\ deferral'.rides = RunningAt(active)
      /\ deferral'.contested = \E h, i \in RunningAt(active) : h # i
      /\ deferral' \in Deferrals
  BY DEF Defer, Deferrals, RunningAt, IInv, TypeOK
<1>2. TypeOK'  BY <1>1 DEF Defer, forms, IInv, TypeOK
<1>3. CountIsLive'
  BY DEF Defer, forms, IInv, CountIsLive, RunsNow, Running
<1>4. DeferralIsPast'  BY <1>1 DEF Defer, DeferralIsPast, IInv, TypeOK
<1>5. activeSubmissions[active] = 1  BY DEF IInv, TypeOK, CountIsLive
<1>6. PICK g \in Subs : RunsNow(g, active)  BY <1>5 DEF IInv, TypeOK, CountIsLive
<1>7. g \in RunningAt(active) /\ RunsNow(g, active)'
  BY <1>6 DEF RunsNow, Running, RunningAt, Defer
<1>8. submissionAttempts[active] \in Nat  BY DEF IInv, TypeOK
<1>9. Awaited'
  BY <1>1, <1>7, <1>8 DEF Awaited, Defer, forms, RunsNow, Running
<1>10. Uncontested'
  BY <1>1 DEF Uncontested, RunsAt, RunningAt, Running, Defer, forms
<1> QED  BY <1>2, <1>3, <1>4, <1>9, <1>10 DEF IInv

LEMMA MovePinStep ==
    ASSUME IInv, NEW k \in Steps, MovePin(k)
    PROVE  IInv'
  BY QuietStep DEF MovePin, forms, IInv, TypeOK

LEMMA TryNextStep ==
    ASSUME IInv, TryNext
    PROVE  IInv'
<1>1. CASE activeSubmissions[active] > 0
  BY <1>1, DeferStep DEF TryNext
<1>2. CASE ~(activeSubmissions[active] > 0)
  BY <1>2, SubmitStep DEF TryNext, IInv, TypeOK
<1> QED  BY <1>1, <1>2

LEMMA ResetStep ==
    ASSUME IInv, Reset
    PROVE  IInv'
<1>1. 1 \in Steps  BY WizardAssumption DEF Steps
<1>2. TypeOK'
  <2>1. /\ activeSubmissions' \in [Steps -> Nat] /\ submissionAttempts' \in [Steps -> Nat]
        /\ clearedGates' \subseteq Gates /\ generation' \in Nat
    BY WizardAssumption DEF Reset, IInv, TypeOK
  <2> QED  BY <1>1, <2>1 DEF Reset, IInv, TypeOK
<1>4. CountIsLive'  BY DEF Reset, CountIsLive
<1>5. Awaited' /\ DeferralIsPast' /\ Uncontested'
  <2>1. deferral # None => deferral.gen \in Nat /\ deferral.gen <= generation
    BY DEF IInv, TypeOK, Deferrals, DeferralIsPast
  <2>2. generation' = generation + 1 /\ generation \in Nat /\ deferral' = deferral
    BY DEF Reset, IInv, TypeOK
  <2>3. deferral # None => deferral.step < Last  BY DEF IInv, DeferralIsPast
  <2> QED  BY <2>1, <2>2, <2>3 DEF Awaited, DeferralIsPast, Uncontested
<1> QED  BY <1>2, <1>4, <1>5 DEF IInv

LEMMA JudgedStep ==
    ASSUME IInv, Judged
    PROVE  IInv'
<1>1. PICK bad \in SUBSET Steps :
        IF Blocking(bad) = {}
        THEN wizard' = "onSubmit" /\ UNCHANGED active
        ELSE wizard' = "failing" /\ active' = Moved(First(bad), clearedGates)
  BY DEF Judged
<1>2. active' \in Steps  BY <1>1, FirstFacts, MovedFacts DEF IInv, TypeOK
<1>3. /\ deferral' \in Deferrals \cup {None} /\ (deferral' = None <=> deferral = None)
      /\ deferral # None =>
           /\ deferral'.step = deferral.step /\ deferral'.attempts = deferral.attempts
           /\ deferral'.gen = deferral.gen /\ deferral'.rides = deferral.rides
           /\ deferral'.contested
  BY ContestFacts DEF Judged
<1>4. TypeOK'
  <2>1. submissionAttempts' \in [Steps -> Nat]  BY DEF Judged, IInv, TypeOK
  <2>2. wizard' \in {"onSubmit", "failing"}
    BY <1>1 DEF IInv, TypeOK
  <2> QED  BY <1>2, <1>3, <2>1, <2>2 DEF Judged, IInv, TypeOK
<1>5. CountIsLive' /\ DeferralIsPast'
  BY <1>3 DEF Judged, IInv, CountIsLive, DeferralIsPast, RunsNow, Running
<1>6. Awaited'
  <2>1. deferral # None => deferral.step \in Steps /\ deferral.attempts \in Nat
    BY DEF IInv, TypeOK, Deferrals
  <2>2. \A j \in Steps : /\ submissionAttempts[j] \in Nat
                         /\ submissionAttempts'[j] = submissionAttempts[j] + 1
    BY DEF Judged, IInv, TypeOK
  <2> QED  BY <1>3, <2>1, <2>2 DEF Judged, IInv, Awaited
<1>7. Uncontested'  BY <1>3 DEF Uncontested
<1> QED  BY <1>4, <1>5, <1>6, <1>7 DEF IInv
-----------------------------------------------------------------------------
LEMMA NavigationStep ==
    ASSUME IInv,
           \/ NextStep \/ Back \/ Correct
           \/ \E k \in Steps : GoTo(k) \/ Restore(k)
    PROVE  IInv'
<1>1. active \in Steps  BY DEF IInv, TypeOK
<1>2. CASE NextStep
  BY <1>1, <1>2, TryNextStep, MovePinStep, AdvancedFacts DEF NextStep
<1>3. CASE Back
  <2>1. active - 1 \in Steps  BY <1>1, <1>3, WizardAssumption DEF Back, Steps
  <2> QED  BY <1>1, <1>3, <2>1, MovePinStep, MovedFacts DEF Back
<1>4. CASE Correct
  BY <1>4, MovePinStep, LastReachableFacts DEF Correct
<1>5. CASE \E k \in Steps : GoTo(k) \/ Restore(k)
  BY <1>1, <1>5, MovePinStep, MovedFacts DEF GoTo, Restore
<1> QED  BY <1>2, <1>3, <1>4, <1>5

(* The gates, the defaults and the flow's submission but for its judgement. *)
LEMMA SealAndFlowStep ==
    ASSUME IInv,
           \/ \E k \in Steps : SetErrors(k)
           \/ \E k \in Lazy : Hydrates(k)
           \/ SeedArrives
           \/ \E g \in Gates : Relock(g)
           \/ WizardSubmit \/ OnSubmitReturns \/ WizardEnds
    PROVE  IInv'
<1>1. CASE \E k \in Steps : SetErrors(k)
  BY <1>1, QuietStep DEF SetErrors, IInv, TypeOK
<1>2. CASE \E k \in Lazy : Hydrates(k)
  BY <1>2, QuietStep, WizardAssumption DEF Hydrates, forms, IInv, TypeOK
<1>3. CASE SeedArrives \/ \E g \in Gates : Relock(g)
  <2>1. /\ UNCHANGED <<active, ready, subs, forms, deferral, wizard, done, generation>>
        /\ \/ clearedGates' = clearedGates \cup Seeded /\ seedKnown' = TRUE
           \/ (\E g \in Gates : clearedGates' = clearedGates \ {g}) /\ seedKnown' = seedKnown
    BY <1>3 DEF SeedArrives, Relock
  <2>2. TypeOK'  BY <2>1, WizardAssumption DEF forms, IInv, TypeOK
  <2>3. Uncontested'
    BY <2>1 DEF forms, IInv, Uncontested, RunsAt, Running
  <2>4. CountIsLive' /\ Awaited' /\ DeferralIsPast'
    BY <2>1 DEF forms, IInv, CountIsLive, Awaited, DeferralIsPast, RunsNow, Running
  <2> QED  BY <2>2, <2>3, <2>4 DEF IInv
<1>4. CASE WizardSubmit
  <2>1. /\ UNCHANGED <<clearedGates, seedKnown, subs, activeSubmissions, submissionAttempts,
                       deferral, generation, active, ready, done>>
        /\ wizard' = "validating" /\ userErrors' = {}
    BY <1>4 DEF WizardSubmit
  <2>2. /\ active' \in Steps /\ ready' \subseteq Steps /\ userErrors' \subseteq Steps
        /\ done' \in BOOLEAN
    BY <2>1 DEF IInv, TypeOK
  <2> QED  BY <2>1, <2>2, QuietStep
<1>5. CASE OnSubmitReturns
  <2>1. active' \in Steps
    <3>1. active \in Steps /\ userErrors \subseteq Steps  BY DEF IInv, TypeOK
    <3>2. CASE userErrors = {}  BY <1>5, <3>1, <3>2 DEF OnSubmitReturns
    <3>3. CASE userErrors # {}
      <4>1. PICK k \in userErrors : active' = Moved(k, clearedGates)
        BY <1>5, <3>3 DEF OnSubmitReturns
      <4> QED  BY <3>1, <4>1, MovedFacts
    <3> QED  BY <3>2, <3>3
  <2>2. wizard' \in {"idle", "failing"} /\ wizard = "onSubmit" /\ done' \in BOOLEAN
    BY <1>5 DEF OnSubmitReturns, IInv, TypeOK
  <2>3. /\ UNCHANGED <<clearedGates, seedKnown, subs, activeSubmissions, submissionAttempts,
                       deferral, generation, ready, userErrors>>
        /\ ready' \subseteq Steps /\ userErrors' \subseteq Steps
    BY <1>5 DEF OnSubmitReturns, forms, IInv, TypeOK
  <2> QED  BY <2>1, <2>2, <2>3, QuietStep
<1>6. CASE WizardEnds
  <2>1. /\ UNCHANGED <<clearedGates, seedKnown, subs, activeSubmissions, submissionAttempts,
                       deferral, generation, active, ready, userErrors, done>>
        /\ wizard' = "idle"
    BY <1>6 DEF WizardEnds, forms
  <2>2. /\ active' \in Steps /\ ready' \subseteq Steps /\ userErrors' \subseteq Steps
        /\ done' \in BOOLEAN
    BY <2>1 DEF IInv, TypeOK
  <2> QED  BY <2>1, <2>2, QuietStep
<1> QED  BY <1>1, <1>2, <1>3, <1>4, <1>5, <1>6

LEMMA NextInv == IInv /\ [Next]_vars => IInv'
<1> SUFFICES ASSUME IInv, [Next]_vars PROVE IInv'  OBVIOUS
<1>1. CASE UNCHANGED vars
  <2>1. TypeOK'  BY <1>1 DEF vars, forms, IInv, TypeOK
  <2>2. CountIsLive' /\ Awaited' /\ DeferralIsPast'
    BY <1>1 DEF vars, forms, IInv, CountIsLive, Awaited, DeferralIsPast, RunsNow, Running
  <2>3. Uncontested'  BY <1>1 DEF vars, forms, IInv, Uncontested, RunsAt, Running
  <2> QED  BY <2>1, <2>2, <2>3 DEF IInv
<1>2. CASE \E k \in Steps : Submit(k, FALSE)
  BY <1>2, SubmitStep
<1>3. CASE \E h \in Subs : MemberStep(h)
  BY <1>3, CallsBackStep, FailsStep, LandsStep, TryResumesStep DEF MemberStep
<1>4. CASE TryNext
  BY <1>4, TryNextStep
<1>5. CASE Reset
  BY <1>5, ResetStep
<1>6. CASE Judged
  BY <1>6, JudgedStep
<1> QED  BY <1>1, <1>2, <1>3, <1>4, <1>5, <1>6, NavigationStep, SealAndFlowStep DEF Next

THEOREM InductiveInv == Spec => []IInv
  BY InitInv, NextInv, PTL DEF Spec

(* Every variable has its type, for every flow.                             *)
THEOREM TypeCorrect == Spec => []TypeOK
<1>1. IInv => TypeOK  BY DEF IInv
<1> QED  BY <1>1, InductiveInv, PTL
-----------------------------------------------------------------------------
(* A gate opens only by its seed or by a clean submission of its own form.  *)
ConfirmedStep ==
    \A g \in clearedGates' \ clearedGates :
        \/ g \in Seeded /\ seedKnown'
        \/ \E h \in Subs : /\ subs[h].step = g /\ subs[h].phase = "callback"
                           /\ subs'[h].phase # "callback" /\ g \notin userErrors

THEOREM ClearanceConfirmed == Spec => ClearanceIsConfirmed
<1>1. IInv /\ [Next]_vars => [ConfirmedStep]_vars
  <2> SUFFICES ASSUME IInv, Next PROVE ConfirmedStep
    BY DEF ConfirmedStep
  <2>1. CASE \E h \in Subs : Lands(h)
    <3>1. PICK h \in Subs : Lands(h)  BY <2>1
    <3>2. /\ Running(h) /\ Finish(h) /\ generation' = generation
          /\ deferral' \in {None, Dismount(h)}
      BY <3>1 DEF Lands, Running
    <3>3. subs'[h].phase # "callback"  BY <3>2, FinishFacts
    <3> QED  BY <3>1, <3>3 DEF ConfirmedStep, Lands, Opened, LeftClean
  <2>2. CASE SeedArrives \/ Reset \/ \E g \in Gates : Relock(g)
    BY <2>2 DEF SeedArrives, Reset, Relock, ConfirmedStep
  <2>3. CASE clearedGates' = clearedGates
    BY <2>3 DEF ConfirmedStep
  <2> QED
    BY <2>1, <2>2, <2>3
    DEF Next, MemberStep, Submit, SetErrors, GoTo, Restore, CallsBack, Fails, TryResumes,
        TryNext, NextStep, Back, Correct, MovePin, Defer, Hydrates, WizardSubmit, Judged,
        OnSubmitReturns, WizardEnds
<1> QED  BY <1>1, InductiveInv, PTL DEF Spec, ClearanceIsConfirmed, ConfirmedStep

(* The steps that move the pin, each with what it becomes.                  *)
LEMMA PinMoves ==
    ASSUME IInv, Next, active' # active
    PROVE  /\ ready' = ready
           /\ \/ clearedGates' = clearedGates /\ \E k \in Steps : active' = Moved(k, clearedGates)
              \/ active' = Advanced(clearedGates')
              \/ clearedGates' = clearedGates /\ active' = LastReachable(clearedGates)
              \/ active' = 1
<1> DEFINE Goal ==
       /\ ready' = ready
       /\ \/ clearedGates' = clearedGates /\ \E k \in Steps : active' = Moved(k, clearedGates)
          \/ active' = Advanced(clearedGates')
          \/ clearedGates' = clearedGates /\ active' = LastReachable(clearedGates)
          \/ active' = 1
<1> SUFFICES Goal  OBVIOUS
<1>1. active \in Steps /\ userErrors \subseteq Steps  BY DEF IInv, TypeOK
<1>2. CASE \E h \in Subs : Lands(h) \/ TryResumes(h)
  BY <1>2 DEF Lands, TryResumes, Resumed
<1>3. CASE NextStep \/ Back \/ Correct \/ \E k \in Steps : GoTo(k) \/ Restore(k)
  <2>1. Back => active - 1 \in Steps  BY <1>1, WizardAssumption DEF Back, Steps
  <2>2. ~(NextStep /\ TryNext)  BY DEF TryNext, Defer, Submit
  <2> QED  BY <1>3, <2>1, <2>2 DEF NextStep, Back, Correct, GoTo, Restore, MovePin
<1>4. CASE Judged
  <2>1. PICK bad \in SUBSET Steps :
          IF Blocking(bad) = {}
          THEN wizard' = "onSubmit" /\ UNCHANGED active
          ELSE wizard' = "failing" /\ active' = Moved(First(bad), clearedGates)
    BY <1>4 DEF Judged
  <2> QED  BY <1>4, <2>1, FirstFacts DEF Judged
<1>5. CASE OnSubmitReturns
  BY <1>1, <1>5 DEF OnSubmitReturns
<1>6. CASE Reset
  BY <1>6 DEF Reset
<1> QED
  BY <1>2, <1>3, <1>4, <1>5, <1>6
  DEF Next, MemberStep, Submit, SetErrors, CallsBack, Fails, TryNext, Defer, Hydrates,
      SeedArrives, Relock, WizardSubmit, WizardEnds

(* No navigation, advance or failed submission takes the pin behind a gate  *)
(* that seals it once the gates have their defaults.                        *)
THEOREM PinOut == Spec => PinStaysOut
<1>1. IInv /\ [Next]_vars =>
        [active' # active /\ Gates \subseteq ready => active' \notin Locked(clearedGates')]_vars
  <2> SUFFICES ASSUME IInv, Next, active' # active, Gates \subseteq ready
               PROVE  active' \notin Locked(clearedGates')
    OBVIOUS
  <2>1. active \in Steps  BY DEF IInv, TypeOK
  <2>2. 1 \notin Locked(clearedGates')
    BY WizardAssumption DEF Locked, Sealing, Steps
  <2> QED  BY <2>1, <2>2, PinMoves, MovedFacts, AdvancedFacts, LastReachableFacts
<1> QED  BY <1>1, InductiveInv, PTL DEF Spec, PinStaysOut

(* What a submission does to the pin, it does from its own step.            *)
THEOREM NoStepSkipped == Spec => NoSkip
<1>1. IInv /\ [Next]_vars =>
        [\A h \in Subs : subs[h] # Idle /\ subs'[h] # subs[h] /\ active' # active =>
             active = subs[h].step]_vars
  <2> SUFFICES ASSUME IInv, Next, active' # active,
                      NEW h \in Subs, subs[h] # Idle, subs'[h] # subs[h]
               PROVE  active = subs[h].step
    OBVIOUS
  <2>1. PICK g \in Subs : Lands(g) \/ TryResumes(g)
    BY DEF Next, MemberStep, Submit, SetErrors, GoTo, Restore, CallsBack, Fails,
           TryNext, NextStep, Back, Correct, MovePin, Defer, Hydrates, SeedArrives, Relock,
           Reset, WizardSubmit, Judged, OnSubmitReturns, WizardEnds
  <2>2. g = h  BY <2>1 DEF Lands, Finish, TryResumes, IInv, TypeOK
  <2> QED  BY <2>1, <2>2 DEF Lands, Honours, TryResumes, Resumed
<1> QED  BY <1>1, InductiveInv, PTL DEF Spec, NoSkip

(* Within a generation an advance fires only for what it waits for.         *)
THEOREM RidesOwn == Spec => RidesItsOwn
<1>1. IInv /\ [Next]_vars =>
        [\A h \in Subs : Honoured(h) /\ deferral.gen = generation => deferral.rides # {}]_vars
  <2>1. ASSUME IInv, Next, NEW h \in Subs, Honoured(h), deferral.gen = generation
        PROVE  deferral.rides # {}
    <3>1. PICK g \in Subs : Lands(g) \/ TryResumes(g)
      BY <2>1 DEF Honoured, Next, MemberStep, Submit, SetErrors, GoTo, Restore, CallsBack,
           Fails, TryNext, NextStep, Back, Correct, MovePin, Defer, Hydrates, SeedArrives,
           Relock, Reset, WizardSubmit, Judged, OnSubmitReturns, WizardEnds
    <3>2. g = h  BY <2>1, <3>1 DEF Honoured, Lands, Finish, TryResumes, IInv, TypeOK
    <3>3. Lands(h)  BY <2>1, <3>1, <3>2 DEF Honoured, TryResumes
    <3>4. deferral.attempts = submissionAttempts[deferral.step]
      BY <2>1, <3>3 DEF Honoured, Lands, Honours
    <3> QED  BY <2>1, <3>4 DEF Honoured, IInv, Awaited
  <2> QED  BY <2>1 DEF vars, Honoured
<1> QED  BY <1>1, InductiveInv, PTL DEF Spec, RidesItsOwn

(* An advance that waits for the only submission of its step fires when     *)
(* that lands clean, if the pin is still there and no earlier gate seals.   *)
THEOREM AdvanceNotLost == Spec => AdvanceLands
<1>1. ASSUME IInv, NEW h \in Subs, Lands(h), Awaits(h),
             active = deferral.step, active \notin Locked(clearedGates)
      PROVE  active' = active + 1
  <2> DEFINE c == Opened(active)
  <2>1. /\ RunsAt(h, active) /\ deferral.attempts = submissionAttempts[active]
        /\ active < Last /\ active \in Steps /\ clearedGates \subseteq Gates
    BY <1>1 DEF IInv, TypeOK, Awaits, Uncontested, DeferralIsPast
  <2>2. active' = Advanced(c)
    BY <1>1, <2>1 DEF Lands, Honours, RunsAt, Awaits
  <2>3. active + 1 \in Steps /\ active + 1 # active
    BY <2>1, WizardAssumption DEF Steps
  <2>4. active + 1 \notin Locked(c)
    <3>1. SUFFICES ASSUME NEW g \in Sealing(c), g < active + 1  PROVE FALSE
      BY DEF Locked
    <3>2. g \in Gates /\ g \notin clearedGates /\ g # active
      BY <3>1 DEF Sealing, Opened
    <3>3. g \in Nat /\ active \in Nat  BY <2>1, <3>2, WizardAssumption DEF Steps
    <3>4. g < active  BY <3>1, <3>2, <3>3
    <3> QED  BY <1>1, <2>1, <3>2, <3>4 DEF Locked, Sealing
  <2> HIDE DEF c
  <2> QED  BY <2>1, <2>2, <2>3, <2>4 DEF Advanced, Moved, Landing
<1>2. IInv /\ [Next]_vars =>
        [\A h \in Subs :
            Lands(h) /\ Awaits(h) /\ active = deferral.step /\ active \notin Locked(clearedGates)
                => active' = active + 1]_vars
  BY <1>1
<1> QED  BY <1>2, InductiveInv, PTL DEF Spec, AdvanceLands
=============================================================================
