--------------------------- MODULE Display_proofs ---------------------------
(***************************************************************************)
(* The safety properties of Display, for every set of fields, all windows  *)
(* and any lateness of the timer.                                          *)
(***************************************************************************)
EXTENDS Display, WellFoundedInduction, TLAPS

Machine == [display : Displays, pendingShown : (0 .. MinVisible) \cup {None},
            reviewAt : Instants \cup {None}]

Due(k) == machines[k].reviewAt

-----------------------------------------------------------------------------
(* What makes the properties inductive.  The live timer is aimed at the     *)
(* nearest deadline.  No deadline is before the one last fired; without a   *)
(* timer that one is the nearest, and a field keeps it only until its flush *)
(* or when it has left the page.  And the spinner on the screen is at least *)
(* as old as the machine says.                                              *)
TimerIsNearest ==
    timer # None =>
      /\ \E k \in Fields : Due(k) = timer
      /\ \A k \in Fields : Due(k) # None => timer <= Due(k)

FiredIsPast ==
    lastFired # None =>
      /\ lastFired <= Early
      /\ \A k \in Fields : Due(k) # None => lastFired <= Due(k)

FiredIsNearest ==
    (timer = None /\ \E k \in Fields : Due(k) # None)
        => lastFired # None /\ \E k \in Fields : Due(k) = lastFired

FiredIsFlushed ==
    \A k \in Fields :
        (Due(k) # None /\ Due(k) = lastFired /\ timer # lastFired)
            => k \in stale \/ k \notin read

PendingIsShown ==
    \A k \in Fields : machines[k].display = "pending" =>
        /\ screen[k] = "pending"
        /\ machines[k].pendingShown # None
        /\ machines[k].pendingShown <= shown[k]

TimerInv == TimerIsNearest /\ FiredIsPast /\ FiredIsNearest /\ FiredIsFlushed

IInv == TypeOK /\ PendingIsShown /\ TimerInv

-----------------------------------------------------------------------------
(* A set of instants has a first one, so the deadline the timer is aimed at *)
(* is well defined.                                                         *)
LEMMA FirstInstant ==
    ASSUME NEW S \in SUBSET Instants, S # {}
    PROVE  \E d \in S : \A e \in S : d <= e
<1> DEFINE T == {d + Past : d \in S}
           R == OpToRel(<, Nat)
<1>1. Past \in Nat /\ S \subseteq Int /\ \A d \in S : d + Past \in Nat
  BY DisplayAssumption DEF Past, Instants, Greatest
<1>2. T \subseteq Nat /\ T # {}  BY <1>1
<1>3. IsWellFoundedOn(R, Nat)  BY NatLessThanWellFounded
<1> HIDE DEF R
<1>4. PICK x \in T : \A y \in T : ~(<<y, x>> \in R)  BY <1>2, <1>3, WFMin
<1>5. PICK d \in S : x = d + Past  BY <1>4
<1>6. \A e \in S : d <= e
  <2> SUFFICES ASSUME NEW e \in S PROVE d <= e  OBVIOUS
  <2>1. e + Past \in T /\ e + Past \in Nat /\ x \in Nat  BY <1>1, <1>2, <1>4
  <2>2. e + Past < x => <<e + Past, x>> \in R  BY <2>1 DEF R, OpToRel
  <2>3. ~(e + Past < d + Past)  BY <1>4, <1>5, <2>1, <2>2
  <2> QED  BY <1>1, <2>3
<1> QED  BY <1>6

LEMMA NearestFacts ==
    ASSUME NEW ms \in [Fields -> Machine], Deadlines(ms) # {}
    PROVE  /\ Nearest(ms) \in Deadlines(ms) /\ Nearest(ms) \in Instants
           /\ \A d \in Deadlines(ms) : Nearest(ms) <= d
<1>1. Deadlines(ms) \in SUBSET Instants  BY DEF Deadlines, Machine
<1>2. \E d \in Deadlines(ms) : \A e \in Deadlines(ms) : d <= e  BY <1>1, FirstInstant
<1> QED  BY <1>1, <1>2 DEF Nearest

(* rearm leaves the timer at the nearest deadline, or without one when that *)
(* is the one just fired.                                                   *)
LEMMA RearmedFacts ==
    ASSUME NEW ms \in [Fields -> Machine]
    PROVE  /\ (\A k \in Fields : ms[k].reviewAt = None) => Rearmed(ms) = None
           /\ \A k \in Fields : ms[k].reviewAt # None =>
                \E n \in Fields :
                   /\ ms[n].reviewAt # None
                   /\ \A j \in Fields : ms[j].reviewAt # None => ms[n].reviewAt <= ms[j].reviewAt
                   /\ \/ Rearmed(ms) = ms[n].reviewAt
                      \/ /\ Rearmed(ms) = None /\ timer # ms[n].reviewAt
                         /\ lastFired = ms[n].reviewAt /\ ms[n].reviewAt <= 0
<1>1. ASSUME \A k \in Fields : ms[k].reviewAt = None PROVE Rearmed(ms) = None
  BY <1>1 DEF Rearmed, Deadlines
<1>2. ASSUME NEW k \in Fields, ms[k].reviewAt # None
      PROVE  \E n \in Fields :
                   /\ ms[n].reviewAt # None
                   /\ \A j \in Fields : ms[j].reviewAt # None => ms[n].reviewAt <= ms[j].reviewAt
                   /\ \/ Rearmed(ms) = ms[n].reviewAt
                      \/ /\ Rearmed(ms) = None /\ timer # ms[n].reviewAt
                         /\ lastFired = ms[n].reviewAt /\ ms[n].reviewAt <= 0
  <2>1. Deadlines(ms) # {}  BY <1>2 DEF Deadlines
  <2>2. PICK n \in Fields : ms[n].reviewAt = Nearest(ms) /\ ms[n].reviewAt # None
    BY <2>1, NearestFacts DEF Deadlines
  <2>3. \A j \in Fields : ms[j].reviewAt # None => ms[n].reviewAt <= ms[j].reviewAt
    BY <2>1, <2>2, NearestFacts DEF Deadlines
  <2>4. \/ Rearmed(ms) = Nearest(ms)
        \/ /\ Rearmed(ms) = None /\ timer # Nearest(ms)
           /\ lastFired = Nearest(ms) /\ Nearest(ms) <= 0
    BY <2>1 DEF Rearmed, Refuses
  <2> QED  BY <2>2, <2>3, <2>4
<1> QED  BY <1>1, <1>2

-----------------------------------------------------------------------------
(* What the reducer and the floor under it return: a machine whose deadline *)
(* is ahead, that shows a spinner anew or for as long as before, and keeps  *)
(* one in its minimum.                                                      *)
LEMMA ReducedFacts ==
    ASSUME TypeOK, PendingIsShown, NEW k \in Fields
    PROVE  LET m == WithLiveness(Reduced(k, machines[k])) IN
             /\ m \in Machine
             /\ m.reviewAt # None => m.reviewAt \in Int /\ m.reviewAt > 0
             /\ m.display = "pending" =>
                  /\ m.pendingShown # None
                  /\ IF machines[k].display = "pending"
                     THEN m.pendingShown = machines[k].pendingShown ELSE m.pendingShown = 0
             /\ (machines[k].display = "pending" /\ m.display # "pending" /\ GateOpen(k))
                  => machines[k].pendingShown >= MinVisible
<1> DEFINE prev == machines[k]
           r == Reduced(k, prev)
           m == WithLiveness(r)
<1> USE DisplayAssumption
<1>1. /\ prev \in Machine /\ age[k] \in (0 .. ShowDelay) \cup {None}
      /\ verdict[k] \in {"idle", "error", "success"}
      /\ prev.display = "pending" => prev.pendingShown \in 0 .. MinVisible
  BY DEF TypeOK, Machine, PendingIsShown
<1>2. 1 .. Greatest(Greatest(ShowDelay, MinVisible), PendingLiveness) \subseteq Instants
  BY DEF Instants, Past, Greatest
<1>3. /\ 1 .. ShowDelay \subseteq Instants /\ 1 .. MinVisible \subseteq Instants
      /\ PendingLiveness \in Instants
  BY <1>2 DEF Greatest
<1>4. /\ r \in Machine
      /\ r.reviewAt # None => r.reviewAt \in Int /\ r.reviewAt > 0
      /\ r.display = "pending" =>
           /\ r.pendingShown # None
           /\ IF prev.display = "pending"
              THEN r.pendingShown = prev.pendingShown ELSE r.pendingShown = 0
      /\ (prev.display = "pending" /\ r.display # "pending" /\ GateOpen(k))
           => prev.pendingShown >= MinVisible
  <2>1. CASE ~GateOpen(k)
    <3>1. r = Plain("idle")  BY <2>1 DEF Reduced
    <3> QED  BY <2>1, <3>1 DEF Plain, Machine, Displays
  <2>2. CASE GateOpen(k) /\ age[k] = None
    <3>1. r = Hold(k, prev)  BY <2>2 DEF Reduced
    <3>2. CASE prev.display = "pending" /\ prev.pendingShown < MinVisible
      <4>1. r = Pending(prev.pendingShown, MinVisible - prev.pendingShown)
        BY <3>1, <3>2 DEF Hold
      <4>2. MinVisible - prev.pendingShown \in 1 .. MinVisible  BY <1>1, <3>2
      <4> QED  BY <1>1, <1>3, <3>2, <4>1, <4>2 DEF Pending, Machine, Displays
    <3>3. CASE ~(prev.display = "pending" /\ prev.pendingShown < MinVisible)
      <4>1. r = Plain(verdict[k])  BY <2>2, <3>1, <3>3 DEF Hold, ShowVerdict
      <4> QED  BY <1>1, <3>3, <4>1 DEF Plain, Machine, Displays
    <3> QED  BY <3>2, <3>3
  <2>3. CASE GateOpen(k) /\ age[k] # None /\ prev.display = "pending"
    <3>1. r = Pending(prev.pendingShown, None)  BY <2>3 DEF Reduced
    <3> QED  BY <1>1, <2>3, <3>1 DEF Pending, Machine, Displays
  <2>4. CASE GateOpen(k) /\ age[k] # None /\ prev.display # "pending"
    <3>1. Window(k) \in 1 .. ShowDelay  BY DEF Window, Least
    <3>2. CASE age[k] < Window(k)
      <4>1. r = [Plain(prev.display) EXCEPT !.reviewAt = Window(k) - age[k]]
        BY <2>4, <3>2 DEF Reduced
      <4>2. Window(k) - age[k] \in 1 .. ShowDelay  BY <1>1, <2>4, <3>1, <3>2
      <4> QED  BY <1>1, <1>3, <2>4, <4>1, <4>2 DEF Plain, Machine
    <3>3. CASE ~(age[k] < Window(k))
      <4>1. r = Pending(0, MinVisible)  BY <2>4, <3>3 DEF Reduced
      <4> QED  BY <1>3, <2>4, <4>1 DEF Pending, Machine, Displays
    <3> QED  BY <3>2, <3>3
  <2> QED  BY <2>1, <2>2, <2>3, <2>4
<1>5. CASE m = r  BY <1>4, <1>5
<1>6. CASE m = [r EXCEPT !.reviewAt = PendingLiveness]
  BY <1>3, <1>4, <1>6 DEF Machine
<1> HIDE DEF r
<1>7. m = r \/ m = [r EXCEPT !.reviewAt = PendingLiveness]  BY DEF WithLiveness
<1> QED  BY <1>5, <1>6, <1>7 DEF r

-----------------------------------------------------------------------------
LEMMA InitInv == Init => IInv
<1> SUFFICES ASSUME Init PROVE IInv  OBVIOUS
<1> USE DisplayAssumption
<1>1. /\ 0 \in 0 .. MinVisible /\ 0 \in 0 .. MaxActs
      /\ Idle \in Machine /\ machines \in [Fields -> Machine]
  BY DEF Init, Idle, Machine, Displays
<1>2. TypeOK
  BY <1>1 DEF Init, TypeOK, Machine, Displays
<1>3. PendingIsShown /\ TimerInv
  BY DEF Init, Idle, PendingIsShown, TimerInv, TimerIsNearest, FiredIsPast, FiredIsNearest,
     FiredIsFlushed, Due
<1> QED  BY <1>2, <1>3 DEF IInv

(* A step that leaves the engine and the screen alone disturbs the timer    *)
(* only through the fields that leave the page or the flush.                *)
LEMMA QuietStep ==
    ASSUME IInv, UNCHANGED <<engine, screen, shown>>, TypeOK',
           \A k \in Fields : k \in stale \/ k \notin read => k \in stale' \/ k \notin read'
    PROVE  IInv'
<1>1. PendingIsShown'  BY DEF IInv, PendingIsShown, engine
<1>2. TimerInv'
  BY DEF IInv, TimerInv, TimerIsNearest, FiredIsPast, FiredIsNearest, FiredIsFlushed, Due, engine
<1> QED  BY <1>1, <1>2 DEF IInv

(* A submission and a reset drop the display state.                         *)
LEMMA ClearedStep ==
    ASSUME IInv, Cleared, UNCHANGED <<screen, shown>>, TypeOK'
    PROVE  IInv'
<1>1. \A k \in Fields : machines'[k].reviewAt = None /\ machines'[k].display # "pending"
  BY DEF Cleared, Idle
<1>2. timer' = None /\ lastFired' = None  BY DEF Cleared
<1>3. PendingIsShown'  BY <1>1 DEF PendingIsShown
<1>4. TimerInv'
  BY <1>1, <1>2 DEF TimerInv, TimerIsNearest, FiredIsPast, FiredIsNearest, FiredIsFlushed, Due
<1> QED  BY <1>3, <1>4 DEF IInv

LEMMA ResolveStep ==
    ASSUME IInv, NEW k \in Fields, Resolve(k)
    PROVE  IInv'
<1> DEFINE m == WithLiveness(Reduced(k, machines[k]))
<1> USE DisplayAssumption
<1>1. /\ m \in Machine
      /\ m.reviewAt # None => m.reviewAt \in Int /\ m.reviewAt > 0
      /\ m.display = "pending" =>
           /\ m.pendingShown # None
           /\ IF machines[k].display = "pending"
              THEN m.pendingShown = machines[k].pendingShown ELSE m.pendingShown = 0
  BY ReducedFacts DEF IInv
<1>2. /\ k \in stale /\ stale' = stale \ {k} /\ read' = read /\ lastFired' = lastFired
      /\ machines' = [machines EXCEPT ![k] = m] /\ timer' = Rearmed(machines')
      /\ screen' = [screen EXCEPT ![k] = m.display]
      /\ shown' = [shown EXCEPT ![k] = IF screen[k] = "pending" THEN @ ELSE 0]
  BY DEF Resolve, inputs
<1> HIDE DEF m
<1>3. machines' \in [Fields -> Machine] /\ machines \in [Fields -> Machine]
  BY <1>1, <1>2 DEF IInv, TypeOK, Machine
<1>4. \A j \in Fields : Due(j)' = IF j = k THEN m.reviewAt ELSE Due(j)
  BY <1>2, <1>3 DEF Due
<1>5. \A j \in Fields : machines[j].reviewAt \in Instants \cup {None}
                        /\ machines'[j].reviewAt \in Instants \cup {None}
  BY <1>3 DEF Machine
<1>6. \/ timer' = None /\ \A j \in Fields : Due(j)' = None
      \/ \E n \in Fields :
           /\ Due(n)' # None
           /\ \A j \in Fields : Due(j)' # None => Due(n)' <= Due(j)'
           /\ \/ timer' = Due(n)'
              \/ /\ timer' = None /\ timer # Due(n)'
                 /\ lastFired = Due(n)' /\ Due(n)' <= 0
  BY <1>2, <1>3, RearmedFacts DEF Due
<1>7. Instants \subseteq Int  BY DEF Instants, Past, Greatest
<1>8. timer' \in Instants \cup {None}  BY <1>5, <1>6 DEF Due
<1>9. TypeOK'
  <2>1. UNCHANGED <<age, verdict, gate, attempted, focused, submit, read, acts>>
    BY DEF Resolve, inputs
  <2>2. screen' \in [Fields -> Displays] /\ shown' \in [Fields -> 0 .. MinVisible]
    BY <1>1, <1>2 DEF IInv, TypeOK, Machine
  <2> QED  BY <1>2, <1>3, <1>8, <2>1, <2>2 DEF IInv, TypeOK, Machine
<1>10. PendingIsShown'
  <2> SUFFICES ASSUME NEW j \in Fields, machines'[j].display = "pending"
               PROVE  /\ screen'[j] = "pending" /\ machines'[j].pendingShown # None
                      /\ machines'[j].pendingShown <= shown'[j]
    BY DEF PendingIsShown
  <2>1. CASE j = k
    <3>1. machines'[j] = m /\ screen'[j] = m.display /\ shown[k] \in 0 .. MinVisible
          /\ shown'[j] = IF screen[k] = "pending" THEN shown[k] ELSE 0
      BY <1>2, <2>1 DEF IInv, TypeOK
    <3>2. CASE machines[k].display = "pending"
      BY <1>1, <3>1, <3>2 DEF IInv, PendingIsShown
    <3>3. CASE machines[k].display # "pending"
      BY <1>1, <3>1, <3>3
    <3> QED  BY <3>2, <3>3
  <2>2. CASE j # k
    <3>1. machines'[j] = machines[j] /\ screen'[j] = screen[j] /\ shown'[j] = shown[j]
      BY <1>2, <2>2 DEF IInv, TypeOK
    <3> QED  BY <3>1 DEF IInv, PendingIsShown
  <2> QED  BY <2>1, <2>2
<1>11. FiredIsPast'
  <2>1. ASSUME lastFired # None, NEW j \in Fields, Due(j)' # None
        PROVE  lastFired <= Due(j)'
    <3>1. lastFired \in Int /\ lastFired <= 1
      BY <1>7, <2>1 DEF IInv, TypeOK, TimerInv, FiredIsPast
    <3>2. CASE j = k  BY <1>1, <1>4, <2>1, <3>1, <3>2
    <3>3. CASE j # k  BY <1>4, <2>1, <3>3 DEF IInv, TimerInv, FiredIsPast
    <3> QED  BY <3>2, <3>3
  <2> QED  BY <1>2, <2>1 DEF IInv, TimerInv, FiredIsPast
<1>12. TimerIsNearest' /\ FiredIsNearest'
  <2>1. CASE timer' = None /\ \A j \in Fields : Due(j)' = None
    BY <2>1 DEF TimerIsNearest, FiredIsNearest
  <2>2. CASE timer' # None
    BY <1>6, <2>2 DEF TimerIsNearest, FiredIsNearest
  <2>3. CASE timer' = None /\ \E j \in Fields : Due(j)' # None
    BY <1>2, <1>6, <2>3 DEF TimerIsNearest, FiredIsNearest
  <2> QED  BY <2>1, <2>2, <2>3
<1>13. FiredIsFlushed'
  <2> SUFFICES ASSUME NEW j \in Fields, Due(j)' # None, Due(j)' = lastFired,
                      timer' # lastFired
               PROVE  j \in stale' \/ j \notin read'
    BY <1>2 DEF FiredIsFlushed
  <2>1. PICK n \in Fields :
           /\ Due(n)' # None
           /\ \A i \in Fields : Due(i)' # None => Due(n)' <= Due(i)'
           /\ \/ timer' = Due(n)'
              \/ /\ timer' = None /\ timer # Due(n)'
                 /\ lastFired = Due(n)' /\ Due(n)' <= 0
    BY <1>6
  <2>2. lastFired # None /\ lastFired \in Int /\ Due(n)' \in Int
    BY <1>5, <1>7, <2>1 DEF Due
  <2>3. Due(n)' = lastFired  BY <1>2, <1>11, <2>1, <2>2 DEF FiredIsPast
  <2>4. timer # lastFired /\ lastFired <= 0  BY <2>1, <2>3
  <2>5. j # k  BY <1>1, <1>4, <2>2, <2>4
  <2> QED  BY <1>2, <1>4, <2>4, <2>5 DEF IInv, TimerInv, FiredIsFlushed
<1> QED  BY <1>9, <1>10, <1>11, <1>12, <1>13 DEF IInv, TimerInv

LEMMA TimerFiresStep ==
    ASSUME IInv, TimerFires
    PROVE  IInv'
<1> USE DisplayAssumption
<1>1. /\ timer # None /\ timer <= Early /\ timer' = None /\ lastFired' = timer /\ stale' = read
      /\ UNCHANGED <<machines, inputs, screen, shown, acts>>
  BY DEF TimerFires
<1>2. TypeOK'  BY <1>1 DEF IInv, TypeOK, inputs
<1>3. PendingIsShown'  BY <1>1 DEF IInv, PendingIsShown
<1>4. TimerInv'
  BY <1>1 DEF IInv, TimerInv, TimerIsNearest, FiredIsPast, FiredIsNearest, FiredIsFlushed, Due, inputs
<1> QED  BY <1>2, <1>3, <1>4 DEF IInv

-----------------------------------------------------------------------------
(* The clock keeps the deadlines in their order, one that is not the last   *)
(* fired apart from it, and is not far enough for a timer to be clamped.    *)
LEMMA NearerFacts ==
    ASSUME lastFired \in Instants \cup {None}, NEW d \in Instants \cup {None}
    PROVE  /\ Nearer(d) \in Instants \cup {None}
           /\ Nearer(d) = None <=> d = None
           /\ d # None => Nearer(d) \in Int /\ Nearer(d) >= d - 1 /\ Nearer(d) <= Greatest(d - 1, 1 - Past)
           /\ d # None /\ d > -Late => Nearer(d) = d - 1
           /\ (d # None /\ lastFired # None /\ lastFired <= d) =>
                /\ Nearer(lastFired) <= Nearer(d)
                /\ Nearer(d) = Nearer(lastFired) => d = lastFired
<1> DEFINE M == Greatest(Greatest(ShowDelay, MinVisible), PendingLiveness)
<1>1. M \in Nat /\ Instants = (-Past) .. M  BY DisplayAssumption DEF Instants, Greatest
<1>2. Past \in Nat /\ Past = Late + 2 /\ Late \in Nat  BY DisplayAssumption DEF Past
<1>3. None \notin Int  BY DisplayAssumption
<1> HIDE DEF M
<1>4. CASE d = None  BY <1>4 DEF Nearer
<1>5. CASE d # None
  <2>1. d \in Int /\ d >= -Past /\ d <= M  BY <1>1, <1>2, <1>5
  <2>2. Nearer(d) = IF d = lastFired THEN (IF d - 1 > -Past THEN d - 1 ELSE -Past)
                    ELSE (IF d - 1 > 1 - Past THEN d - 1 ELSE 1 - Past)
    BY <1>5 DEF Nearer, Lowest, Greatest
  <2>3. lastFired # None =>
          /\ lastFired \in Int
          /\ Nearer(lastFired) = IF lastFired - 1 > -Past THEN lastFired - 1 ELSE -Past
    BY <1>1, <1>2 DEF Nearer, Lowest, Greatest
  <2>4. Nearer(d) \in Int /\ Nearer(d) >= d - 1 /\ Nearer(d) <= Greatest(d - 1, 1 - Past)
    BY <1>2, <2>1, <2>2 DEF Greatest
  <2>5. Nearer(d) \in Instants
    BY <1>1, <1>2, <2>1, <2>2
  <2>6. d > -Late => Nearer(d) = d - 1  BY <1>2, <2>1, <2>2
  <2>7. (lastFired # None /\ lastFired <= d) =>
                /\ Nearer(lastFired) <= Nearer(d)
                /\ Nearer(d) = Nearer(lastFired) => d = lastFired
    BY <1>2, <2>1, <2>2, <2>3
  <2> QED  BY <1>3, <1>5, <2>4, <2>5, <2>6, <2>7
<1> QED  BY <1>4, <1>5

LEMMA OlderFacts ==
    ASSUME NEW cap \in Nat, NEW a \in (0 .. cap) \cup {None}
    PROVE  /\ Older(a, cap) \in (0 .. cap) \cup {None}
           /\ Older(a, cap) = None <=> a = None
           /\ \A b \in 0 .. cap : a # None /\ a <= b => Older(a, cap) <= Older(b, cap)
  BY DisplayAssumption DEF Older, Least

LEMMA TickStep ==
    ASSUME IInv, Tick
    PROVE  IInv'
<1> USE DisplayAssumption
<1>1. /\ stale = {} /\ (timer # None => timer > -Late)
      /\ timer' = Nearer(timer) /\ lastFired' = Nearer(lastFired)
      /\ UNCHANGED <<verdict, gate, attempted, focused, submit, read, stale, screen, acts>>
  BY DEF Tick
<1>2. /\ timer \in Instants \cup {None} /\ lastFired \in Instants \cup {None}
      /\ machines \in [Fields -> Machine]
  BY DEF IInv, TypeOK, Machine
<1>3. \A k \in Fields :
        /\ machines[k].reviewAt \in Instants \cup {None}
        /\ machines[k].pendingShown \in (0 .. MinVisible) \cup {None}
        /\ machines[k].display \in Displays
  BY <1>2 DEF Machine
<1>4. /\ machines' \in [Fields -> Machine]
      /\ \A k \in Fields :
           /\ machines'[k].display = machines[k].display
           /\ machines'[k].pendingShown = Older(machines[k].pendingShown, MinVisible)
           /\ machines'[k].reviewAt = Nearer(machines[k].reviewAt)
  <2>1. machines' = [k \in Fields |->
                      [machines[k] EXCEPT !.pendingShown = Older(@, MinVisible),
                                          !.reviewAt = Nearer(@)]]
    BY DEF Tick
  <2>2. \A k \in Fields :
          machines'[k] = [display |-> machines[k].display,
                          pendingShown |-> Older(machines[k].pendingShown, MinVisible),
                          reviewAt |-> Nearer(machines[k].reviewAt)]
    BY <1>2, <2>1 DEF Machine
  <2>3. \A k \in Fields : /\ Older(machines[k].pendingShown, MinVisible) \in (0 .. MinVisible) \cup {None}
                          /\ Nearer(machines[k].reviewAt) \in Instants \cup {None}
    BY <1>2, <1>3, OlderFacts, NearerFacts
  <2>4. ASSUME NEW k \in Fields PROVE machines'[k] \in Machine
    <3> DEFINE o == Older(machines[k].pendingShown, MinVisible)
               n == Nearer(machines[k].reviewAt)
    <3>1. o \in (0 .. MinVisible) \cup {None} /\ n \in Instants \cup {None}  BY <2>3
    <3>2. machines'[k] = [display |-> machines[k].display, pendingShown |-> o, reviewAt |-> n]
      BY <2>2
    <3> HIDE DEF o, n
    <3> QED  BY <1>3, <3>1, <3>2 DEF Machine
  <2>5. machines' \in [Fields -> Machine]  BY <2>1, <2>4
  <2> QED  BY <2>2, <2>5
<1>5. \A k \in Fields : Due(k)' = Nearer(Due(k)) /\ Due(k) \in Instants \cup {None}
  BY <1>3, <1>4 DEF Due
<1>6. shown' \in [Fields -> 0 .. MinVisible] /\ \A k \in Fields : shown'[k] = Older(shown[k], MinVisible)
  <2>1. shown \in [Fields -> 0 .. MinVisible] /\ MinVisible \in Nat /\ None \notin 0 .. MinVisible
    BY DEF IInv, TypeOK
  <2>2. \A k \in Fields : Older(shown[k], MinVisible) \in 0 .. MinVisible
    BY <2>1, OlderFacts
  <2> QED  BY <2>2 DEF Tick
<1>7. TypeOK'
  <2>1. age' \in [Fields -> (0 .. ShowDelay) \cup {None}]
    BY OlderFacts DEF Tick, IInv, TypeOK
  <2>2. timer' \in Instants \cup {None} /\ lastFired' \in Instants \cup {None}
    BY <1>1, <1>2, NearerFacts
  <2> QED  BY <1>1, <1>4, <1>6, <2>1, <2>2 DEF IInv, TypeOK, Machine
<1>8. PendingIsShown'
  <2> SUFFICES ASSUME NEW k \in Fields, machines'[k].display = "pending"
               PROVE  /\ screen'[k] = "pending" /\ machines'[k].pendingShown # None
                      /\ machines'[k].pendingShown <= shown'[k]
    BY DEF PendingIsShown
  <2>1. /\ screen[k] = "pending" /\ machines[k].pendingShown # None
        /\ machines[k].pendingShown <= shown[k] /\ shown[k] \in 0 .. MinVisible
    BY <1>4 DEF IInv, PendingIsShown, TypeOK
  <2> QED  BY <1>1, <1>3, <1>4, <1>6, <2>1, OlderFacts
<1>9. lastFired # None /\ lastFired' # None =>
        lastFired' <= Early /\ \A k \in Fields : Due(k) # None => lastFired' <= Nearer(Due(k))
  <2> SUFFICES ASSUME lastFired # None
               PROVE lastFired' <= Early /\ \A k \in Fields : Due(k) # None => lastFired' <= Nearer(Due(k))
    OBVIOUS
  <2>1. lastFired <= Early /\ lastFired \in Int
        /\ \A k \in Fields : Due(k) # None => lastFired <= Due(k)
    BY <1>2 DEF IInv, TimerInv, FiredIsPast, Instants
  <2>2. lastFired' <= Greatest(lastFired - 1, 1 - Past) /\ lastFired' \in Int
    BY <1>1, <1>2, NearerFacts
  <2>3. lastFired' <= Early  BY <2>1, <2>2 DEF Greatest, Past
  <2> QED  BY <1>1, <1>2, <1>5, <2>1, <2>3, NearerFacts
<1>10. FiredIsPast'
  BY <1>1, <1>2, <1>5, <1>9, NearerFacts DEF FiredIsPast
<1>11. TimerIsNearest'
  <2> SUFFICES ASSUME timer # None
               PROVE  /\ \E k \in Fields : Due(k)' = timer'
                      /\ \A k \in Fields : Due(k)' # None => timer' <= Due(k)'
    BY <1>1, <1>2, NearerFacts DEF TimerIsNearest
  <2>1. timer \in Int /\ timer' = timer - 1
    BY <1>1, <1>2, NearerFacts DEF Instants
  <2>2. \E k \in Fields : Due(k)' = timer'
    BY <1>1, <1>5 DEF IInv, TimerInv, TimerIsNearest
  <2>3. ASSUME NEW k \in Fields, Due(k)' # None PROVE timer' <= Due(k)'
    <3>1. Due(k) # None /\ Due(k)' \in Int /\ Due(k)' >= Due(k) - 1
      BY <1>2, <1>5, <2>3, NearerFacts
    <3>2. timer <= Due(k) /\ Due(k) \in Int
      BY <1>5, <3>1 DEF IInv, TimerInv, TimerIsNearest, Instants
    <3> QED  BY <2>1, <3>1, <3>2
  <2> QED  BY <2>2, <2>3
<1>12. FiredIsNearest'
  <2> SUFFICES ASSUME timer' = None, NEW j \in Fields, Due(j)' # None
               PROVE  lastFired' # None /\ \E k \in Fields : Due(k)' = lastFired'
    BY DEF FiredIsNearest
  <2>1. timer = None /\ Due(j) # None  BY <1>1, <1>2, <1>5, NearerFacts
  <2>2. lastFired # None /\ \E k \in Fields : Due(k) = lastFired
    BY <2>1 DEF IInv, TimerInv, FiredIsNearest
  <2> QED  BY <1>1, <1>2, <1>5, <2>2, NearerFacts
<1>13. FiredIsFlushed'
  <2> SUFFICES ASSUME NEW k \in Fields, Due(k)' # None, Due(k)' = lastFired', timer' # lastFired'
               PROVE  k \in stale' \/ k \notin read'
    BY DEF FiredIsFlushed
  <2>1. Due(k) # None /\ lastFired # None  BY <1>1, <1>2, <1>5, NearerFacts
  <2>2. lastFired <= Due(k)  BY <2>1 DEF IInv, TimerInv, FiredIsPast
  <2>3. Due(k) = lastFired  BY <1>1, <1>2, <1>5, <2>1, <2>2, NearerFacts
  <2>4. timer # lastFired  BY <1>1
  <2> QED  BY <1>1, <2>1, <2>3, <2>4 DEF IInv, TimerInv, FiredIsFlushed
<1> QED  BY <1>7, <1>8, <1>10, <1>11, <1>12, <1>13 DEF IInv, TimerInv

-----------------------------------------------------------------------------
(* What the engine is told, and the components that come and go.            *)
Told(k) == WorkStarts(k) \/ Settles(k) \/ Focus(k) \/ Leave(k) \/ Unmount(k) \/ Mount(k)

LEMMA ToldStep ==
    ASSUME IInv, NEW k \in Fields, Told(k)
    PROVE  IInv'
<1> USE DisplayAssumption
<1>1. UNCHANGED <<engine, screen, shown>>
  BY DEF Told, Settles, WorkStarts, WorkEnds, Focus, Leave, Unmount, Mount, Act
<1>2. UNCHANGED engine /\ acts' \in 0 .. MaxActs
  BY DEF Told, Settles, WorkStarts, WorkEnds, Focus, Leave, Unmount, Mount, Act, IInv, TypeOK
<1>3. \A j \in Fields : j \in stale \/ j \notin read => j \in stale' \/ j \notin read'
  BY DEF Told, Settles, WorkStarts, WorkEnds, Focus, Leave, Unmount, Mount, Wakes
<1>4. /\ read' \subseteq Fields /\ stale' \subseteq read' /\ gate' \subseteq Fields
      /\ focused' \subseteq Fields /\ attempted' = attempted /\ submit' = submit
  BY DEF Told, Settles, WorkStarts, WorkEnds, Focus, Leave, Unmount, Mount, Wakes, IInv, TypeOK
<1>5. /\ age' \in [Fields -> (0 .. ShowDelay) \cup {None}]
      /\ verdict' \in [Fields -> {"idle", "error", "success"}]
  <2>1. 0 \in 0 .. ShowDelay  OBVIOUS
  <2> QED
    BY <2>1 DEF Told, Settles, WorkStarts, WorkEnds, Focus, Leave, Unmount, Mount, IInv, TypeOK
<1>6. TypeOK'  BY <1>1, <1>2, <1>4, <1>5 DEF IInv, TypeOK, engine
<1> QED  BY <1>1, <1>3, <1>6, QuietStep

LEMMA VisibleStep ==
    ASSUME IInv, Visible
    PROVE  IInv'
<1> USE DisplayAssumption
<1>1. UNCHANGED <<engine, inputs, screen, shown>> /\ stale' = read /\ acts' \in 0 .. MaxActs
  BY DEF Visible, Act, IInv, TypeOK
<1>2. TypeOK'  BY <1>1 DEF IInv, TypeOK, engine, inputs
<1> QED  BY <1>1, <1>2, QuietStep DEF inputs

LEMMA SubmissionStep ==
    ASSUME IInv, Submit \/ DrainEnds \/ SubmitEnds \/ Reset
    PROVE  IInv'
<1> USE DisplayAssumption
<1>1. UNCHANGED <<read, screen, shown>> /\ acts' \in 0 .. MaxActs
  BY DEF Submit, DrainEnds, SubmitEnds, Reset, Act, IInv, TypeOK
<1>2. /\ stale \subseteq stale' /\ stale' \subseteq read' /\ focused' = focused
      /\ gate' \subseteq Fields /\ attempted' \in BOOLEAN
      /\ submit' \in {"no", "draining", "validating"}
      /\ verdict' \in [Fields -> {"idle", "error", "success"}]
      /\ age' \in [Fields -> (0 .. ShowDelay) \cup {None}]
  <2>1. CASE Submit  BY <2>1 DEF Submit, Wakes, IInv, TypeOK
  <2>2. CASE DrainEnds  BY <2>2 DEF DrainEnds, Wakes, IInv, TypeOK
  <2>3. CASE SubmitEnds  BY <2>3 DEF SubmitEnds, Wakes, IInv, TypeOK
  <2>4. CASE Reset  BY <2>4 DEF Reset, Wakes, IInv, TypeOK
  <2> QED  BY <2>1, <2>2, <2>3, <2>4
<1>3. UNCHANGED engine \/ Cleared  BY DEF Submit, DrainEnds, SubmitEnds, Reset
<1>4. CASE UNCHANGED engine
  <2>1. TypeOK'  BY <1>1, <1>2, <1>4 DEF IInv, TypeOK, engine
  <2> QED  BY <1>1, <1>2, <1>4, <2>1, QuietStep
<1>5. CASE Cleared
  <2>1. machines' \in [Fields -> Machine]  BY <1>5 DEF Cleared, Idle, Machine, Displays
  <2>2. TypeOK'  BY <1>1, <1>2, <1>5, <2>1 DEF IInv, TypeOK, Cleared, Machine
  <2> QED  BY <1>1, <1>5, <2>2, ClearedStep
<1> QED  BY <1>3, <1>4, <1>5

LEMMA NextInv == IInv /\ [Next]_vars => IInv'
<1> SUFFICES ASSUME IInv, [Next]_vars PROVE IInv'  OBVIOUS
<1>1. CASE UNCHANGED vars
  BY <1>1 DEF vars, engine, inputs, IInv, TypeOK, PendingIsShown, TimerInv, TimerIsNearest,
     FiredIsPast, FiredIsNearest, FiredIsFlushed, Due
<1>2. ASSUME NEW k \in Fields, Resolve(k) PROVE IInv'  BY <1>2, ResolveStep
<1>3. ASSUME NEW k \in Fields, Told(k) PROVE IInv'  BY <1>3, ToldStep
<1>4. CASE TimerFires  BY <1>4, TimerFiresStep
<1>5. CASE Visible  BY <1>5, VisibleStep
<1>6. CASE Tick  BY <1>6, TickStep
<1>7. CASE Submit \/ DrainEnds \/ SubmitEnds \/ Reset  BY <1>7, SubmissionStep
<1> QED  BY <1>1, <1>2, <1>3, <1>4, <1>5, <1>6, <1>7 DEF Next, Told

LEMMA Invariance == Spec => []IInv
<1>1. Spec => Init /\ [][Next]_vars  BY DEF Spec
<1> QED  BY <1>1, InitInv, NextInv, PTL

-----------------------------------------------------------------------------
(* Every variable keeps its type: no deadline and no age leaves its window. *)
THEOREM TypeCorrect == Spec => []TypeOK
<1>1. IInv => TypeOK  BY DEF IInv
<1> QED  BY <1>1, Invariance, PTL

LEMMA CoveredByInv == IInv => DeadlinesCovered
<1> SUFFICES ASSUME IInv, stale = {}, Abandoned = {}, Deadlines(machines) # {}
             PROVE  timer = Nearest(machines)
  BY DEF DeadlinesCovered
<1>1. machines \in [Fields -> Machine]  BY DEF IInv, TypeOK, Machine
<1>2. /\ Nearest(machines) \in Deadlines(machines) /\ Nearest(machines) \in Instants
      /\ \A d \in Deadlines(machines) : Nearest(machines) <= d
  BY <1>1, NearestFacts
<1>3. PICK n \in Fields : Due(n) = Nearest(machines) /\ Due(n) # None
  BY <1>2 DEF Deadlines, Due
<1>4. timer # None
  <2> SUFFICES ASSUME timer = None PROVE FALSE  OBVIOUS
  <2>1. lastFired # None /\ \E k \in Fields : Due(k) = lastFired
    BY <1>3 DEF IInv, TimerInv, FiredIsNearest
  <2>2. PICK k \in Fields : Due(k) = lastFired /\ Due(k) # None  BY <2>1
  <2>3. k \notin read  BY <2>1, <2>2 DEF IInv, TimerInv, FiredIsFlushed
  <2> QED  BY <2>2, <2>3 DEF Abandoned, Due
<1>5. timer <= Due(n) /\ \E k \in Fields : Due(k) = timer
  BY <1>3, <1>4 DEF IInv, TimerInv, TimerIsNearest
<1>6. timer \in Deadlines(machines)  BY <1>4, <1>5 DEF Deadlines, Due
<1>7. Nearest(machines) <= timer /\ timer <= Nearest(machines)  BY <1>2, <1>3, <1>5, <1>6
<1>8. timer \in Int /\ Nearest(machines) \in Int
  BY <1>2, <1>4, DisplayAssumption DEF IInv, TypeOK, Instants, Past
<1> QED  BY <1>7, <1>8

(* However many fields share the timer, whenever it fires and whatever they *)
(* ask for meanwhile: once the flush is over and no field that left keeps a *)
(* deadline, the timer is aimed at the nearest.                             *)
THEOREM NoDeadlineLost == Spec => []DeadlinesCovered
<1> QED  BY CoveredByInv, Invariance, PTL

LEMMA StepHolds ==
    ASSUME IInv, [Next]_vars, NEW k \in Fields, screen[k] = "pending", screen'[k] # "pending",
           machines[k].display = "pending", GateOpen(k)
    PROVE  shown[k] >= MinVisible
<1>1. \E j \in Fields : Resolve(j)
  BY DEF Next, vars, WorkStarts, Settles, WorkEnds, Focus, Leave, Unmount, Mount, TimerFires,
     Visible, Tick, Submit, DrainEnds, SubmitEnds, Reset, Act
<1>2. PICK j \in Fields : Resolve(j)  BY <1>1
<1> DEFINE m == WithLiveness(Reduced(j, machines[j]))
<1>3. screen' = [screen EXCEPT ![j] = m.display]  BY <1>2 DEF Resolve
<1>4. j = k /\ m.display # "pending"
  BY <1>3 DEF IInv, TypeOK
<1>5. machines[k].pendingShown >= MinVisible
  BY <1>4, ReducedFacts DEF IInv
<1>6. /\ machines[k].pendingShown # None /\ machines[k].pendingShown <= shown[k]
      /\ machines[k].pendingShown \in (0 .. MinVisible) \cup {None} /\ shown[k] \in 0 .. MinVisible
  BY DEF IInv, PendingIsShown, TypeOK
<1> QED  BY <1>5, <1>6, DisplayAssumption

(* No spinner flashes, for every choice of the windows.                     *)
THEOREM NoFlash == Spec => AntiFlash
<1>1. IInv /\ [Next]_vars =>
        [\A k \in Fields :
          (screen[k] = "pending" /\ screen'[k] # "pending"
             /\ machines[k].display = "pending" /\ GateOpen(k)) => shown[k] >= MinVisible]_vars
  BY StepHolds
<1>2. Spec => [][Next]_vars  BY DEF Spec
<1> QED  BY <1>1, <1>2, Invariance, PTL DEF AntiFlash
=============================================================================
