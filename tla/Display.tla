------------------------------- MODULE Display ------------------------------
(***************************************************************************)
(* When a field shows a spinner, an error or a success (display-engine.ts, *)
(* display-state.ts): the reducer that decides, and the one timer of the   *)
(* form that makes the fields look again.  The computed of a field runs    *)
(* when something it reads has changed and somebody reads it; a flush goes *)
(* before any timer and before the clock moves.                            *)
(*                                                                         *)
(* Instants are kept relative to Date.now(): deadlines count down, ages    *)
(* count up.  An age stops where nothing compares it any more.  So does a  *)
(* deadline that is past, at -Past if it is the one the timer last fired   *)
(* for and a tick short of that if it is not, so that they stay apart.     *)
(***************************************************************************)
EXTENDS Integers, FiniteSets

CONSTANTS
    Fields,
    None,
    ShowDelay, MinVisible, FocusOutGrace, PendingLiveness,  \* in ticks
    Early,          \* how many ticks early a timer may fire: a tick is the
                    \* least that Date.now tells apart, so at most one
    Late,           \* and how many late
    MaxActs         \* bound on what the user and the validator do

Past == Late + 2

ASSUME DisplayAssumption ==
    /\ {ShowDelay, MinVisible, FocusOutGrace, PendingLiveness} \subseteq Nat \ {0}
    /\ Early \in {0, 1} /\ Late \in Nat /\ MaxActs \in Nat
    /\ None \notin Int

VARIABLES
    machines,       \* the machine of each field; Idle when none is retained
    timer,          \* timerTarget of the live timer, or None
    lastFired,      \* lastFiredTarget, or None
    age,            \* time since the field's work in flight began, or None
    verdict,        \* what the field's errors and validity amount to
    gate,           \* fields that were edited and left
    attempted,      \* submissionAttempts > 0
    focused,        \* fields not focused out
    submit,         \* "no", "draining", "validating"
    read,           \* fields that a rendered component reads
    stale,          \* those whose computed has to run again
    screen,         \* what each field's computed last returned
    shown,          \* for how long the spinner on the screen has been there
    acts

engine == <<machines, timer, lastFired>>
inputs == <<age, verdict, gate, attempted, focused, submit, read>>
vars == <<engine, inputs, stale, screen, shown, acts>>

Idle == [display |-> "idle", pendingShown |-> None, reviewAt |-> None]
Plain(d) == [display |-> d, pendingShown |-> None, reviewAt |-> None]
Pending(since, review) ==
    [display |-> "pending", pendingShown |-> since, reviewAt |-> review]

Least(a, b) == IF a < b THEN a ELSE b
Greatest(a, b) == IF a > b THEN a ELSE b

-----------------------------------------------------------------------------
(* The reducer, defaultDisplayState.                                        *)

GateOpen(k) == attempted \/ k \in gate
ShowVerdict(k) == IF GateOpen(k) THEN verdict[k] ELSE "idle"
Window(k) == IF k \in focused THEN ShowDelay ELSE Least(ShowDelay, FocusOutGrace)

(* Mutant of Hold: a spinner goes as soon as the work has settled.          *)
HoldNothing(k, prev) == Plain(ShowVerdict(k))
(* Nothing in flight: the verdict, unless a spinner is within its minimum.  *)
Hold(k, prev) ==
    IF prev.display = "pending" /\ prev.pendingShown < MinVisible
    THEN Pending(prev.pendingShown, MinVisible - prev.pendingShown)
    ELSE Plain(ShowVerdict(k))

Reduced(k, prev) ==
    CASE ~GateOpen(k) -> Plain("idle")
      [] GateOpen(k) /\ age[k] = None -> Hold(k, prev)
      [] GateOpen(k) /\ age[k] # None /\ prev.display = "pending" ->
            Pending(prev.pendingShown, None)
      [] GateOpen(k) /\ age[k] # None /\ prev.display # "pending" ->
            IF age[k] < Window(k)
            THEN [Plain(prev.display) EXCEPT !.reviewAt = Window(k) - age[k]]
            ELSE Pending(0, MinVisible)

(* The engine's floor under it: a spinner always has a deadline.            *)
WithLiveness(m) ==
    IF m.display = "pending" /\ m.reviewAt = None
    THEN [m EXCEPT !.reviewAt = PendingLiveness] ELSE m

-----------------------------------------------------------------------------
(* The engine.                                                              *)

Deadlines(ms) == {ms[k].reviewAt : k \in Fields} \ {None}
Nearest(ms) == CHOOSE d \in Deadlines(ms) : \A e \in Deadlines(ms) : d <= e

(* Mutant of Refuses: never again for the deadline just fired.              *)
RefusesFired(target) == target = lastFired
(* Nor is it for one that is still ahead.                                   *)
Refuses(target) == target = lastFired /\ target <= 0

Rearmed(ms) ==
    IF Deadlines(ms) = {} THEN None
    ELSE IF timer = Nearest(ms) THEN timer
    ELSE IF Refuses(Nearest(ms)) THEN None
    ELSE Nearest(ms)

(* The computed of field k runs: resolve.                                   *)
Resolve(k) ==
    LET m == WithLiveness(Reduced(k, machines[k])) IN
        /\ k \in stale
        /\ stale' = stale \ {k}
        /\ machines' = [machines EXCEPT ![k] = m]
        /\ timer' = Rearmed(machines')
        /\ screen' = [screen EXCEPT ![k] = m.display]
        /\ shown' = [shown EXCEPT ![k] = IF screen[k] = "pending" THEN @ ELSE 0]
        /\ UNCHANGED <<lastFired, inputs, acts>>

(* The timer fires, which wakes every field that is read.                   *)
TimerFires ==
    /\ stale = {}
    /\ timer # None /\ timer <= Early
    /\ timer' = None
    /\ lastFired' = timer
    /\ stale' = read
    /\ UNCHANGED <<machines, inputs, screen, shown, acts>>

Cleared ==
    /\ machines' = [k \in Fields |-> Idle]
    /\ timer' = None /\ lastFired' = None

-----------------------------------------------------------------------------
(* The clock.                                                               *)

Older(a, cap) == IF a = None THEN None ELSE Least(a + 1, cap)
Lowest(d) == IF d = lastFired THEN -Past ELSE 1 - Past
Nearer(d) == IF d = None THEN None ELSE Greatest(d - 1, Lowest(d))

Tick ==
    /\ stale = {}
    /\ timer # None => timer > -Late
    /\ age' = [k \in Fields |-> Older(age[k], ShowDelay)]
    /\ shown' = [k \in Fields |-> Older(shown[k], MinVisible)]
    /\ machines' = [k \in Fields |->
                      [machines[k] EXCEPT !.pendingShown = Older(@, MinVisible),
                                          !.reviewAt = Nearer(@)]]
    /\ timer' = Nearer(timer)
    /\ lastFired' = Nearer(lastFired)
    /\ UNCHANGED <<verdict, gate, attempted, focused, submit, read, stale, screen, acts>>

-----------------------------------------------------------------------------
(* What the engine is told.                                                 *)

Act == acts < MaxActs /\ acts' = acts + 1 /\ UNCHANGED <<screen, shown>>
Wakes(ks) == stale' = stale \cup (ks \cap read)

(* A run starts; the clock of the field starts over with the latest.        *)
WorkStarts(k) ==
    /\ Act
    /\ age' = [age EXCEPT ![k] = 0]
    /\ Wakes({k})
    /\ UNCHANGED <<engine, verdict, gate, attempted, focused, submit, read>>

(* The work of the field has settled with verdict v.  This is owed.         *)
WorkEnds(k, v) ==
    /\ age[k] # None
    /\ age' = [age EXCEPT ![k] = None]
    /\ verdict' = [verdict EXCEPT ![k] = v]
    /\ Wakes({k})
    /\ UNCHANGED <<engine, gate, attempted, focused, submit, read, screen, shown, acts>>

(* The user enters the field, or leaves it, after an edit or not.           *)
Focus(k) ==
    /\ Act
    /\ k \notin focused
    /\ focused' = focused \cup {k}
    /\ Wakes({k})
    /\ UNCHANGED <<engine, age, verdict, gate, attempted, submit, read>>
Leave(k) ==
    /\ Act
    /\ k \in focused
    /\ focused' = focused \ {k}
    /\ gate' \in {gate, gate \cup {k}}        \* with an edit before
    /\ Wakes({k})
    /\ UNCHANGED <<engine, age, verdict, attempted, submit, read>>

(* handleSubmit.  It drops the display state in the turn it starts, or after*)
(* the drain when a transform is running; the fields look again when        *)
(* submitting flips.                                                        *)
Submit ==
    /\ Act
    /\ submit = "no"
    /\ \/ /\ submit' = "validating"
          /\ Cleared
          /\ age' = [k \in Fields |-> None]
       \/ /\ submit' = "draining"
          /\ UNCHANGED <<engine, age>>
    /\ Wakes(Fields)
    /\ UNCHANGED <<verdict, gate, attempted, focused, read>>
DrainEnds ==
    /\ submit = "draining"
    /\ submit' = "validating"
    /\ Cleared
    /\ age' = [k \in Fields |-> None]
    /\ Wakes({k \in Fields : age[k] # None})
    /\ UNCHANGED <<verdict, gate, attempted, focused, read, screen, shown, acts>>
SubmitEnds ==
    /\ submit = "validating"
    /\ submit' = "no"
    /\ attempted' = TRUE
    /\ Wakes(Fields)
    /\ UNCHANGED <<engine, age, verdict, gate, focused, read, screen, shown, acts>>

(* reset.  A submission in its drain resumes in the same tick and finds no  *)
(* display state to drop; what ends later belongs to another generation.    *)
Reset ==
    /\ Act
    /\ Cleared
    /\ age' = [k \in Fields |-> None]
    /\ verdict' = [k \in Fields |-> "idle"]
    /\ gate' = {} /\ attempted' = FALSE /\ submit' = "no"
    /\ Wakes(Fields)
    /\ UNCHANGED <<focused, read>>

(* The page comes back to the foreground.                                   *)
Visible ==
    /\ Act
    /\ machines # [k \in Fields |-> Idle]
    /\ stale' = read
    /\ UNCHANGED <<engine, inputs>>

(* The component that reads the field goes, a removed row for one, and      *)
(* another comes.  The engine is told of neither.                           *)
Unmount(k) ==
    /\ Act
    /\ k \in read
    /\ read' = read \ {k}
    /\ stale' = stale \ {k}
    /\ UNCHANGED <<engine, age, verdict, gate, attempted, focused, submit>>
Mount(k) ==
    /\ Act
    /\ k \notin read
    /\ read' = read \cup {k}
    /\ stale' = stale \cup {k}
    /\ UNCHANGED <<engine, age, verdict, gate, attempted, focused, submit>>

-----------------------------------------------------------------------------
Init ==
    /\ machines = [k \in Fields |-> Idle]
    /\ timer = None /\ lastFired = None
    /\ age = [k \in Fields |-> None]
    /\ verdict = [k \in Fields |-> "idle"]
    /\ gate = {} /\ attempted = FALSE /\ focused = Fields /\ submit = "no"
    /\ read = Fields /\ stale = Fields
    /\ screen = [k \in Fields |-> "idle"]
    /\ shown = [k \in Fields |-> 0]
    /\ acts = 0

Settles(k) == \E v \in {"error", "success"} : WorkEnds(k, v)

Next ==
    \/ \E k \in Fields :
          \/ Resolve(k) \/ WorkStarts(k) \/ Settles(k)
          \/ Focus(k) \/ Leave(k) \/ Unmount(k) \/ Mount(k)
    \/ TimerFires \/ Visible \/ Tick
    \/ Submit \/ DrainEnds \/ SubmitEnds \/ Reset

(* The flush runs, time passes, a timer that is overdue fires, and a submission *)
(* gets its answers.  Work of a field is not owed an end.                   *)
Fairness ==
    /\ \A k \in Fields : WF_vars(Resolve(k))
    /\ SF_vars(Tick) /\ WF_vars(TimerFires)
    /\ WF_vars(DrainEnds) /\ WF_vars(SubmitEnds)

Spec == Init /\ [][Next]_vars /\ Fairness

-----------------------------------------------------------------------------
Displays == {"idle", "pending", "error", "success"}
Instants == (-Past) .. Greatest(Greatest(ShowDelay, MinVisible), PendingLiveness)

TypeOK ==
    /\ machines \in [Fields -> [display : Displays, pendingShown : (0 .. MinVisible) \cup {None},
                                reviewAt : Instants \cup {None}]]
    /\ timer \in Instants \cup {None} /\ lastFired \in Instants \cup {None}
    /\ age \in [Fields -> (0 .. ShowDelay) \cup {None}]
    /\ verdict \in [Fields -> {"idle", "error", "success"}]
    /\ gate \subseteq Fields /\ attempted \in BOOLEAN /\ focused \subseteq Fields
    /\ submit \in {"no", "draining", "validating"}
    /\ read \subseteq Fields /\ stale \subseteq read
    /\ screen \in [Fields -> Displays] /\ shown \in [Fields -> 0 .. MinVisible]
    /\ acts \in 0 .. MaxActs

(* The fields the engine keeps a deadline for although nobody reads them.   *)
(* One of these that is past keeps the timer from every later deadline.     *)
Abandoned == {k \in Fields \ read : machines[k].reviewAt # None}

(* Once the flush is over the timer is aimed at the nearest deadline: no    *)
(* deadline of a field on the page is left without one, whatever fired      *)
(* early or late (rearm).                                                   *)
DeadlinesCovered ==
    (stale = {} /\ Abandoned = {} /\ Deadlines(machines) # {}) => timer = Nearest(machines)

(* A spinner is not there for ever: it goes, unless its work is still in    *)
(* flight (the liveness floor of the engine).                               *)
SpinnerLeaves ==
    \A k \in Fields :
        (screen[k] = "pending" /\ age[k] = None /\ k \in read)
            ~> (screen[k] # "pending" \/ age[k] # None \/ k \notin read \/ Abandoned # {})

(* A spinner that came up stays its minimum, unless it was dropped for a    *)
(* submission or a reset, or its field is no longer to show anything.       *)
AntiFlash ==
    [][\A k \in Fields :
        (screen[k] = "pending" /\ screen'[k] # "pending"
           /\ machines[k].display = "pending" /\ GateOpen(k)) => shown[k] >= MinVisible]_vars
=============================================================================
