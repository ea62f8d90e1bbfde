----------------------- MODULE FieldValidation_proofs -----------------------
(***************************************************************************)
(* Type correctness, Tracked and NoLeak of FieldValidation for every form, *)
(* every number of run records and callers, and every configuration.       *)
(*                                                                         *)
(* The three are proved from one inductive invariant.  It is split in two: *)
(* RunsInv relates the runs to the map, CountsInv the counters to the runs *)
(* that still owe them a decrement.  Both take the runs, the map and the   *)
(* counters as parameters because resetField first releases what runs at   *)
(* the field and then schedules on the result.                             *)
(***************************************************************************)
EXTENDS FieldValidation, FiniteSetTheorems, TLAPS

RunsInv(rs, ent) ==
    /\ rs \in [Slots -> RunType]
    /\ ent \in [Keys -> Slots \cup {None}]
    /\ \A k \in Keys :
          ent[k] # None => rs[ent[k]].key = k /\ rs[ent[k]].phase # "free"
    /\ \A s \in Slots : rs[s].phase = "timer" => ~rs[s].released
    /\ \A s \in Slots :
          rs[s].phase \in {"timer"} \cup InFlight /\ ~rs[s].aborted
              => ent[rs[s].key] = s

CountsInv(rs, act, cnt, n) ==
    /\ act \in Nat /\ cnt \in [Keys -> Nat]
    /\ act <= Cardinality(Owing(rs)) + n
    /\ \A k \in Keys : cnt[k] <= Cardinality(OwingAt(rs, k))

RestType ==
    /\ val \in [Fields -> Values]
    /\ cell \in [Fields -> Values \cup {Unjudged}]
    /\ scheduleEpoch \in Nat /\ lastCommitted \in Nat
    /\ queued \in Nat /\ gen \in Nat /\ activeSubmissions \in Nat
    /\ calls \in [Callers -> CallType]

IInv ==
    /\ RestType
    /\ RunsInv(runs, entry)
    /\ CountsInv(runs, active, counts, Cardinality(OwingCalls))

-----------------------------------------------------------------------------
(* Data.                                                                    *)

LEMMA ReadType ==
    ASSUME NEW v \in [Fields -> Values], NEW fs
    PROVE  Read(v, fs) \in [Fields -> Values]
  BY DataAssumption DEF Read

LEMMA NoDataType == NoData \in [Fields -> Values]
  BY DataAssumption DEF NoData

LEMMA VerdictType ==
    ASSUME NEW data \in [Fields -> Values], NEW fs,
           cell \in [Fields -> Values \cup {Unjudged}]
    PROVE  Verdict(data, fs) \in [Fields -> Values \cup {Unjudged}]
  BY DEF Verdict

LEMMA FreeRunType == FreeRun \in RunType /\ FreeRun.phase = "free"
  BY NoDataType DEF FreeRun, RunType, RunPhases, Keys

LEMMA NewRunType ==
    ASSUME NEW k \in Keys, NEW immediate \in BOOLEAN,
           NEW v \in [Fields -> Values], scheduleEpoch \in Nat
    PROVE  NewRun(k, immediate, v) \in RunType
  BY ReadType, NoDataType DEF NewRun, NextEpoch, RunType, RunPhases

(* An orphan stays in flight, at its key; nothing else survives.            *)
LEMMA OrphanFacts ==
    ASSUME NEW r \in RunType, NEW released \in BOOLEAN
    PROVE  /\ Orphan(r, released) \in RunType
           /\ Orphan(r, released).phase # "timer"
           /\ r.phase \in InFlight =>
                /\ Orphan(r, released).phase = r.phase
                /\ Orphan(r, released).key = r.key
                /\ Orphan(r, released).aborted
                /\ Orphan(r, released).released = released
           /\ r.phase \notin InFlight => Orphan(r, released).phase = "free"
  BY FreeRunType, NoDataType DEF Orphan, FreeRun, RunType, RunPhases, InFlight

LEMMA MonusType ==
    ASSUME NEW a \in Nat, NEW n \in Nat
    PROVE  /\ Monus(a, n) \in Nat
           /\ Monus(a, n) <= a
           /\ \A b \in Int : a <= b /\ n <= b => Monus(a, n) <= b - n
  BY DEF Monus

-----------------------------------------------------------------------------
(* The sets that the counters are bounded by are finite.                    *)

LEMMA OwingFinite ==
    ASSUME NEW rs
    PROVE  /\ IsFiniteSet(Owing(rs)) /\ Cardinality(Owing(rs)) \in Nat
           /\ \A k : /\ IsFiniteSet(OwingAt(rs, k))
                     /\ Cardinality(OwingAt(rs, k)) \in Nat
<1>1. Owing(rs) \in SUBSET Slots /\ \A k : OwingAt(rs, k) \in SUBSET Slots
  BY DEF Owing, OwingAt
<1> QED  BY <1>1, FS_Subset, FS_CardinalityType, ActorAssumption

LEMMA OwingCallsFinite ==
    IsFiniteSet(OwingCalls) /\ Cardinality(OwingCalls) \in Nat
<1>1. OwingCalls \in SUBSET Callers  BY DEF OwingCalls
<1> QED  BY <1>1, FS_Subset, FS_CardinalityType, ActorAssumption

(* Runs that owe the same keep the counters within bounds.                  *)
LEMMA SameOwing ==
    ASSUME NEW rs, NEW rt, NEW act, NEW cnt, NEW n,
           CountsInv(rs, act, cnt, n),
           \A s \in Slots :
              (s \in Owing(rs) <=> s \in Owing(rt))
              /\ (s \in Owing(rs) => rs[s].key = rt[s].key)
    PROVE  CountsInv(rt, act, cnt, n)
<1>1. Owing(rs) = Owing(rt)
  <2>1. Owing(rs) \subseteq Slots /\ Owing(rt) \subseteq Slots  BY DEF Owing
  <2> QED  BY <2>1
<1>2. \A k \in Keys : OwingAt(rs, k) = OwingAt(rt, k)
  <2>1. Owing(rs) \subseteq Slots  BY DEF Owing
  <2> QED  BY <1>1, <2>1 DEF OwingAt
<1> QED  BY <1>1, <1>2 DEF CountsInv

(* One more run in flight, counted once in both counters.                   *)
LEMMA OneMoreOwing ==
    ASSUME NEW rs, NEW rt, NEW act, NEW cnt, NEW n \in Nat, NEW s \in Slots,
           NEW k \in Keys,
           CountsInv(rs, act, cnt, n),
           Owing(rt) = Owing(rs) \cup {s}, s \notin Owing(rs), rt[s].key = k,
           \A t \in Owing(rs) : rs[t].key = rt[t].key
    PROVE  CountsInv(rt, act + 1, [cnt EXCEPT ![k] = @ + 1], n)
<1>1. /\ Cardinality(Owing(rt)) = Cardinality(Owing(rs)) + 1
      /\ Cardinality(Owing(rs)) \in Nat
  BY OwingFinite, FS_AddElement
<1>2. OwingAt(rt, k) = OwingAt(rs, k) \cup {s} /\ s \notin OwingAt(rs, k)
  BY DEF OwingAt
<1>3. /\ Cardinality(OwingAt(rt, k)) = Cardinality(OwingAt(rs, k)) + 1
      /\ Cardinality(OwingAt(rs, k)) \in Nat
  BY <1>2, OwingFinite, FS_AddElement
<1>4. \A j \in Keys : j # k => OwingAt(rt, j) = OwingAt(rs, j)
  BY DEF OwingAt
<1> QED  BY <1>1, <1>3, <1>4 DEF CountsInv

(* One run fewer, counted out of both counters.                             *)
LEMMA OneLessOwing ==
    ASSUME NEW rs, NEW rt, NEW act, NEW cnt, NEW n \in Nat, NEW s \in Slots,
           NEW k \in Keys,
           CountsInv(rs, act, cnt, n),
           Owing(rt) = Owing(rs) \ {s}, rs[s].key = k,
           \A t \in Owing(rt) : rs[t].key = rt[t].key
    PROVE  CountsInv(rt, Monus(act, 1), [cnt EXCEPT ![k] = Monus(@, 1)], n)
<1>1. /\ Cardinality(Owing(rt)) >= Cardinality(Owing(rs)) - 1
      /\ Cardinality(Owing(rs)) \in Nat /\ Cardinality(Owing(rt)) \in Nat
  BY OwingFinite, FS_RemoveElement
<1>2. OwingAt(rt, k) = OwingAt(rs, k) \ {s}
  BY DEF OwingAt
<1>3. /\ Cardinality(OwingAt(rt, k)) >= Cardinality(OwingAt(rs, k)) - 1
      /\ Cardinality(OwingAt(rs, k)) \in Nat /\ Cardinality(OwingAt(rt, k)) \in Nat
  BY <1>2, OwingFinite, FS_RemoveElement
<1>4. \A j \in Keys : j # k => OwingAt(rt, j) = OwingAt(rs, j)
  BY DEF OwingAt
<1>5. Monus(act, 1) \in Nat /\ Monus(act, 1) <= Cardinality(Owing(rt)) + n
  BY <1>1 DEF CountsInv, Monus
<1>6. /\ [cnt EXCEPT ![k] = Monus(@, 1)] \in [Keys -> Nat]
      /\ \A j \in Keys : [cnt EXCEPT ![k] = Monus(@, 1)][j]
                            <= Cardinality(OwingAt(rt, j))
  BY <1>3, <1>4 DEF CountsInv, Monus
<1> QED  BY <1>5, <1>6 DEF CountsInv

-----------------------------------------------------------------------------
(* The operations on the runs.                                              *)

(* scheduleFieldValidation, on whatever runs, map and counters its caller   *)
(* hands over: the map gains the new run and loses the superseded one, which *)
(* still counts itself down.                                                *)
LEMMA ScheduleKeepsInv ==
    ASSUME NEW rs, NEW ent, NEW act, NEW cnt, NEW n \in Nat,
           NEW k \in Keys, NEW immediate \in BOOLEAN,
           NEW v \in [Fields -> Values], scheduleEpoch \in Nat,
           RunsInv(rs, ent), CountsInv(rs, act, cnt, n),
           Schedule(rs, ent, act, cnt, k, immediate, v)
    PROVE  /\ RunsInv(runs', entry') /\ CountsInv(runs', active', counts', n)
           /\ scheduleEpoch' \in Nat
<1> DEFINE s == CHOOSE x \in Slots : rs[x].phase = "free"
           new == NewRun(k, immediate, v)
<1>1. /\ s \in Slots /\ rs[s].phase = "free"
      /\ runs' = [t \in Slots |-> IF t = s THEN new
                                  ELSE IF t = ent[k] THEN Abort(rs[t]) ELSE rs[t]]
      /\ entry' = [ent EXCEPT ![k] = s]
      /\ scheduleEpoch' = scheduleEpoch + 1
      /\ active' = IF immediate THEN act + 1 ELSE act
      /\ counts' = IF immediate THEN [cnt EXCEPT ![k] = @ + 1] ELSE cnt
  BY DEF Schedule
<1>2. /\ new \in RunType /\ new.key = k /\ ~new.aborted /\ ~new.released
      /\ new.phase = IF immediate THEN "started" ELSE "timer"
  BY NewRunType DEF NewRun
<1>3. \A t \in Slots : rs[t] \in RunType /\ rs[t].released \in BOOLEAN
  BY DEF RunsInv, RunType
<1>4. \A t \in Slots :
         /\ Abort(rs[t]) \in RunType /\ Abort(rs[t]).phase # "timer"
         /\ rs[t].phase \in InFlight =>
              /\ Abort(rs[t]).phase = rs[t].phase /\ Abort(rs[t]).key = rs[t].key
              /\ Abort(rs[t]).aborted /\ Abort(rs[t]).released = rs[t].released
         /\ rs[t].phase \notin InFlight => Abort(rs[t]).phase = "free"
  BY <1>3, OrphanFacts DEF Abort
<1>5. \A j \in Keys : ent[j] # s
  BY <1>1, ActorAssumption DEF RunsInv
<1>6. RunsInv(runs', entry')
  <2>1. runs' \in [Slots -> RunType]
    BY <1>1, <1>2, <1>3, <1>4
  <2>2. entry' \in [Keys -> Slots \cup {None}]
    BY <1>1 DEF RunsInv
  <2>3. ASSUME NEW j \in Keys, entry'[j] # None
        PROVE  runs'[entry'[j]].key = j /\ runs'[entry'[j]].phase # "free"
    <3>1. CASE j = k
      BY <3>1, <1>1, <1>2 DEF RunsInv
    <3>2. CASE j # k
      <4>1. entry'[j] = ent[j] /\ ent[j] \in Slots /\ ent[j] # s
        BY <3>2, <2>3, <1>1, <1>5 DEF RunsInv
      <4>2. rs[ent[j]].key = j /\ rs[ent[j]].phase # "free"
        BY <4>1, <2>3 DEF RunsInv
      <4>3. ent[j] # ent[k]
        BY <4>1, <4>2, <3>2, ActorAssumption DEF RunsInv
      <4> QED  BY <4>1, <4>2, <4>3, <1>1
    <3> QED  BY <3>1, <3>2
  <2>4. ASSUME NEW t \in Slots, runs'[t].phase = "timer"
        PROVE  ~runs'[t].released
    BY <2>4, <1>1, <1>2, <1>4 DEF RunsInv
  <2>5. ASSUME NEW t \in Slots, runs'[t].phase \in {"timer"} \cup InFlight,
               ~runs'[t].aborted
        PROVE  entry'[runs'[t].key] = t
    <3>1. CASE t = s
      BY <3>1, <1>1, <1>2 DEF RunsInv
    <3>2. CASE t # s
      <4>1. t # ent[k]
        <5> SUFFICES ASSUME t = ent[k] PROVE FALSE  OBVIOUS
        <5>1. runs'[t] = Abort(rs[t])  BY <3>2, <1>1
        <5>2. Abort(rs[t]).phase # "timer" /\ ~Abort(rs[t]).aborted
              /\ Abort(rs[t]).phase \in {"timer"} \cup InFlight
          BY <5>1, <2>5, <1>4
        <5> QED  BY <5>2, <1>4 DEF InFlight
      <4>2. runs'[t] = rs[t]  BY <3>2, <4>1, <1>1
      <4>3. ent[rs[t].key] = t /\ rs[t].key \in Keys
        BY <4>2, <2>5, <1>3 DEF RunsInv, RunType
      <4>4. rs[t].key # k  BY <4>1, <4>3
      <4> QED  BY <4>2, <4>3, <4>4, <1>1 DEF RunsInv
    <3> QED  BY <3>1, <3>2
  <2> QED  BY <2>1, <2>2, <2>3, <2>4, <2>5 DEF RunsInv
<1>7. CountsInv(runs', active', counts', n)
  <2>1. \A t \in Slots : t # s =>
           /\ t \in Owing(rs) <=> t \in Owing(runs')
           /\ t \in Owing(rs) => rs[t].key = runs'[t].key
    <3> SUFFICES ASSUME NEW t \in Slots, t # s
                 PROVE  /\ t \in Owing(rs) <=> t \in Owing(runs')
                        /\ t \in Owing(rs) => rs[t].key = runs'[t].key
      OBVIOUS
    <3>1. CASE t = ent[k]
      <4>1. runs'[t] = Abort(rs[t])  BY <3>1, <1>1
      <4>2. "free" \notin InFlight  BY DEF InFlight
      <4> QED  BY <4>1, <4>2, <1>4 DEF Owing
    <3>2. CASE t # ent[k]
      BY <3>2, <1>1 DEF Owing
    <3> QED  BY <3>1, <3>2
  <2>2. s \notin Owing(rs)
    BY <1>1 DEF Owing, InFlight
  <2>3. runs'[s] = new  BY <1>1
  <2>4. Owing(rs) \subseteq Slots /\ Owing(runs') \subseteq Slots  BY DEF Owing
  <2>5. CASE immediate
    <3>1. s \in Owing(runs')  BY <2>5, <2>3, <1>1, <1>2 DEF Owing, InFlight
    <3>2. Owing(runs') = Owing(rs) \cup {s}  BY <3>1, <2>1, <2>4
    <3>3. \A t \in Owing(rs) : rs[t].key = runs'[t].key  BY <2>1, <2>2, <2>4
    <3>4. active' = act + 1 /\ counts' = [cnt EXCEPT ![k] = @ + 1]
      BY <2>5, <1>1
    <3>5. runs'[s].key = k  BY <2>3, <1>2
    <3>6. CountsInv(runs', act + 1, [cnt EXCEPT ![k] = @ + 1], n)
      BY <3>2, <3>3, <3>5, <2>2, <1>1, OneMoreOwing
    <3> QED  BY <3>4, <3>6
  <2>6. CASE ~immediate
    <3>1. s \notin Owing(runs')  BY <2>6, <2>3, <1>2 DEF Owing, InFlight
    <3>2. CountsInv(runs', act, cnt, n)
      BY <3>1, <2>1, <2>2, SameOwing
    <3> QED  BY <3>2, <2>6, <1>1
  <2> QED  BY <2>5, <2>6
<1> QED  BY <1>1, <1>6, <1>7

-----------------------------------------------------------------------------

(* resetField's teardown: the entry at the field leaves the map and takes   *)
(* its count along.                                                         *)
LEMMA ReleaseKeepsInv ==
    ASSUME NEW f \in Fields, NEW n \in Nat,
           RunsInv(runs, entry), CountsInv(runs, active, counts, n)
    PROVE  /\ RunsInv(ReleasedRuns(f), ReleasedEntry(f))
           /\ CountsInv(ReleasedRuns(f), ReleasedActive(f), ReleasedCounts(f), n)
<1> DEFINE e == entry[f]
           rt == ReleasedRuns(f)
<1>1. f \in Keys /\ e \in Slots \cup {None}
  BY DEF Keys, RunsInv
<1>2. \A t \in Slots : runs[t] \in RunType /\ rt[t] =
          IF e = t THEN Release(runs[t]) ELSE runs[t]
  BY DEF RunsInv, ReleasedRuns
<1>3. \A t \in Slots :
         /\ Release(runs[t]) \in RunType /\ Release(runs[t]).phase # "timer"
         /\ runs[t].phase \in InFlight =>
              /\ Release(runs[t]).phase = runs[t].phase
              /\ Release(runs[t]).key = runs[t].key
              /\ Release(runs[t]).aborted /\ Release(runs[t]).released
         /\ runs[t].phase \notin InFlight => Release(runs[t]).phase = "free"
  BY <1>2, OrphanFacts DEF Release
<1>4. \A t \in Slots : t \in Owing(rt) <=> t \in Owing(runs) /\ t # e
  <2>1. "free" \notin InFlight  BY DEF InFlight
  <2> QED  BY <2>1, <1>2, <1>3 DEF Owing
<1>5. RunsInv(rt, ReleasedEntry(f))
  <2>1. rt \in [Slots -> RunType]
    BY <1>2, <1>3 DEF ReleasedRuns
  <2>2. ReleasedEntry(f) \in [Keys -> Slots \cup {None}]
    BY DEF ReleasedEntry, RunsInv
  <2>3. ASSUME NEW j \in Keys, ReleasedEntry(f)[j] # None
        PROVE  /\ rt[ReleasedEntry(f)[j]].key = j
               /\ rt[ReleasedEntry(f)[j]].phase # "free"
    <3>1. j # f /\ ReleasedEntry(f)[j] = entry[j] /\ entry[j] \in Slots
      BY <2>3, <1>1 DEF ReleasedEntry, RunsInv
    <3>2. runs[entry[j]].key = j /\ runs[entry[j]].phase # "free"
      BY <3>1, <2>3 DEF RunsInv
    <3>3. entry[j] # e
      BY <3>1, <3>2, <1>1, ActorAssumption DEF RunsInv
    <3> QED  BY <3>1, <3>2, <3>3, <1>2
  <2>4. ASSUME NEW t \in Slots, rt[t].phase = "timer"  PROVE  ~rt[t].released
    BY <2>4, <1>2, <1>3 DEF RunsInv
  <2>5. ASSUME NEW t \in Slots, rt[t].phase \in {"timer"} \cup InFlight,
               ~rt[t].aborted
        PROVE  ReleasedEntry(f)[rt[t].key] = t
    <3>1. t # e
      <4> SUFFICES ASSUME t = e PROVE FALSE  OBVIOUS
      <4>1. rt[t] = Release(runs[t])  BY <1>2
      <4> QED  BY <4>1, <2>5, <1>3 DEF InFlight
    <3>2. rt[t] = runs[t]  BY <3>1, <1>2
    <3>3. entry[runs[t].key] = t /\ runs[t].key \in Keys
      BY <3>2, <2>5, <1>2 DEF RunsInv, RunType
    <3> QED  BY <3>1, <3>2, <3>3 DEF ReleasedEntry, RunsInv
  <2> QED  BY <2>1, <2>2, <2>3, <2>4, <2>5 DEF RunsInv
<1>6. CountsInv(rt, ReleasedActive(f), ReleasedCounts(f), n)
  <2>1. Owing(rt) = Owing(runs) \ {e}
    BY <1>4 DEF Owing
  <2>2. \A t \in Owing(rt) : runs[t].key = rt[t].key
    BY <2>1, <1>2 DEF Owing
  <2>3. CASE InFlightAt(f)
    <3>1. e \in Slots /\ runs[e].key = f
      BY <2>3, <1>1 DEF InFlightAt, RunsInv
    <3>2. CountsInv(rt, Monus(active, 1), [counts EXCEPT ![f] = Monus(@, 1)], n)
      BY <3>1, <2>1, <2>2, <1>1, OneLessOwing
    <3> QED  BY <3>2, <2>3 DEF ReleasedActive, ReleasedCounts
  <2>4. CASE ~InFlightAt(f)
    <3>1. e \notin Owing(runs)
      BY <2>4, <1>1, ActorAssumption DEF InFlightAt, Owing
    <3>2. \A t \in Slots : /\ t \in Owing(runs) <=> t \in Owing(rt)
                           /\ t \in Owing(runs) => runs[t].key = rt[t].key
      BY <3>1, <1>4, <2>2
    <3>3. CountsInv(rt, active, counts, n)  BY <3>2, SameOwing
    <3> QED  BY <3>3, <2>4 DEF ReleasedActive, ReleasedCounts
  <2> QED  BY <2>3, <2>4
<1> QED  BY <1>5, <1>6

(* cancelFieldValidation: every run that could still commit was in the map, *)
(* so none is left that could; the counters only go down.                   *)
LEMMA CancelKeepsInv ==
    ASSUME NEW n \in Nat, NEW act,
           RunsInv(runs, entry), CountsInv(runs, act, counts, n)
    PROVE  /\ RunsInv(CancelledRuns, NoEntries)
           /\ CountsInv(CancelledRuns, CancelledActive(act), CancelledCounts, n)
<1> DEFINE rt == CancelledRuns
<1>1. \A t \in Slots : runs[t] \in RunType /\ rt[t] =
          IF \E k \in Keys : entry[k] = t THEN Abort(runs[t]) ELSE runs[t]
  BY DEF RunsInv, CancelledRuns
<1>2. \A t \in Slots :
         /\ Abort(runs[t]) \in RunType /\ Abort(runs[t]).phase # "timer"
         /\ runs[t].phase \in InFlight =>
              /\ Abort(runs[t]).phase = runs[t].phase
              /\ Abort(runs[t]).key = runs[t].key
              /\ Abort(runs[t]).aborted
              /\ Abort(runs[t]).released = runs[t].released
         /\ runs[t].phase \notin InFlight => Abort(runs[t]).phase = "free"
  <2>1. \A t \in Slots : runs[t].released \in BOOLEAN  BY <1>1 DEF RunType
  <2> QED  BY <1>1, <2>1, OrphanFacts DEF Abort
<1>3. RunsInv(rt, NoEntries)
  <2>1. rt \in [Slots -> RunType]  BY <1>1, <1>2 DEF CancelledRuns
  <2>2. NoEntries \in [Keys -> Slots \cup {None}] /\ \A k \in Keys : NoEntries[k] = None
    BY DEF NoEntries
  <2>3. ASSUME NEW t \in Slots, rt[t].phase = "timer"  PROVE  ~rt[t].released
    BY <2>3, <1>1, <1>2 DEF RunsInv
  <2>4. ASSUME NEW t \in Slots, rt[t].phase \in {"timer"} \cup InFlight,
               ~rt[t].aborted
        PROVE  FALSE
    <3>1. CASE \E k \in Keys : entry[k] = t
      BY <3>1, <2>4, <1>1, <1>2 DEF InFlight
    <3>2. CASE ~\E k \in Keys : entry[k] = t
      <4>1. rt[t] = runs[t] /\ runs[t].key \in Keys
        BY <3>2, <1>1 DEF RunType
      <4> QED  BY <4>1, <3>2, <2>4 DEF RunsInv
    <3> QED  BY <3>1, <3>2
  <2> QED  BY <2>1, <2>2, <2>3, <2>4 DEF RunsInv
<1>4. CountsInv(rt, act, counts, n)
  <2>1. "free" \notin InFlight  BY DEF InFlight
  <2>2. \A t \in Slots : /\ t \in Owing(runs) <=> t \in Owing(rt)
                         /\ t \in Owing(runs) => runs[t].key = rt[t].key
    BY <2>1, <1>1, <1>2 DEF Owing
  <2> QED  BY <2>2, SameOwing
<1>5. CancelledActive(act) \in Nat /\ CancelledActive(act) <= act
  <2>1. IsFiniteSet(Keys)
    BY DataAssumption, FS_AddElement DEF Keys
  <2>2. {k \in Keys : InFlightAt(k)} \in SUBSET Keys  OBVIOUS
  <2>3. Cardinality({k \in Keys : InFlightAt(k)}) \in Nat
    BY <2>1, <2>2, FS_Subset, FS_CardinalityType
  <2> QED  BY <2>3, <1>4, MonusType DEF CancelledActive, CountsInv
<1>6. CancelledCounts \in [Keys -> Nat]
      /\ \A k \in Keys : CancelledCounts[k] <= counts[k]
  <2>1. \A k \in Keys : counts[k] \in Nat  BY <1>4 DEF CountsInv
  <2>2. \A k \in Keys : Monus(counts[k], 1) \in Nat /\ Monus(counts[k], 1) <= counts[k]
    BY <2>1, MonusType
  <2> QED  BY <2>1, <2>2 DEF CancelledCounts
<1>7. CountsInv(rt, CancelledActive(act), CancelledCounts, n)
  BY <1>4, <1>5, <1>6, OwingFinite DEF CountsInv
<1> QED  BY <1>3, <1>7

-----------------------------------------------------------------------------
(* The invariant.                                                           *)

LEMMA InitIInv == Init => IInv
<1> SUFFICES ASSUME Init PROVE IInv  OBVIOUS
<1>1. OwingCalls = {} /\ Owing(runs) = {} /\ \A k \in Keys : OwingAt(runs, k) = {}
  BY DEF Init, OwingCalls, Owing, OwingAt, IdleCall, FreeRun, InFlight
<1>2. RestType
  BY DataAssumption, NoDataType
  DEF Init, RestType, CallType, CallPhases, IdleCall, Keys
<1>3. RunsInv(runs, entry)
  BY FreeRunType, ActorAssumption DEF Init, RunsInv, NoEntries, InFlight
<1>4. CountsInv(runs, active, counts, Cardinality(OwingCalls))
  BY <1>1, FS_EmptySet DEF Init, CountsInv
<1> QED  BY <1>2, <1>3, <1>4 DEF IInv

(* A run that changes phase in flight still owes what it owed.              *)
LEMMA RunMovesOn ==
    ASSUME NEW s \in Slots, NEW r \in RunType, NEW n,
           RunsInv(runs, entry), CountsInv(runs, active, counts, n),
           runs[s].phase \in InFlight, r.phase \in InFlight,
           r.key = runs[s].key, r.released = runs[s].released,
           r.aborted = runs[s].aborted
    PROVE  /\ RunsInv([runs EXCEPT ![s] = r], entry)
           /\ CountsInv([runs EXCEPT ![s] = r], active, counts, n)
<1> DEFINE rt == [runs EXCEPT ![s] = r]
<1>1. rt \in [Slots -> RunType]  BY DEF RunsInv
<1>2. rt[s] = r /\ \A t \in Slots : t # s => rt[t] = runs[t]  BY DEF RunsInv
<1>3. "timer" \notin InFlight /\ "free" \notin InFlight  BY DEF InFlight
<1>4. RunsInv(rt, entry)
  <2>1. \A k \in Keys : entry[k] # None => rt[entry[k]].key = k /\ rt[entry[k]].phase # "free"
    BY <1>2, <1>3 DEF RunsInv
  <2>2. \A t \in Slots : rt[t].phase = "timer" => ~rt[t].released
    BY <1>2, <1>3 DEF RunsInv
  <2>3. \A t \in Slots : rt[t].phase \in {"timer"} \cup InFlight /\ ~rt[t].aborted
                            => entry[rt[t].key] = t
    BY <1>2 DEF RunsInv
  <2> QED  BY <1>1, <2>1, <2>2, <2>3 DEF RunsInv
<1>5. CountsInv(rt, active, counts, n)
  <2>1. \A t \in Slots : /\ t \in Owing(runs) <=> t \in Owing(rt)
                         /\ t \in Owing(runs) => runs[t].key = rt[t].key
    BY <1>2 DEF Owing
  <2> QED  BY <2>1, SameOwing
<1> QED  BY <1>4, <1>5

(* Calls that come and go one at a time.                                    *)
LEMMA OneMoreCall ==
    ASSUME NEW c \in Callers, c \notin OwingCalls,
           OwingCalls' = OwingCalls \cup {c}
    PROVE  Cardinality(OwingCalls') = Cardinality(OwingCalls) + 1
  BY OwingCallsFinite, FS_AddElement

LEMMA OneLessCall ==
    ASSUME NEW c \in Callers, c \in OwingCalls, OwingCalls' = OwingCalls \ {c}
    PROVE  /\ Cardinality(OwingCalls') = Cardinality(OwingCalls) - 1
           /\ Cardinality(OwingCalls) - 1 \in Nat
<1>1. /\ Cardinality(OwingCalls \ {c}) = Cardinality(OwingCalls) - 1
      /\ IsFiniteSet(OwingCalls \ {c})
  BY OwingCallsFinite, FS_RemoveElement
<1>2. Cardinality(OwingCalls \ {c}) \in Nat  BY <1>1, FS_CardinalityType
<1> QED  BY <1>1, <1>2

LEMMA NewCallType ==
    ASSUME NEW k \in Keys, NEW kind \in {"probe", "commit", "submit"}, RestType
    PROVE  NewCall(kind, k) \in CallType
  BY ReadType DEF NewCall, CallType, CallPhases, RestType

(* A new call: the owing calls gain it.                                     *)
LEMMA CallStarts ==
    ASSUME NEW c \in Callers, NEW k \in Keys,
           NEW kind \in {"probe", "commit", "submit"}, RestType,
           calls[c].phase = "idle", calls' = [calls EXCEPT ![c] = NewCall(kind, k)]
    PROVE  /\ calls' \in [Callers -> CallType]
           /\ Cardinality(OwingCalls') = Cardinality(OwingCalls) + 1
<1>1. calls' \in [Callers -> CallType]
  BY NewCallType DEF RestType
<1>2. c \notin OwingCalls  BY DEF OwingCalls
<1>3. calls'[c].phase = "waiting" /\ \A d \in Callers : d # c => calls'[d] = calls[d]
  BY DEF RestType, NewCall
<1>4. OwingCalls' = OwingCalls \cup {c}  BY <1>3 DEF OwingCalls
<1> QED  BY <1>1, <1>2, <1>4, OneMoreCall

(* What the actions that touch no call leave alone.                         *)
LEMMA CallsUnchanged ==
    ASSUME UNCHANGED calls
    PROVE  OwingCalls' = OwingCalls
  BY DEF OwingCalls

LEMMA StepIInv == IInv /\ [Next]_vars => IInv'
<1> SUFFICES ASSUME IInv, [Next]_vars PROVE IInv'  OBVIOUS
<1> DEFINE n == Cardinality(OwingCalls)
<1>n. n \in Nat  BY OwingCallsFinite
<1>i. RestType /\ RunsInv(runs, entry) /\ CountsInv(runs, active, counts, n)
  BY DEF IInv
<1> HIDE DEF n
<1>r. Root \in Keys /\ Fields \subseteq Keys  BY DEF Keys
<1>1. ASSUME NEW f \in Fields, NEW v \in Values, NEW immediate \in BOOLEAN,
             Write(f, v, immediate)
      PROVE  IInv'
  <2>1. val' \in [Fields -> Values]  BY <1>1, <1>i DEF Write, RestType
  <2>2. Schedule(runs, entry, active, counts, f, immediate, val')  BY <1>1 DEF Write
  <2>3. /\ RunsInv(runs', entry') /\ CountsInv(runs', active', counts', n)
        /\ scheduleEpoch' \in Nat
    BY <2>1, <2>2, <1>i, <1>n, <1>r, ScheduleKeepsInv DEF RestType
  <2>4. n = Cardinality(OwingCalls')  BY <1>1, CallsUnchanged DEF Write, n
  <2> QED  BY <2>1, <2>3, <2>4, <1>1, <1>i DEF Write, IInv, RestType
<1>2. ASSUME NEW u \in Unions, NEW v \in Values, NEW immediate \in BOOLEAN,
             Reshape(u, v, immediate)
      PROVE  IInv'
  <2>1. val' \in [Fields -> Values]  BY <1>2, <1>i DEF Reshape, RestType
  <2>2. u \in Keys /\ u \in Fields  BY DataAssumption DEF Keys
  <2>3. n = Cardinality(OwingCalls')  BY <1>2, CallsUnchanged DEF Reshape, n
  <2>4. CASE v \in SyncVariants
    <3>1. /\ cell' = [cell EXCEPT ![u] = v]
          /\ runs' = [s \in Slots |-> IF entry[u] = s THEN Abort(runs[s]) ELSE runs[s]]
          /\ entry' = [entry EXCEPT ![u] = None]
          /\ UNCHANGED <<scheduleEpoch, active, counts>>
      BY <1>2, <2>4 DEF Reshape
    <3>2. \A t \in Slots : runs[t] \in RunType /\ runs[t].released \in BOOLEAN
      BY <1>i DEF RunsInv, RunType
    <3>3. \A t \in Slots :
             /\ Abort(runs[t]) \in RunType /\ Abort(runs[t]).phase # "timer"
             /\ runs[t].phase \in InFlight =>
                  /\ Abort(runs[t]).phase = runs[t].phase
                  /\ Abort(runs[t]).key = runs[t].key
                  /\ Abort(runs[t]).aborted
                  /\ Abort(runs[t]).released = runs[t].released
             /\ runs[t].phase \notin InFlight => Abort(runs[t]).phase = "free"
      BY <3>2, OrphanFacts DEF Abort
    <3>4. "free" \notin InFlight  BY DEF InFlight
    <3>5. RunsInv(runs', entry')
      <4>1. runs' \in [Slots -> RunType] /\ entry' \in [Keys -> Slots \cup {None}]
        BY <3>1, <3>2, <3>3, <1>i DEF RunsInv
      <4>2. ASSUME NEW j \in Keys, entry'[j] # None
            PROVE  runs'[entry'[j]].key = j /\ runs'[entry'[j]].phase # "free"
        <5>1. j # u /\ entry'[j] = entry[j] /\ entry[j] \in Slots
          BY <4>2, <3>1, <2>2, <1>i DEF RunsInv
        <5>2. runs[entry[j]].key = j /\ runs[entry[j]].phase # "free"
          BY <5>1, <4>2, <1>i DEF RunsInv
        <5>3. entry[j] # entry[u]
          BY <5>1, <5>2, <2>2, <1>i, ActorAssumption DEF RunsInv
        <5> QED  BY <5>1, <5>2, <5>3, <3>1
      <4>3. \A t \in Slots : runs'[t].phase = "timer" => ~runs'[t].released
        BY <3>1, <3>3, <1>i DEF RunsInv
      <4>4. ASSUME NEW t \in Slots, runs'[t].phase \in {"timer"} \cup InFlight,
                   ~runs'[t].aborted
            PROVE  entry'[runs'[t].key] = t
        <5>1. t # entry[u]
          <6> SUFFICES ASSUME t = entry[u] PROVE FALSE  OBVIOUS
          <6>1. runs'[t] = Abort(runs[t])  BY <3>1
          <6> QED  BY <6>1, <4>4, <3>3, <3>4
        <5>2. runs'[t] = runs[t]  BY <5>1, <3>1
        <5>3. entry[runs[t].key] = t /\ runs[t].key \in Keys
          BY <5>2, <4>4, <3>2, <1>i DEF RunsInv, RunType
        <5> QED  BY <5>1, <5>2, <5>3, <3>1, <1>i DEF RunsInv
      <4> QED  BY <4>1, <4>2, <4>3, <4>4 DEF RunsInv
    <3>6. CountsInv(runs', active', counts', n)
      <4>1. \A t \in Slots : /\ t \in Owing(runs) <=> t \in Owing(runs')
                             /\ t \in Owing(runs) => runs[t].key = runs'[t].key
        BY <3>1, <3>3, <3>4 DEF Owing
      <4>2. CountsInv(runs', active, counts, n)  BY <4>1, <1>i, SameOwing
      <4> QED  BY <4>2, <3>1
    <3>7. cell' \in [Fields -> Values \cup {Unjudged}]
      BY <3>1, <2>2, <1>i DEF RestType
    <3> QED  BY <3>1, <3>5, <3>6, <3>7, <2>1, <2>3, <1>2, <1>i
             DEF Reshape, IInv, RestType
  <2>5. CASE v \notin SyncVariants
    <3>1. Schedule(runs, entry, active, counts, u, immediate, val') /\ UNCHANGED cell
      BY <1>2, <2>5 DEF Reshape
    <3>2. /\ RunsInv(runs', entry') /\ CountsInv(runs', active', counts', n)
          /\ scheduleEpoch' \in Nat
      BY <2>1, <2>2, <3>1, <1>i, <1>n, ScheduleKeepsInv DEF RestType
    <3> QED  BY <3>1, <3>2, <2>1, <2>3, <1>2, <1>i DEF Reshape, IInv, RestType
  <2> QED  BY <2>4, <2>5
<1>3. ASSUME NEW f \in Resettable, NEW immediate \in BOOLEAN, ResetField(f, immediate)
      PROVE  IInv'
  <2>1. f \in Fields /\ f \in Keys  BY <1>r, DataAssumption
  <2>2. /\ val' \in [Fields -> Values]
        /\ cell' \in [Fields -> Values \cup {Unjudged}]
    BY <1>3, <1>i, DataAssumption DEF ResetField, RestType
  <2>3. n = Cardinality(OwingCalls')  BY <1>3, CallsUnchanged DEF ResetField, n
  <2>4. /\ RunsInv(ReleasedRuns(f), ReleasedEntry(f))
        /\ CountsInv(ReleasedRuns(f), ReleasedActive(f), ReleasedCounts(f), n)
    BY <2>1, <1>i, <1>n, ReleaseKeepsInv
  <2>5. CASE RestoreSchedules(f)
    <3>1. Schedule(ReleasedRuns(f), ReleasedEntry(f), ReleasedActive(f),
                   ReleasedCounts(f), f, immediate, val')
      BY <1>3, <2>5 DEF ResetField
    <3>2. /\ RunsInv(runs', entry') /\ CountsInv(runs', active', counts', n)
          /\ scheduleEpoch' \in Nat
      BY <3>1, <2>1, <2>2, <2>4, <1>i, <1>n, ScheduleKeepsInv DEF RestType
    <3> QED  BY <3>2, <2>2, <2>3, <1>3, <1>i DEF ResetField, IInv, RestType
  <2>6. CASE ~RestoreSchedules(f)
    <3>1. /\ runs' = ReleasedRuns(f) /\ entry' = ReleasedEntry(f)
          /\ active' = ReleasedActive(f) /\ counts' = ReleasedCounts(f)
          /\ UNCHANGED scheduleEpoch
      BY <1>3, <2>6 DEF ResetField
    <3> QED  BY <3>1, <2>2, <2>3, <2>4, <1>3, <1>i DEF ResetField, IInv, RestType
  <2> QED  BY <2>5, <2>6
<1>4. ASSUME Reset  PROVE IInv'
  <2>1. n = Cardinality(OwingCalls')  BY <1>4, CallsUnchanged DEF Reset, n
  <2>2. /\ RunsInv(CancelledRuns, NoEntries)
        /\ CountsInv(CancelledRuns, CancelledActive(active), CancelledCounts, n)
    BY <1>i, <1>n, CancelKeepsInv
  <2>3. RestType'
    BY <1>4, <1>i, DataAssumption DEF Reset, RestType
  <2> QED  BY <2>1, <2>2, <2>3, <1>4 DEF Reset, IInv
<1>5. ASSUME StartInitialPass  PROVE IInv'
  <2>1. n = Cardinality(OwingCalls')  BY <1>5, CallsUnchanged DEF StartInitialPass, n
  <2>2. Schedule(runs, entry, active, counts, Root, TRUE, val)
    BY <1>5 DEF StartInitialPass
  <2>3. /\ RunsInv(runs', entry') /\ CountsInv(runs', active', counts', n)
        /\ scheduleEpoch' \in Nat
    BY <2>2, <1>i, <1>n, <1>r, ScheduleKeepsInv DEF RestType
  <2> QED  BY <2>1, <2>3, <1>5, <1>i DEF StartInitialPass, IInv, RestType
<1>6. ASSUME NEW s \in Slots, TimerFires(s)  PROVE IInv'
  <2> DEFINE data == Read(val, RunScope(runs[s].key))
  <2>1. n = Cardinality(OwingCalls')  BY <1>6, CallsUnchanged DEF TimerFires, n
  <2>2. runs[s] \in RunType /\ runs[s].key \in Keys  BY <1>i DEF RunsInv, RunType
  <2>3. data \in [Fields -> Values]  BY <1>i, ReadType DEF RestType
  <2> HIDE DEF data
  <2>4. /\ runs' = [runs EXCEPT ![s] = [@ EXCEPT !.phase = "started", !.data = data]]
        /\ runs[s].phase = "timer"
    BY <1>6 DEF TimerFires, data
  <2>5. /\ runs'[s] \in RunType /\ runs'[s].phase = "started"
        /\ runs'[s].key = runs[s].key /\ runs'[s].aborted = runs[s].aborted
        /\ runs'[s].released = runs[s].released
    BY <2>2, <2>3, <2>4, <1>i DEF RunsInv, RunType, RunPhases
  <2>6. \A t \in Slots : t # s => runs'[t] = runs[t]
    BY <2>4, <1>i DEF RunsInv
  <2>7. ~runs[s].released  BY <2>4, <1>i DEF RunsInv
  <2>8. RunsInv(runs', entry)
    <3>1. runs' \in [Slots -> RunType]
      BY <2>4, <2>5, <2>6, <1>i DEF RunsInv
    <3>2. \A k \in Keys : entry[k] # None
             => runs'[entry[k]].key = k /\ runs'[entry[k]].phase # "free"
      BY <2>5, <2>6, <1>i DEF RunsInv
    <3>3. \A t \in Slots : runs'[t].phase = "timer" => ~runs'[t].released
      BY <2>5, <2>6, <1>i DEF RunsInv
    <3>4. \A t \in Slots : runs'[t].phase \in {"timer"} \cup InFlight /\ ~runs'[t].aborted
                              => entry[runs'[t].key] = t
      BY <2>4, <2>5, <2>6, <1>i DEF RunsInv
    <3> QED  BY <3>1, <3>2, <3>3, <3>4, <1>i DEF RunsInv
  <2>9. CountsInv(runs', active', counts', n)
    <3>1. s \notin Owing(runs)  BY <2>4 DEF Owing, InFlight
    <3>2. s \in Owing(runs')  BY <2>5, <2>7 DEF Owing, InFlight
    <3>3. \A t \in Slots : t # s => (t \in Owing(runs') <=> t \in Owing(runs))
      BY <2>6 DEF Owing
    <3>4. Owing(runs) \subseteq Slots /\ Owing(runs') \subseteq Slots  BY DEF Owing
    <3>5. Owing(runs') = Owing(runs) \cup {s}  BY <3>2, <3>3, <3>4
    <3>6. \A t \in Owing(runs) : runs[t].key = runs'[t].key  BY <2>6, <3>1, <3>4
    <3>7. CountsInv(runs', active + 1, [counts EXCEPT ![runs[s].key] = @ + 1], n)
      BY <3>1, <3>5, <3>6, <2>2, <2>5, <1>i, <1>n, OneMoreOwing
    <3> QED  BY <3>7, <1>6 DEF TimerFires
  <2> QED  BY <2>1, <2>8, <2>9, <1>6, <1>i DEF TimerFires, IInv, RestType
<1>7. ASSUME NEW s \in Slots, Parse(s) \/ Commit(s) \/ Drop(s)  PROVE IInv'
  <2>1. n = Cardinality(OwingCalls')
    BY <1>7, CallsUnchanged DEF Parse, Commit, Drop, n
  <2>2. runs[s] \in RunType /\ runs[s].data \in [Fields -> Values]
        /\ runs[s].phase \in InFlight
    BY <1>7, <1>i DEF RunsInv, RunType, Parse, Commit, Drop, InFlight
  <2>3. /\ runs' = [runs EXCEPT ![s] = runs'[s]] /\ runs'[s] \in RunType
        /\ runs'[s].phase \in InFlight /\ runs'[s].key = runs[s].key
        /\ runs'[s].released = runs[s].released /\ runs'[s].aborted = runs[s].aborted
    <3>1. CASE Parse(s)
      <4> DEFINE d == IF runs[s].aborted \/ Scoped(runs[s].key) THEN runs[s].data
                      ELSE Read(val, Fields)
      <4>1. d \in [Fields -> Values]  BY <2>2, <1>i, ReadType DEF RestType
      <4>2. runs' = [runs EXCEPT ![s] = [@ EXCEPT !.phase = "waiting", !.data = d]]
        BY <3>1, <1>i DEF Parse, RunsInv
      <4> HIDE DEF d
      <4> QED  BY <4>1, <4>2, <2>2, <1>i DEF RunsInv, RunType, RunPhases, InFlight
    <3>2. CASE Commit(s) \/ Drop(s)
      <4>1. runs' = [runs EXCEPT ![s] = [@ EXCEPT !.phase = "closing", !.epoch = 0,
                                                  !.data = NoData]]
        BY <3>2 DEF Commit, Drop, Closing
      <4> QED  BY <4>1, <2>2, <1>i, NoDataType DEF RunsInv, RunType, RunPhases, InFlight
    <3> QED  BY <3>1, <3>2, <1>7
  <2>4. RunsInv(runs', entry) /\ CountsInv(runs', active, counts, n)
    BY <2>2, <2>3, <1>i, RunMovesOn
  <2>5. cell' \in [Fields -> Values \cup {Unjudged}]
    BY <1>7, <2>2, <1>i, VerdictType DEF Parse, Commit, Drop, RestType
  <2>6. lastCommitted' \in Nat
    BY <1>7, <2>2, <1>i DEF Parse, Commit, Drop, RestType, RunType
  <2> QED  BY <2>1, <2>4, <2>5, <2>6, <1>7, <1>i DEF Parse, Commit, Drop, IInv, RestType
<1>8. ASSUME NEW s \in Slots, Finally(s)  PROVE IInv'
  <2>1. n = Cardinality(OwingCalls')  BY <1>8, CallsUnchanged DEF Finally, n
  <2>2. runs[s] \in RunType /\ runs[s].key \in Keys /\ runs[s].phase = "closing"
    BY <1>8, <1>i DEF RunsInv, RunType, Finally
  <2>3. runs' = [runs EXCEPT ![s] = SettledRun(s)]  BY <1>8 DEF Finally
  <2>4. /\ SettledRun(s) \in RunType /\ ~SettledRun(s).released
        /\ SettledRun(s).phase \in {"free", "settled"}
        /\ entry[runs[s].key] = s
              => SettledRun(s).phase = "settled" /\ SettledRun(s).key = runs[s].key
    BY <2>2, NoDataType DEF SettledRun, FreeRun, RunType, RunPhases, Keys
  <2>5. runs'[s] = SettledRun(s) /\ \A t \in Slots : t # s => runs'[t] = runs[t]
    BY <2>3, <1>i DEF RunsInv
  <2>6. RunsInv(runs', entry)
    <3>1. runs' \in [Slots -> RunType]  BY <2>3, <2>4, <1>i DEF RunsInv
    <3>2. ASSUME NEW k \in Keys, entry[k] # None
          PROVE  runs'[entry[k]].key = k /\ runs'[entry[k]].phase # "free"
      <4>1. entry[k] \in Slots /\ runs[entry[k]].key = k /\ runs[entry[k]].phase # "free"
        BY <3>2, <1>i DEF RunsInv
      <4> QED  BY <4>1, <2>4, <2>5
    <3>3. \A t \in Slots : runs'[t].phase = "timer" => ~runs'[t].released
      BY <2>4, <2>5, <1>i DEF RunsInv
    <3>4. \A t \in Slots : runs'[t].phase \in {"timer"} \cup InFlight /\ ~runs'[t].aborted
                              => entry[runs'[t].key] = t
      BY <2>4, <2>5, <1>i DEF RunsInv, InFlight
    <3> QED  BY <3>1, <3>2, <3>3, <3>4, <1>i DEF RunsInv
  <2>7. CountsInv(runs', active', counts', n)
    <3>1. s \notin Owing(runs')  BY <2>4, <2>5 DEF Owing, InFlight
    <3>2. \A t \in Slots : t # s => (t \in Owing(runs') <=> t \in Owing(runs))
      BY <2>5 DEF Owing
    <3>3. Owing(runs) \subseteq Slots /\ Owing(runs') \subseteq Slots  BY DEF Owing
    <3>4. Owing(runs') = Owing(runs) \ {s}  BY <3>1, <3>2, <3>3
    <3>5. \A t \in Owing(runs') : runs[t].key = runs'[t].key  BY <2>5, <3>1, <3>3
    <3>6. CASE runs[s].released
      <4>1. s \notin Owing(runs)  BY <3>6 DEF Owing
      <4>2. \A t \in Slots : /\ t \in Owing(runs) <=> t \in Owing(runs')
                             /\ t \in Owing(runs) => runs[t].key = runs'[t].key
        BY <4>1, <3>4, <3>5
      <4>3. CountsInv(runs', active, counts, n)  BY <4>2, <1>i, SameOwing
      <4> QED  BY <4>3, <3>6, <1>8 DEF Finally, Owes
    <3>7. CASE ~runs[s].released
      <4>1. CountsInv(runs', Monus(active, 1),
                      [counts EXCEPT ![runs[s].key] = Monus(@, 1)], n)
        BY <3>4, <3>5, <2>2, <1>i, <1>n, OneLessOwing
      <4> QED  BY <4>1, <3>7, <1>8 DEF Finally, Owes
    <3> QED  BY <3>6, <3>7
  <2> QED  BY <2>1, <2>6, <2>7, <1>8, <1>i DEF Finally, IInv, RestType
<1>9. ASSUME NEW c \in Callers, NEW k \in Keys, StartProbe(c, k)  PROVE IInv'
  <2>1. /\ calls' \in [Callers -> CallType]
        /\ Cardinality(OwingCalls') = n + 1
    BY <1>9, <1>i, CallStarts DEF StartProbe, n
  <2>2. CountsInv(runs, active + 1, counts, n + 1)
    BY <1>i, <1>n, OwingFinite DEF CountsInv
  <2> QED  BY <2>1, <2>2, <1>9, <1>i DEF StartProbe, IInv, RestType, RunsInv, CountsInv,
              Owing, OwingAt
<1>10. ASSUME NEW c \in Callers, NEW k \in Keys, StartCommittingParse(c, k)  PROVE IInv'
  <2>1. /\ calls' \in [Callers -> CallType]
        /\ Cardinality(OwingCalls') = n + 1
    BY <1>10, <1>i, CallStarts DEF StartCommittingParse, n
  <2>2. CountsInv(runs, active + 1, counts, n + 1)
    BY <1>i, <1>n, OwingFinite DEF CountsInv
  <2>3. /\ RunsInv(CancelledRuns, NoEntries)
        /\ CountsInv(CancelledRuns, CancelledActive(active + 1), CancelledCounts, n + 1)
    BY <2>2, <1>i, <1>n, CancelKeepsInv
  <2> QED  BY <2>1, <2>3, <1>10, <1>i DEF StartCommittingParse, IInv, RestType
<1>11. ASSUME NEW c \in Callers, StartSubmit(c)  PROVE IInv'
  <2>1. /\ calls' \in [Callers -> CallType]
        /\ Cardinality(OwingCalls') = n + 1
    BY <1>11, <1>i, <1>r, CallStarts DEF StartSubmit, n
  <2>2. /\ RunsInv(CancelledRuns, NoEntries)
        /\ CountsInv(CancelledRuns, CancelledActive(active), CancelledCounts, n)
    BY <1>i, <1>n, CancelKeepsInv
  <2>3. CountsInv(CancelledRuns, CancelledActive(active) + 1, CancelledCounts, n + 1)
    BY <2>2, <1>n, OwingFinite DEF CountsInv
  <2> QED  BY <2>1, <2>2, <2>3, <1>11, <1>i DEF StartSubmit, IInv, RestType
<1>12. ASSUME NEW c \in Callers, CallAnswer(c)  PROVE IInv'
  <2>1. calls[c] \in CallType  BY <1>i DEF RestType
  <2>2. calls' \in [Callers -> CallType]
    BY <1>12, <2>1, <1>i DEF CallAnswer, RestType, CallType, CallPhases
  <2>3. OwingCalls' = OwingCalls
    BY <1>12, <1>i DEF CallAnswer, OwingCalls, RestType
  <2>4. cell' \in [Fields -> Values \cup {Unjudged}]
    BY <1>12, <2>1, <1>i, VerdictType DEF CallAnswer, RestType, CallType
  <2> QED  BY <2>2, <2>3, <2>4, <1>12, <1>i DEF CallAnswer, IInv, RestType, n
<1>13. ASSUME NEW c \in Callers, CallFinally(c)  PROVE IInv'
  <2>1. calls[c] \in CallType  BY <1>i DEF RestType
  <2>2. /\ calls' \in [Callers -> CallType]
        /\ calls'[c].phase \in {"idle", "deciding"}
        /\ \A d \in Callers : d # c => calls'[d] = calls[d]
    BY <1>13, <2>1, <1>i, NoDataType
    DEF CallFinally, RestType, CallType, CallPhases, IdleCall, Keys
  <2>3. c \in OwingCalls /\ OwingCalls' = OwingCalls \ {c}
    BY <1>13, <2>2 DEF CallFinally, OwingCalls
  <2>4. Cardinality(OwingCalls') = n - 1 /\ n - 1 \in Nat
    BY <2>3, OneLessCall DEF n
  <2>5. CountsInv(runs, Monus(active, 1), counts, n - 1)
    BY <1>i, <1>n, <2>4, OwingFinite DEF CountsInv, Monus
  <2> QED  BY <2>2, <2>4, <2>5, <1>13, <1>i DEF CallFinally, IInv, RestType, RunsInv,
              CountsInv, Owing, OwingAt
<1>14. ASSUME NEW c \in Callers, SubmitDecides(c)  PROVE IInv'
  <2>1. calls[c] \in CallType  BY <1>i DEF RestType
  <2>2. calls' \in [Callers -> CallType]
    BY <1>14, <2>1, <1>i, NoDataType
    DEF SubmitDecides, RestType, CallType, CallPhases, IdleCall, Keys
  <2>3. OwingCalls' = OwingCalls
    BY <1>14, <1>i DEF SubmitDecides, OwingCalls, RestType, IdleCall
  <2>4. cell' \in [Fields -> Values \cup {Unjudged}]
    BY <1>14, <2>1, <1>i, VerdictType DEF SubmitDecides, RestType, CallType
  <2>5. activeSubmissions' \in Nat
    BY <1>14, <1>i, MonusType DEF SubmitDecides, RestType
  <2> QED  BY <2>2, <2>3, <2>4, <2>5, <1>14, <1>i DEF SubmitDecides, IInv, RestType, n
<1>15. CASE UNCHANGED vars
  BY <1>15, <1>i DEF vars, IInv, RestType, RunsInv, CountsInv, Owing, OwingAt, OwingCalls, n
<1> QED
  BY <1>1, <1>2, <1>3, <1>4, <1>5, <1>6, <1>7, <1>8, <1>9, <1>10, <1>11, <1>12,
     <1>13, <1>14, <1>15 DEF Next, RunStep, CallStep

-----------------------------------------------------------------------------
LEMMA InvariantHolds == Spec => []IInv
  BY InitIInv, StepIInv, PTL DEF Spec

(* The store's variables always hold what their declarations say: above all *)
(* the clamped counters never go negative.                                  *)
THEOREM TypeCorrect == Spec => []TypeOK
<1>1. IInv => TypeOK
  BY DEF IInv, TypeOK, RestType, RunsInv, CountsInv
<1> QED  BY <1>1, InvariantHolds, PTL

(* However many runs are scheduled, superseded, released or cancelled, each *)
(* one that may still commit can be reached by a cancel.                    *)
THEOREM RunsAreTracked == Spec => []Tracked
<1>1. IInv => Tracked
  BY DEF IInv, Tracked, RunsInv
<1> QED  BY <1>1, InvariantHolds, PTL

(* The busy counters never exceed the work that will count them down.       *)
THEOREM CountersNeverLeak == Spec => []NoLeak
<1>1. IInv => NoLeak
  BY DEF IInv, NoLeak, CountsInv
<1> QED  BY <1>1, InvariantHolds, PTL

-----------------------------------------------------------------------------
(* VerdictsCurrent, for the configuration in which the code promises it     *)
(* without exception: whole-form runs, an adapter that answers, no union    *)
(* reshaped in place, no field reset on its own, and no imperative pass that*)
(* commits.                                                                 *)
WholeFormRuns ==
    /\ ~SubtreeScope /\ ~AdapterThrows
    /\ Unions = {} /\ Resettable = {}
    /\ CallKinds \subseteq {"probe"}

MayStillCommit(r) == r.phase \in {"timer", "started", "waiting"} /\ ~r.aborted

(* The invariant orders the epochs of all runs in flight.  The one scheduled*)
(* last judges the form as it is; and it is still to commit, or has, after  *)
(* which the gate stops every other, or a pass that follows it is queued.   *)
NewestToCome ==
    /\ lastCommitted < scheduleEpoch
    /\ \E s \in Slots : MayStillCommit(runs[s]) /\ runs[s].epoch = scheduleEpoch
NewestHasCome ==
    /\ cell = val
    /\ \A s \in Slots : MayStillCommit(runs[s]) => runs[s].epoch <= lastCommitted

EpochInv ==
    /\ lastCommitted <= scheduleEpoch
    /\ \A s \in Slots : MayStillCommit(runs[s]) => runs[s].epoch <= scheduleEpoch
    /\ \A s \in Slots :
          MayStillCommit(runs[s]) /\ runs[s].epoch = scheduleEpoch
             /\ runs[s].phase = "waiting" => runs[s].data = val
    /\ NewestToCome \/ NewestHasCome \/ queued > 0
    /\ \A c \in Callers : calls[c].kind = "probe" /\ calls[c].phase # "deciding"

LEMMA OrphansAreSpent ==
    ASSUME NEW r, NEW released
    PROVE  ~MayStillCommit(Orphan(r, released))
  BY DEF MayStillCommit, Orphan, FreeRun

LEMMA WholeFormRead ==
    ASSUME WholeFormRuns, NEW k, NEW v \in [Fields -> Values]
    PROVE  /\ ~Scoped(k) /\ RunScope(k) = Fields /\ Read(v, Fields) = v
           /\ Verdict(v, Fields) = v
  BY DEF WholeFormRuns, Scoped, RunScope, Read, Verdict

(* A schedule: the new run is the newest, and its verdict is to come.       *)
LEMMA ScheduleIsNewest ==
    ASSUME IInv, EpochInv, WholeFormRuns, NEW k \in Keys, NEW immediate \in BOOLEAN, NEW v,
           Schedule(runs, entry, active, counts, k, immediate, v),
           UNCHANGED <<lastCommitted, calls>>
    PROVE  EpochInv'
<1>1. PICK s \in Slots :
        /\ runs' = [t \in Slots |->
                      IF t = s THEN NewRun(k, immediate, v)
                      ELSE IF t = entry[k] THEN Abort(runs[t]) ELSE runs[t]]
        /\ scheduleEpoch' = scheduleEpoch + 1
  BY DEF Schedule
<1>2. scheduleEpoch \in Nat /\ lastCommitted \in Nat  BY DEF IInv, RestType
<1>3. /\ runs'[s] = NewRun(k, immediate, v)
      /\ MayStillCommit(runs'[s]) /\ runs'[s].epoch = scheduleEpoch'
      /\ runs'[s].phase # "waiting"
  BY <1>1 DEF NewRun, NextEpoch, MayStillCommit
<1>4. ASSUME NEW t \in Slots, MayStillCommit(runs'[t]), t # s
      PROVE  runs'[t] = runs[t] /\ runs'[t].epoch <= scheduleEpoch /\ runs'[t].epoch \in Nat
  <2>1. runs'[t] = runs[t]  BY <1>1, <1>4, OrphansAreSpent DEF Abort
  <2>2. runs[t].epoch \in Nat  BY DEF IInv, RunsInv, RunType
  <2> QED  BY <1>4, <2>1, <2>2 DEF EpochInv
<1>5. \A t \in Slots : MayStillCommit(runs'[t]) => runs'[t].epoch <= scheduleEpoch'
  BY <1>1, <1>2, <1>3, <1>4
<1>6. \A t \in Slots : MayStillCommit(runs'[t]) /\ runs'[t].epoch = scheduleEpoch' => t = s
  BY <1>1, <1>2, <1>4
<1>7. NewestToCome'
  <2>1. lastCommitted' < scheduleEpoch'  BY <1>1, <1>2 DEF EpochInv
  <2> QED  BY <1>3, <2>1 DEF NewestToCome, MayStillCommit
<1>8. lastCommitted' <= scheduleEpoch'  BY <1>1, <1>2 DEF EpochInv
<1> QED  BY <1>3, <1>5, <1>6, <1>7, <1>8 DEF EpochInv, MayStillCommit

(* A reset leaves no run that may commit: the map holds all of them.        *)
LEMMA ResetSpendsAll ==
    ASSUME IInv, runs' = CancelledRuns
    PROVE  \A s \in Slots : ~MayStillCommit(runs'[s])
<1> SUFFICES ASSUME NEW s \in Slots PROVE ~MayStillCommit(runs'[s])  OBVIOUS
<1>1. CASE \E k \in Keys : entry[k] = s
  BY <1>1, OrphansAreSpent DEF CancelledRuns, Abort
<1>2. CASE ~\E k \in Keys : entry[k] = s
  <2>1. runs'[s] = runs[s]  BY <1>2 DEF CancelledRuns
  <2>2. runs[s].key \in Keys  BY DEF IInv, RunsInv, RunType
  <2> QED  BY <1>2, <2>1, <2>2 DEF IInv, RunsInv, MayStillCommit, InFlight
<1> QED  BY <1>1, <1>2

(* One run moves on, and keeps its epoch as long as it may still commit.    *)
LEMMA RunMoves ==
    ASSUME IInv, EpochInv, NEW s \in Slots, NEW r, runs' = [runs EXCEPT ![s] = r],
           MayStillCommit(r) => MayStillCommit(runs[s]) /\ r.epoch = runs[s].epoch,
           MayStillCommit(r) /\ r.phase = "waiting" => r.data = val,
           MayStillCommit(runs[s]) /\ ~MayStillCommit(r) => runs[s].epoch <= lastCommitted,
           UNCHANGED <<val, cell, scheduleEpoch, lastCommitted, queued, calls>>
    PROVE  EpochInv'
<1>0. runs \in [Slots -> RunType] /\ scheduleEpoch \in Nat /\ lastCommitted \in Nat
  BY DEF IInv, RunsInv, RestType
<1>1. \A t \in Slots : runs'[t] = IF t = s THEN r ELSE runs[t]  BY <1>0
<1>2. NewestToCome => NewestToCome'
  <2> SUFFICES ASSUME NewestToCome PROVE NewestToCome'  OBVIOUS
  <2>1. PICK t \in Slots : MayStillCommit(runs[t]) /\ runs[t].epoch = scheduleEpoch
    BY DEF NewestToCome
  <2>2. t = s => MayStillCommit(r) /\ r.epoch = scheduleEpoch
    BY <1>0, <2>1 DEF NewestToCome
  <2>3. MayStillCommit(runs'[t]) /\ runs'[t].epoch = scheduleEpoch'  BY <1>1, <2>1, <2>2
  <2> QED  BY <2>3 DEF NewestToCome, MayStillCommit
<1>3. NewestHasCome => NewestHasCome'  BY <1>1 DEF NewestHasCome, MayStillCommit
<1> QED  BY <1>1, <1>2, <1>3 DEF EpochInv, MayStillCommit

LEMMA SameRuns ==
    ASSUME EpochInv,
           UNCHANGED <<val, cell, runs, scheduleEpoch, lastCommitted, queued>>,
           (\A c \in Callers : calls[c].kind = "probe" /\ calls[c].phase # "deciding")'
    PROVE  EpochInv'
  BY DEF EpochInv, NewestToCome, NewestHasCome, MayStillCommit

LEMMA StepEpochInv == WholeFormRuns /\ IInv /\ EpochInv /\ [Next]_vars => EpochInv'
<1> SUFFICES ASSUME WholeFormRuns, IInv, EpochInv, [Next]_vars PROVE EpochInv'  OBVIOUS
<1>0. /\ runs \in [Slots -> RunType] /\ scheduleEpoch \in Nat /\ lastCommitted \in Nat
      /\ val \in [Fields -> Values] /\ calls \in [Callers -> CallType]
      /\ \A s \in Slots : runs[s].epoch \in Nat
  BY DEF IInv, RunsInv, RestType, RunType
<1>1. ASSUME NEW f \in Fields, NEW v \in Values, NEW immediate \in BOOLEAN,
             Write(f, v, immediate)
      PROVE  EpochInv'
  BY <1>1, ScheduleIsNewest DEF Write, Keys
<1>2. ASSUME NEW u \in Unions PROVE FALSE  BY DEF WholeFormRuns
<1>3. ASSUME NEW f \in Resettable PROVE FALSE  BY DEF WholeFormRuns
<1>4. CASE Reset
  <2>1. /\ scheduleEpoch' = 0 /\ lastCommitted' = 0 /\ calls' = calls
        /\ runs' = CancelledRuns /\ queued \in Nat
        /\ cell' = val' \/ queued' > 0
    BY <1>4 DEF Reset, IInv, RestType
  <2>2. \A s \in Slots : ~MayStillCommit(runs'[s])  BY <2>1, ResetSpendsAll
  <2>3. NewestHasCome' \/ queued' > 0  BY <2>1, <2>2 DEF NewestHasCome, MayStillCommit
  <2> QED  BY <2>1, <2>2, <2>3 DEF EpochInv, MayStillCommit
<1>5. CASE StartInitialPass
  BY <1>5, ScheduleIsNewest DEF StartInitialPass, Keys
<1>6. ASSUME NEW s \in Slots, TimerFires(s) PROVE EpochInv'
  <2> DEFINE r == [runs[s] EXCEPT !.phase = "started", !.data = Read(val, RunScope(runs[s].key))]
  <2>1. /\ runs' = [runs EXCEPT ![s] = r] /\ runs[s].phase = "timer"
        /\ UNCHANGED <<val, cell, scheduleEpoch, lastCommitted, queued, calls>>
    BY <1>0, <1>6 DEF TimerFires
  <2>2. r.phase = "started" /\ r.aborted = runs[s].aborted /\ r.epoch = runs[s].epoch
    BY <1>0 DEF RunType
  <2> HIDE DEF r
  <2> QED  BY <2>1, <2>2, RunMoves DEF MayStillCommit
<1>7. ASSUME NEW s \in Slots, Parse(s) PROVE EpochInv'
  <2> DEFINE d == IF runs[s].aborted THEN runs[s].data ELSE val
             r == [runs[s] EXCEPT !.phase = "waiting", !.data = d]
  <2>1. /\ runs' = [runs EXCEPT ![s] = r] /\ runs[s].phase = "started"
        /\ UNCHANGED <<val, cell, scheduleEpoch, lastCommitted, queued, calls>>
    BY <1>0, <1>7, WholeFormRead DEF Parse
  <2>2. /\ r.phase = "waiting" /\ r.aborted = runs[s].aborted /\ r.epoch = runs[s].epoch
        /\ ~r.aborted => r.data = val
    BY <1>0 DEF RunType
  <2> HIDE DEF r
  <2> QED  BY <2>1, <2>2, RunMoves DEF MayStillCommit
<1>8. ASSUME NEW s \in Slots, Commit(s) PROVE EpochInv'
  <2>1. /\ runs[s].phase = "waiting" /\ ~runs[s].aborted /\ runs[s].epoch > lastCommitted
        /\ lastCommitted' = runs[s].epoch /\ runs' = [runs EXCEPT ![s] = Closing(@)]
        /\ UNCHANGED <<val, scheduleEpoch, queued, calls>>
        /\ cell' = Verdict(runs[s].data, Fields)
    BY <1>0, <1>8, WholeFormRead DEF Commit, MayCommit
  <2>2. MayStillCommit(runs[s]) /\ runs[s].epoch <= scheduleEpoch
    BY <2>1 DEF MayStillCommit, EpochInv
  <2>3. ~MayStillCommit(runs'[s]) /\ \A t \in Slots : t # s => runs'[t] = runs[t]
    BY <1>0, <2>1 DEF Closing, MayStillCommit, RunType
  <2>4. \A t \in Slots : MayStillCommit(runs'[t]) =>
           t # s /\ runs'[t] = runs[t] /\ MayStillCommit(runs[t])
    BY <2>3
  <2>5. NewestToCome' \/ NewestHasCome' \/ queued' > 0
    <3>1. CASE queued > 0  BY <2>1, <3>1
    <3>2. CASE NewestHasCome  BY <1>0, <2>1, <2>2, <3>2 DEF NewestHasCome
    <3>3. CASE NewestToCome /\ runs[s].epoch = scheduleEpoch
      <4>1. cell' = val'  BY <1>0, <2>1, <2>2, <3>3, WholeFormRead DEF EpochInv
      <4>2. \A t \in Slots : MayStillCommit(runs'[t]) => runs'[t].epoch <= lastCommitted'
        BY <2>1, <2>4, <3>3 DEF EpochInv
      <4> QED  BY <4>1, <4>2 DEF NewestHasCome, MayStillCommit
    <3>4. CASE NewestToCome /\ runs[s].epoch # scheduleEpoch
      <4>1. PICK t \in Slots : MayStillCommit(runs[t]) /\ runs[t].epoch = scheduleEpoch
        BY <3>4 DEF NewestToCome
      <4>2. t # s /\ runs'[t] = runs[t]  BY <2>3, <3>4, <4>1
      <4>3. lastCommitted' < scheduleEpoch'  BY <1>0, <2>1, <2>2, <3>4
      <4> QED  BY <2>1, <4>1, <4>2, <4>3 DEF NewestToCome, MayStillCommit
    <3> QED  BY <3>1, <3>2, <3>3, <3>4 DEF EpochInv
  <2> QED  BY <2>1, <2>2, <2>4, <2>5 DEF EpochInv, MayStillCommit
<1>9. ASSUME NEW s \in Slots, Drop(s) PROVE EpochInv'
  <2>1. /\ runs[s].phase = "waiting" /\ ~MayCommit(runs[s])
        /\ runs' = [runs EXCEPT ![s] = Closing(runs[s])]
        /\ UNCHANGED <<val, cell, scheduleEpoch, lastCommitted, queued, calls>>
    BY <1>9 DEF Drop, WholeFormRuns
  <2>2. ~MayStillCommit(Closing(runs[s]))  BY <1>0 DEF Closing, MayStillCommit, RunType
  <2>3. MayStillCommit(runs[s]) => runs[s].epoch <= lastCommitted
    BY <1>0, <2>1 DEF MayCommit, MayStillCommit
  <2> QED  BY <2>1, <2>2, <2>3, RunMoves
<1>10. ASSUME NEW s \in Slots, Finally(s) PROVE EpochInv'
  <2>1. /\ runs[s].phase = "closing" /\ runs' = [runs EXCEPT ![s] = SettledRun(s)]
        /\ UNCHANGED <<val, cell, scheduleEpoch, lastCommitted, queued, calls>>
    BY <1>10 DEF Finally
  <2>2. ~MayStillCommit(SettledRun(s)) /\ ~MayStillCommit(runs[s])
    BY <2>1 DEF SettledRun, FreeRun, MayStillCommit
  <2> QED  BY <2>1, <2>2, RunMoves
<1>11. ASSUME NEW c \in Callers, NEW k \in Keys, StartProbe(c, k) PROVE EpochInv'
  <2>1. (\A d \in Callers : calls[d].kind = "probe" /\ calls[d].phase # "deciding")'
    BY <1>0, <1>11 DEF StartProbe, NewCall, EpochInv
  <2> QED  BY <1>11, <2>1, SameRuns DEF StartProbe
<1>12. ASSUME NEW c \in Callers, NEW k \in Keys, StartCommittingParse(c, k) \/ StartSubmit(c)
       PROVE  FALSE
  BY <1>12 DEF StartCommittingParse, StartSubmit, WholeFormRuns
<1>13. ASSUME NEW c \in Callers, CallStep(c) PROVE EpochInv'
  <2>1. calls[c].kind = "probe" /\ calls[c].phase # "deciding"  BY DEF EpochInv
  <2>2. CallAnswer(c) \/ CallFinally(c)  BY <1>13, <2>1 DEF CallStep, SubmitDecides
  <2>3. UNCHANGED <<val, cell, runs, scheduleEpoch, lastCommitted, queued>>
    BY <2>1, <2>2 DEF CallAnswer, CallFinally
  <2>4. (\A d \in Callers : calls[d].kind = "probe" /\ calls[d].phase # "deciding")'
    <3>1. \A d \in Callers : calls[d].kind = "probe" /\ calls[d].phase # "deciding"
      BY DEF EpochInv
    <3>2. CASE CallAnswer(c)  BY <1>0, <3>1, <3>2 DEF CallAnswer, CallType
    <3>3. CASE CallFinally(c)  BY <1>0, <2>1, <3>1, <3>3 DEF CallFinally, IdleCall, CallType
    <3> QED  BY <2>2, <3>2, <3>3
  <2> QED  BY <2>3, <2>4, SameRuns
<1>14. CASE UNCHANGED vars
  BY <1>14, SameRuns DEF vars, EpochInv
<1> QED
  <2>1. Root \in Keys  BY DEF Keys
  <2> QED
    BY <1>1, <1>2, <1>3, <1>4, <1>5, <1>6, <1>7, <1>8, <1>9, <1>10, <1>11, <1>12, <1>13,
       <1>14, <2>1
    DEF Next, RunStep

LEMMA InitEpochInv == Init => EpochInv
  BY DEF Init, EpochInv, NewestHasCome, MayStillCommit, FreeRun, IdleCall

(* Whatever order timers fire and adapters answer in, and however many runs *)
(* overlap: once nothing is on its way, every field shows the verdict on the*)
(* value it holds.                                                          *)
THEOREM VerdictsAreCurrent ==
    ASSUME WholeFormRuns
    PROVE  Spec => []VerdictsCurrent
<1>1. IInv /\ EpochInv => VerdictsCurrent
  BY DEF EpochInv, NewestToCome, NewestHasCome, VerdictsCurrent, Quiet, MayStillCommit,
         IInv, RestType
<1>2. IInv /\ EpochInv /\ [Next]_vars => EpochInv'  BY StepEpochInv
<1> QED  BY <1>1, <1>2, InvariantHolds, InitEpochInv, PTL DEF Spec
=============================================================================
