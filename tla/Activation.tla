----------------------------- MODULE Activation -----------------------------
(***************************************************************************)
(* The async defaults of the stores a key goes through: activate,          *)
(* rehydrate and the orchestrator behind them (form-activation.ts,         *)
(* create-form-store.ts), over the registry that builds and disposes the   *)
(* stores.  Disposing a store does not stop a fetch, and the code of a     *)
(* component that is gone can still call its form, so nothing here asks    *)
(* whether the store is in use.                                            *)
(***************************************************************************)
EXTENDS Registry

CONSTANT Runs       \* calls of a factory that may be made

ASSUME ActivationAssumption == None \notin Runs

VARIABLES
    activated, hydrating, resolved,     \* the flags of each store
    promise,        \* activationPromise: the run behind it, or None
    hydrateError,   \* the run whose failure it holds, or None
    entries,        \* runs with a HydrationFailed entry among the root errors
    run,            \* each run: its phase and its store
    overlapped,     \* history: stores where a call was made with another in
                    \* flight, and one of them has not answered yet
    replaced        \* history: stores whose root errors were replaced since
                    \* their last failure

activation == <<activated, hydrating, resolved, promise, hydrateError, entries,
                run, overlapped, replaced>>
vars == <<registry, activation>>

Fetching(s) == {r \in Runs : run[r] = [phase |-> "fetching", store |-> s]}

-----------------------------------------------------------------------------
(* Mutant of Cleared: a failure is appended to the ones before it.          *)
ClearedNever(s) == entries[s]
(* clearHydrationFailedEntry.                                               *)
Cleared(s) == {}

(* Mutant of Settled: only a success takes the flag down.                   *)
SettledOnSuccess(s, ok) == IF ok THEN [hydrating EXCEPT ![s] = FALSE] ELSE hydrating
(* The finally of runFactoryAndApply.                                       *)
Settled(s, ok) == [hydrating EXCEPT ![s] = FALSE]

Failed(s, r) ==
    /\ entries' = [entries EXCEPT ![s] = Cleared(s) \cup {r}]
    /\ hydrateError' = [hydrateError EXCEPT ![s] = r]
    /\ hydrating' = Settled(s, FALSE)
    /\ replaced' = replaced \ {s}
    /\ UNCHANGED resolved

(* fireFactory.  A factory that throws before its first await settles in    *)
(* the same turn, ahead of the promise being published.                     *)
FireFactory(s, r) ==
    /\ s \in built
    /\ run[r].phase = "free"
    /\ activated' = [activated EXCEPT ![s] = TRUE]
    /\ promise' = [promise EXCEPT ![s] = r]
    /\ overlapped' = IF Fetching(s) # {} THEN overlapped \cup {s} ELSE overlapped
    /\ \/ /\ run' = [run EXCEPT ![r] = [phase |-> "fetching", store |-> s]]
          /\ hydrating' = [hydrating EXCEPT ![s] = TRUE]
          /\ UNCHANGED <<resolved, hydrateError, entries, replaced>>
       \/ /\ run' = [run EXCEPT ![r] = [phase |-> "settled", store |-> s]]
          /\ Failed(s, r)
    /\ UNCHANGED registry

(* activate: a no-op once the factory has been fired or the defaults are in.*)
Activate(s, r) ==
    /\ ~resolved[s] /\ promise[s] = None /\ ~activated[s]
    /\ FireFactory(s, r)

(* rehydrate fires again, whatever is in flight.                            *)
Rehydrate(s, r) == FireFactory(s, r)

(* History: an overlap is over with the answer of the last call.            *)
StillOverlapped(r) ==
    {s \in overlapped : Fetching(s) \ {r} # {}}

(* The factory answers.                                                     *)
Resolves(r) ==
    LET s == run[r].store IN
        /\ run[r].phase = "fetching"
        /\ run' = [run EXCEPT ![r].phase = "settled"]
        /\ entries' = [entries EXCEPT ![s] = Cleared(s)]
        /\ hydrateError' = [hydrateError EXCEPT ![s] = None]
        /\ resolved' = [resolved EXCEPT ![s] = TRUE]
        /\ hydrating' = Settled(s, TRUE)
        /\ overlapped' = StillOverlapped(r) /\ replaced' = replaced \ {s}
        /\ UNCHANGED <<registry, activated, promise>>
Rejects(r) ==
    /\ run[r].phase = "fetching"
    /\ run' = [run EXCEPT ![r].phase = "settled"]
    /\ Failed(run[r].store, r)
    /\ overlapped' = StillOverlapped(r)
    /\ UNCHANGED <<registry, activated, promise>>

(* The finally that fireFactory hangs on the promise, a microtask later.    *)
PromiseClears(r) ==
    LET s == run[r].store IN
        /\ run[r].phase = "settled"
        /\ run' = [run EXCEPT ![r].phase = "done"]
        /\ promise' = [promise EXCEPT ![s] = IF @ = r THEN None ELSE @]
        /\ UNCHANGED <<registry, activated, hydrating, resolved, hydrateError,
                       entries, overlapped, replaced>>

(* A schema pass over the whole form, and reset(), replace the root errors  *)
(* and leave hydrateError.                                                  *)
SchemaPass(s) ==
    /\ entries[s] # {}
    /\ entries' = [entries EXCEPT ![s] = {}]
    /\ replaced' = replaced \cup {s}
    /\ UNCHANGED <<registry, activated, hydrating, resolved, promise, hydrateError,
                   run, overlapped>>

-----------------------------------------------------------------------------
Init ==
    /\ RegistryInit
    /\ activated = [s \in Stores |-> FALSE]
    /\ hydrating = [s \in Stores |-> FALSE]
    /\ resolved = [s \in Stores |-> FALSE]
    /\ promise = [s \in Stores |-> None]
    /\ hydrateError = [s \in Stores |-> None]
    /\ entries = [s \in Stores |-> {}]
    /\ run = [r \in Runs |-> [phase |-> "free", store |-> None]]
    /\ overlapped = {} /\ replaced = {}

Answers(r) == Resolves(r) \/ Rejects(r)

Next ==
    \/ RegistryNext /\ UNCHANGED activation
    \/ \E s \in Stores : SchemaPass(s) \/ \E r \in Runs : Activate(s, r) \/ Rehydrate(s, r)
    \/ \E r \in Runs : Answers(r) \/ PromiseClears(r)

(* A queued microtask runs and a factory that was called answers.           *)
Fairness ==
    /\ \A c \in Consumers : WF_vars(Evict(c) /\ UNCHANGED activation)
    /\ \A r \in Runs : WF_vars(Answers(r)) /\ WF_vars(PromiseClears(r))

Spec == Init /\ [][Next]_vars /\ Fairness

-----------------------------------------------------------------------------
Phases == {"free", "fetching", "settled", "done"}

TypeOK ==
    /\ RegistryTypeOK
    /\ activated \in [Stores -> BOOLEAN] /\ hydrating \in [Stores -> BOOLEAN]
    /\ resolved \in [Stores -> BOOLEAN]
    /\ promise \in [Stores -> Runs \cup {None}]
    /\ hydrateError \in [Stores -> Runs \cup {None}]
    /\ entries \in [Stores -> SUBSET Runs]
    /\ run \in [Runs -> [phase : Phases, store : Stores \cup {None}]]
    /\ overlapped \subseteq Stores /\ replaced \subseteq Stores

(* What a form tells of its defaults.  hydrating is on only while a call of *)
(* the factory is in flight, and is on while one is, unless that one has    *)
(* overlapped another: the first of the two to answer takes it down.  The   *)
(* root errors hold the failure in hydrateError and no other, and hold it   *)
(* until a pass over the whole form or a reset replaces them.               *)
ReportIsHonest ==
    \A s \in Stores :
        /\ hydrating[s] => Fetching(s) # {}
        /\ Fetching(s) # {} /\ s \notin overlapped => hydrating[s]
        /\ entries[s] = IF s \in replaced THEN {} ELSE {hydrateError[s]} \ {None}

(* No sequence of answers, failures and re-fetches leaves a form loading.   *)
HydratingEnds == \A s \in Stores : hydrating[s] ~> ~hydrating[s]
=============================================================================
