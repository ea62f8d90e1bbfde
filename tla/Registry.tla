------------------------------ MODULE Registry ------------------------------
(***************************************************************************)
(* The life of a form store (registry.ts): components claim the store at a *)
(* key, the last to leave queues its eviction as a microtask, and one that *)
(* comes back in the same tick takes the store over.  One key, since keys  *)
(* share nothing.  A consumer is one claim: a component that mounts again  *)
(* is another consumer.                                                    *)
(***************************************************************************)
EXTENDS Naturals, FiniteSets

CONSTANTS
    Consumers,      \* claims on the key; an eviction is named by its releaser
    Stores,         \* stores that may be built
    None

ASSUME RegistryAssumption ==
    IsFiniteSet(Consumers) /\ None \notin Consumers \cup Stores

VARIABLES
    forms,          \* the store registered at the key, or None
    consumers,      \* its consumer count; 0 when the code has no entry
    pending,        \* pendingEvictions: the token at the key, or None
    cancelled,      \* tokens marked cancelled
    queued,         \* tokens whose microtask is still to run
    phase,          \* of each consumer: "new", "mounted", "gone"
    holds,          \* the store each consumer was given
    built,          \* stores built so far
    disposed        \* stores whose dispose() has run

registry == <<forms, consumers, pending, cancelled, queued, phase, holds, built, disposed>>

Mounted == {c \in Consumers : phase[c] = "mounted"}

-----------------------------------------------------------------------------
(* Mutant of CancelPendingEviction: a re-mount leaves the eviction queued.  *)
CancelNothing == UNCHANGED <<pending, cancelled>>
(* Mutant of Remaining: a consumer that leaves is still counted.            *)
RemainingAsBefore == consumers

CancelPendingEviction ==
    /\ pending' = None
    /\ cancelled' = cancelled \cup ({pending} \ {None})

(* trackConsumer, for a consumer that was given store s.                    *)
TrackConsumer(c, s) ==
    /\ phase[c] = "new"
    /\ CancelPendingEviction
    /\ consumers' = consumers + 1
    /\ phase' = [phase EXCEPT ![c] = "mounted"]
    /\ holds' = [holds EXCEPT ![c] = s]
    /\ UNCHANGED <<queued, disposed>>

(* useForm({ key }): the live store, or a fresh one.                        *)
UseForm(c) ==
    \/ /\ forms # None
       /\ TrackConsumer(c, forms)
       /\ UNCHANGED <<forms, built>>
    \/ /\ forms = None
       /\ \E s \in Stores \ built :
            /\ forms' = s /\ built' = built \cup {s}
            /\ TrackConsumer(c, s)

(* injectForm(key), which gives null on a miss and then tracks nothing.     *)
InjectForm(c) ==
    /\ forms # None
    /\ TrackConsumer(c, forms)
    /\ UNCHANGED <<forms, built>>

(* The ambient injectForm() below a mounted provider p, and the forms that  *)
(* useWizard is handed by the component that holds them.                    *)
ShareForm(c, p) ==
    /\ phase[p] = "mounted"
    /\ TrackConsumer(c, holds[p])
    /\ UNCHANGED <<forms, built>>

(* The scope of the consumer ends: the disposer trackConsumer returned.     *)
Remaining == consumers - 1
ReleaseConsumer(c) ==
    /\ phase[c] = "mounted"
    /\ phase' = [phase EXCEPT ![c] = "gone"]
    /\ \/ /\ Remaining > 0
          /\ consumers' = Remaining
          /\ UNCHANGED <<pending, queued>>
       \/ /\ Remaining <= 0
          /\ consumers' = 0
          /\ pending' = c
          /\ queued' = queued \cup {c}
    /\ UNCHANGED <<forms, cancelled, holds, built, disposed>>

(* The microtask of token t.  Microtasks run in order; nothing here depends *)
(* on it, so the order is left open.                                        *)
Evict(t) ==
    /\ t \in queued
    /\ queued' = queued \ {t}
    /\ \/ /\ t \in cancelled \/ pending # t
          /\ UNCHANGED <<forms, pending, disposed>>
       \/ /\ t \notin cancelled /\ pending = t
          /\ pending' = None
          /\ forms' = None
          /\ disposed' = disposed \cup ({forms} \ {None})
    /\ UNCHANGED <<consumers, cancelled, phase, holds, built>>

RegistryInit ==
    /\ forms = None /\ consumers = 0 /\ pending = None
    /\ cancelled = {} /\ queued = {} /\ built = {} /\ disposed = {}
    /\ phase = [c \in Consumers |-> "new"]
    /\ holds = [c \in Consumers |-> None]

RegistryNext ==
    \E c \in Consumers :
        \/ UseForm(c) \/ InjectForm(c) \/ ReleaseConsumer(c) \/ Evict(c)
        \/ \E p \in Consumers : ShareForm(c, p)

-----------------------------------------------------------------------------
(* The last conjunct is what the second guard of the eviction microtask     *)
(* says cannot fail: a token is not replaced without being cancelled.       *)
RegistryTypeOK ==
    /\ forms \in Stores \cup {None} /\ consumers \in Nat
    /\ pending \in Consumers \cup {None}
    /\ cancelled \subseteq Consumers /\ queued \subseteq Consumers
    /\ phase \in [Consumers -> {"new", "mounted", "gone"}]
    /\ holds \in [Consumers -> Stores \cup {None}]
    /\ built \subseteq Stores /\ disposed \subseteq built
    /\ queued \ cancelled \subseteq {pending}

(* Whatever mounts, leaves and comes back within the tick, every consumer   *)
(* on the page has the one store registered at the key, and that store has  *)
(* not been disposed (the eviction deferred by trackConsumer).              *)
InUseIsLive ==
    \A c \in Mounted : holds[c] = forms /\ forms # None /\ forms \notin disposed

(* A store nobody claims goes, or is claimed again: no mount sequence pins a*)
(* store for the life of the application.                                   *)
UnclaimedGoes == (forms # None /\ Mounted = {}) ~> (forms = None \/ Mounted # {})
=============================================================================
