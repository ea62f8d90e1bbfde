----------------------------- MODULE LatestWins -----------------------------
(***************************************************************************)
(* What async register transforms promise a field: an edit that cannot     *)
(* land at once leaves an intent, a later edit or write replaces it, and   *)
(* apart from what the consumer does the field changes only when its       *)
(* latest intent lands.                                                    *)
(*                                                                         *)
(* acts counts what the consumer did.  It is what tells a write from the   *)
(* landing of a run that was superseded, which must not be possible.       *)
(***************************************************************************)
EXTENDS Naturals

CONSTANTS Leaves, Values, Default, NoIntent     \* NoIntent is no value

VARIABLES value, intent, acts

Init ==
    /\ value = [f \in Leaves |-> Default]
    /\ intent = [f \in Leaves |-> NoIntent]
    /\ acts = 0

Act == acts' = acts + 1

Dropped(S) == [f \in Leaves |-> IF f \in S THEN NoIntent ELSE intent[f]]

(* An edit whose value is not known yet.                                    *)
Edit(f) ==
    /\ \E v \in Values : intent' = [intent EXCEPT ![f] = v]
    /\ Act /\ UNCHANGED value

(* A write of the fields S; it outdates what was pending there.             *)
Write(S) ==
    /\ value' \in [Leaves -> Values]
    /\ \A f \in Leaves \ S : value'[f] = value[f]
    /\ intent' = Dropped(S)
    /\ Act

(* A replacement of the whole form, which leaves the intents pending.       *)
Replace == value' \in [Leaves -> Values] /\ Act /\ UNCHANGED intent

Land(f) ==
    /\ intent[f] # NoIntent
    /\ value' = [value EXCEPT ![f] = intent[f]]
    /\ intent' = Dropped({f})
    /\ UNCHANGED acts

(* An intent is given up: it failed, was refused or was torn down.          *)
Abandon(S) == intent' = Dropped(S) /\ UNCHANGED <<value, acts>>

Next ==
    \/ \E f \in Leaves : Edit(f) \/ Land(f)
    \/ \E S \in SUBSET Leaves : Write(S) \/ Abandon(S)
    \/ Replace

Spec == Init /\ [][Next]_<<value, intent, acts>>
=============================================================================
