----------------------------- MODULE OrderLife ------------------------------
(***************************************************************************)
(* What order admission, submission and reconciliation promise together,   *)
(* whatever the number of processes, their crashes and the lost answers:   *)
(* an order goes out once for its intent and its key, the provider decides *)
(* it once, and it is settled once, as the provider decided, for good.     *)
(***************************************************************************)
EXTENDS Naturals

CONSTANTS Requests, Intents, Keys, None, Decisions

VARIABLES
    sent,       \* how often each request was handed to the provider
    decided,    \* the provider's decision by key, or None
    settled     \* the decision on record by intent, or None

vars == <<sent, decided, settled>>

Init ==
    /\ sent = [r \in Requests |-> 0]
    /\ decided = [k \in Keys |-> None]
    /\ settled = [i \in Intents |-> None]

Send(r) ==
    /\ \A q \in Requests : q.intent = r.intent \/ q.key = r.key => sent[q] = 0
    /\ sent' = [sent EXCEPT ![r] = 1]
    /\ UNCHANGED <<decided, settled>>

Decide(k) ==
    /\ \E r \in Requests : r.key = k /\ sent[r] = 1
    /\ decided[k] = None
    /\ \E outcome \in Decisions : decided' = [decided EXCEPT ![k] = outcome]
    /\ UNCHANGED <<sent, settled>>

Settle(i) ==
    /\ settled[i] = None
    /\ \E r \in Requests :
        /\ r.intent = i /\ sent[r] = 1 /\ decided[r.key] # None
        /\ settled' = [settled EXCEPT ![i] = decided[r.key]]
    /\ UNCHANGED <<sent, decided>>

Next ==
    \/ \E r \in Requests : Send(r)
    \/ \E k \in Keys : Decide(k)
    \/ \E i \in Intents : Settle(i)

Spec == Init /\ [][Next]_vars

=============================================================================
