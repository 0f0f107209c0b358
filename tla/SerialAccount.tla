--------------------------- MODULE SerialAccount ----------------------------
(***************************************************************************)
(* What the PAPER account repository promises, whatever the number of      *)
(* processes, their clocks and their crashes: one holder at a time may     *)
(* commit, one operation at a time; a committed operation stays committed; *)
(* the fill ledger changes together with the account; and a writer that    *)
(* lost its place never gets it back.                                      *)
(***************************************************************************)
EXTENDS FiniteSets

CONSTANTS Writers, None, Ops, FillOps

VARIABLES
    holder,     \* the writer that may commit, or None
    granted,    \* writers that were granted the account at some time
    committed,  \* the operations of the durable account
    filled      \* the operations of the durable fill ledger

vars == <<holder, granted, committed, filled>>

Init ==
    /\ holder = None
    /\ granted = {}
    /\ committed = {}
    /\ filled = {}

Grant(w) ==
    /\ w \notin granted
    /\ holder' = w
    /\ granted' = granted \cup {w}
    /\ UNCHANGED <<committed, filled>>

Release ==
    /\ holder' = None
    /\ UNCHANGED <<granted, committed, filled>>

Commit(w, o) ==
    /\ holder = w
    /\ o \notin committed
    /\ committed' = committed \cup {o}
    /\ filled' = filled \cup ({o} \cap FillOps)
    /\ UNCHANGED <<holder, granted>>

Next ==
    \/ \E w \in Writers :
        Grant(w) \/ \E o \in Ops : Commit(w, o)
    \/ Release

Spec == Init /\ [][Next]_vars

=============================================================================
