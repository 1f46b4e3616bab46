---------------------------- MODULE OrdinalClock ----------------------------
(***************************************************************************)
(* What _trace_len (shim.py) promises the wrappers that call it: within    *)
(* one recording every answer is the length the trace had at some moment   *)
(* of the call, less a slack that is settled once, during the first call   *)
(* that gets so far, and then stays the same until recording is enabled    *)
(* again.  How the length is computed is left to TraceCounter.             *)
(***************************************************************************)
EXTENDS Integers

CONSTANT None

VARIABLES
    on,     \* recording is enabled
    len,    \* entries recorded since it was enabled
    slack,  \* by how much answers are too low, None until settled
    busy,   \* a call is in progress
    from,   \* the length when that call began
    answer  \* what the last call returned

vars == <<on, len, slack, busy, from, answer>>

Init ==
    /\ on = FALSE /\ len = 0 /\ slack = None
    /\ busy = FALSE /\ from = 0 /\ answer = None

Grow ==
    /\ on
    /\ len' \in Nat /\ len' > len
    /\ UNCHANGED <<on, slack, busy, from, answer>>

Restart ==
    /\ ~busy
    /\ on' = TRUE /\ len' = 0 /\ slack' = None
    /\ UNCHANGED <<busy, from, answer>>

Stop ==
    /\ on /\ ~busy
    /\ on' = FALSE /\ slack' = None
    /\ UNCHANGED <<len, busy, from, answer>>

Begin ==
    /\ on /\ ~busy
    /\ busy' = TRUE /\ from' = len
    /\ UNCHANGED <<on, len, slack, answer>>

Settle ==
    /\ busy /\ slack = None
    /\ slack' \in 0 .. len
    /\ UNCHANGED <<on, len, busy, from, answer>>

Answer ==
    /\ busy /\ slack # None
    /\ answer' \in from - slack .. len - slack
    /\ busy' = FALSE /\ from' = 0
    /\ UNCHANGED <<on, len, slack>>

GiveUp ==
    /\ busy
    /\ answer' = -1
    /\ busy' = FALSE /\ from' = 0
    /\ UNCHANGED <<on, len, slack>>

Next == Grow \/ Restart \/ Stop \/ Begin \/ Settle \/ Answer \/ GiveUp

Spec == Init /\ [][Next]_vars
=============================================================================
