--------------------------- MODULE AggregateContract ---------------------------
(***************************************************************************)
(* What Machine.analyse promises its callers (README, "One outcome per     *)
(* technique, always"): outcomes are decided one by one and never revised, *)
(* an aggregate is returned only with an outcome for every requested       *)
(* technique, and an aborted call returns none.  Machine.tla implements it.*)
(***************************************************************************)
CONSTANTS
    Calls,      \* calls of Machine.analyse
    Wanted      \* Wanted[c]: what call c is asked for

VARIABLES
    decided,    \* per call, the wanted items whose outcome is known
    ended       \* per call: "open", "returned" or "raised"

Init ==
    /\ decided = [c \in Calls |-> {}]
    /\ ended = [c \in Calls |-> "open"]

Decide(c, j) ==
    /\ ended[c] = "open"
    /\ j \in Wanted[c] \ decided[c]
    /\ decided' = [decided EXCEPT ![c] = @ \cup {j}]
    /\ UNCHANGED ended

Return(c) ==
    /\ ended[c] = "open"
    /\ decided[c] = Wanted[c]
    /\ ended' = [ended EXCEPT ![c] = "returned"]
    /\ UNCHANGED decided

\* A call is given up only while some outcome is missing.
Abort(c) ==
    /\ ended[c] = "open"
    /\ decided[c] # Wanted[c]
    /\ ended' = [ended EXCEPT ![c] = "raised"]
    /\ UNCHANGED decided

Next == \E c \in Calls : (\E j \in Wanted[c] : Decide(c, j)) \/ Return(c) \/ Abort(c)

Spec == Init /\ [][Next]_<<decided, ended>>
=================================================================================
