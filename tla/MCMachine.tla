------------------------------- MODULE MCMachine -------------------------------
(* Small instances of Machine for TLC.  Two groups of calls, of which one runs
   and the other was rejected before:
   - three calls for one technique, two of them about the same source, so that
     they meet at one cache flight and all three at one provider's lock; the
     first asks for another technique as well, with a single worker for both;
   - two calls for two techniques each, about the same source, one with a
     worker for each of them and one with a single worker. *)
EXTENDS Machine, TLC

CONSTANTS c1, c2, c3, c4, rst, pdtb

Requests == [c \in Calls |-> IF c \in {c1, c4} THEN <<rst, pdtb>> ELSE <<rst>>]
Sources == [c \in Calls |-> IF c = c3 THEN "letter" ELSE "essay"]
Workers == [c \in Calls |-> IF c = c4 THEN 2 ELSE 1]
Groups == {{c1, c2, c3}, {c1, c4}}

GroupsInit ==
    /\ \E group \in Groups : caller = [c \in Calls |-> IF c \in group THEN "idle" ELSE "rejected"]
    /\ job = [j \in Jobs |-> "new"]
    /\ collected = [c \in Calls |-> {}] /\ cursor = [c \in Calls |-> 1]
    /\ flight = [k \in Keys |-> NoJob] /\ provider = [x \in Techniques |-> NoJob]
    /\ entry \in SUBSET Keys
GroupsSpec == GroupsInit /\ [][Next]_vars /\ WF_vars(Progress)
================================================================================
