--------------------------- MODULE SearchPromise ---------------------------
(***************************************************************************)
(* What a progressive search promises whoever collects it, said without    *)
(* goroutines, tiers or a breaker (search/progressive.go, header comment): *)
(* an answer that only grows while more is coming, and does not change     *)
(* once it has been called complete.                                       *)
(***************************************************************************)
CONSTANTS Jobs, Cards

VARIABLES answer,   \* answer[j]: the cards collectable from job j
          phase     \* phase[j]: "none", "growing" or "final"

Init == /\ answer = [j \in Jobs |-> {}]
        /\ phase = [j \in Jobs |-> "none"]

Start(j) == /\ phase[j] = "none"
            /\ phase' = [phase EXCEPT ![j] = "growing"]
            /\ UNCHANGED answer

Grow(j) == /\ phase[j] = "growing"
           /\ \E more \in SUBSET Cards :
                 answer' = [answer EXCEPT ![j] = @ \cup more]
           /\ UNCHANGED phase

Complete(j) == /\ phase[j] = "growing"
               /\ phase' = [phase EXCEPT ![j] = "final"]
               /\ UNCHANGED answer

\* Answers nobody can still be waiting for are dropped, several at a time.
Expire == \E gone \in SUBSET {j \in Jobs : phase[j] = "final"} :
            /\ answer' = [j \in Jobs |-> IF j \in gone THEN {} ELSE answer[j]]
            /\ phase' = [j \in Jobs |-> IF j \in gone THEN "none" ELSE phase[j]]

Next == \/ Expire
        \/ \E j \in Jobs : Start(j) \/ Grow(j) \/ Complete(j)

Spec == Init /\ [][Next]_<<answer, phase>>
=============================================================================
