------------------------------ MODULE S3Requests ------------------------------
(***************************************************************************)
(* What the Windows driver promises the application about its requests:    *)
(* an accepted request is pending until it is completed, exactly once,     *)
(* with a status that then stays; a request the driver refuses is          *)
(* completed at once.  When a request is completed nothing is promised     *)
(* about the others: several may be completed together.                    *)
(***************************************************************************)
EXTENDS Naturals

CONSTANTS Irps, Statuses

VARIABLES phase, status, completions

vars == <<phase, status, completions>>

Init ==
  /\ phase = [i \in Irps |-> "new"]
  /\ status = [i \in Irps |-> "PENDING"]
  /\ completions = [i \in Irps |-> 0]

Accept(i) ==
  /\ phase[i] = "new"
  /\ phase' = [phase EXCEPT ![i] = "pending"]
  /\ UNCHANGED <<status, completions>>

(* The final status of the requests in S; the others keep theirs.          *)
Finish(S) ==
  /\ phase' = [i \in Irps |-> IF i \in S THEN "done" ELSE phase[i]]
  /\ completions' = [i \in Irps |-> IF i \in S THEN 1 ELSE completions[i]]
  /\ \A i \in Irps : IF i \in S THEN status'[i] \in Statuses \ {"PENDING"}
                                ELSE status'[i] = status[i]

Refuse(i)   == phase[i] = "new" /\ Finish({i})
Complete(S) == (\A i \in S : phase[i] = "pending") /\ Finish(S)

Next ==
  \/ \E i \in Irps : Accept(i) \/ Refuse(i)
  \/ \E S \in (SUBSET Irps) \ {{}} : Complete(S)

Live == \A i \in Irps : (phase[i] = "pending") ~> (phase[i] = "done")

Spec == Init /\ [][Next]_vars /\ Live
=============================================================================
