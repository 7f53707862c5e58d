-------------------------- MODULE MCSession --------------------------
(* A browser whose first tab makes the API calls.  A behaviour has either *)
(* a second call in the same tab or a second tab: the other is not used.  *)
EXTENDS Session

CONSTANTS t1, t2, q1, q2

MCTabOf == [q \in Requests |-> t1]

VARIABLE second

TwoInit == Init /\ second \in {"call", "tab"}

TwoNext ==
    /\ Next
    /\ second' = second
    /\ second = "call" => mem'[t2] = mem[t2] /\ leaving'[t2] = leaving[t2]
    /\ second = "tab" => req'[q2] = Idle

FairTwoSpec == TwoInit /\ [][TwoNext]_<<vars, second>> /\ Fairness
=============================================================================
