-------------------------- MODULE ErasureLifecycle --------------------------
(***************************************************************************)
(* What the erasure pipeline promises about one DELETION request, whoever  *)
(* runs it, crashes or places a hold meanwhile: evidence is recorded only  *)
(* while the request is being worked on, in the order of the step table,   *)
(* never twice; a request is erased only with all of its evidence; erased  *)
(* and withdrawn are final.                                                *)
(***************************************************************************)
EXTENDS Integers

CONSTANTS Requests, NSteps

VARIABLES phase, evidence

Phases == {"none", "pending", "working", "parked", "erased", "withdrawn"}

Init ==
    /\ phase = [r \in Requests |-> "none"]
    /\ evidence = [r \in Requests |-> {}]

Move(r, from, to) ==
    /\ phase[r] \in from
    /\ phase' = [phase EXCEPT ![r] = to]
    /\ UNCHANGED evidence

Ask(r) == Move(r, {"none"}, "pending") \/ Move(r, {"none"}, "parked")
Withdraw(r) == Move(r, {"pending"}, "withdrawn")
Start(r) == Move(r, {"pending"}, "working")
Park(r) == Move(r, {"pending", "working"}, "parked")
Complete(r) == evidence[r] = 1 .. NSteps /\ Move(r, {"working"}, "erased")

\* A released hold resumes every request it had parked in one statement.
Resume(rs) ==
    /\ \A r \in rs : phase[r] = "parked"
    /\ phase' = [r \in Requests |-> IF r \in rs THEN "pending" ELSE phase[r]]
    /\ UNCHANGED evidence

Record(r, s) ==
    /\ phase[r] = "working"
    /\ evidence[r] = 1 .. (s - 1)
    /\ evidence' = [evidence EXCEPT ![r] = 1 .. s]
    /\ UNCHANGED phase

Next ==
    \/ \E r \in Requests :
        \/ Ask(r) \/ Withdraw(r) \/ Start(r) \/ Park(r) \/ Complete(r)
        \/ \E s \in 1 .. NSteps : Record(r, s)
    \/ \E rs \in SUBSET Requests : Resume(rs)

Spec == Init /\ [][Next]_<<phase, evidence>>
=============================================================================
