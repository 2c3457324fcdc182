------------------------ MODULE MCErasurePipeline ------------------------
(***************************************************************************)
(* Small instances of the erasure pipeline: three steps (a domain the auth *)
(* API can write again, the external systems, the account) stand for the   *)
(* ten of the code.                                                        *)
(***************************************************************************)
EXTENDS ErasurePipeline, TLC

\* Requests 1 and 3 concern the same subject.
MCReqUser == [r \in Requests |-> IF r % 2 = 1 THEN "ann" ELSE "bob"]
MCHoldUser == [h \in Holds |-> "ann"]

PlainPolicy == [review |-> FALSE, keep |-> {}]
KeepAccount == [review |-> FALSE, keep |-> {3}]
ReviewPolicy == [review |-> TRUE, keep |-> {}]

AllPolicies == {PlainPolicy, KeepAccount, ReviewPolicy}
OnePolicy == {PlainPolicy}

\* Runners are interchangeable.
RunnerSymmetry == Permutations(Runners)
=============================================================================
