-------------------------- MODULE MCConsentLedger --------------------------
(***************************************************************************)
(* Small instances of ConsentLedger: two consents of two subjects, two     *)
(* engines, and two revisions of the policies, the second of which         *)
(* shortens the default period, requires the consent of a strict subject   *)
(* and no longer knows the policy "gone".                                  *)
(***************************************************************************)
EXTENDS ConsentLedger, TLC

CONSTANTS s1, s2

MCRule(period, required) == [period |-> period, required |-> required]
MCSubjectOf == [c \in Consents |-> IF c = 1 THEN s1 ELSE s2]
MCRules ==
    [r \in Revisions |->
        IF r = 1 THEN [p \in {"default", "gone"} |-> MCRule(IF p = "default" THEN 2 ELSE 1, FALSE)]
        ELSE [p \in {"default", "strict"} |-> MCRule(1, p = "strict")]]

MCConfig(features, backfilled, batch, maxTime, maxEvents) ==
    [features |-> features, backfilled |-> backfilled, batch |-> batch, maxTime |-> maxTime,
     maxEvents |-> maxEvents]

\* Changes against scans, then while policies change too; scans against
\* restarts with new policies; outbox events against requests, failures and
\* restarts; and a notice from the scan to its tasks beside an erasure.
MCConfigs ==
    {MCConfig({"consents", "scan"}, {1}, 2, 3, 4),
     MCConfig({"consents", "scan", "policies"}, {1}, 2, 2, 4),
     MCConfig({"scan", "policies", "crash"}, {1, 2}, 1, 3, 5),
     MCConfig({"outbox", "crash"}, {}, 1, 1, 6),
     MCConfig({"consents", "scan", "outbox", "erasure"}, {1}, 2, 2, 3)}

Symmetry == Permutations(Engines) \cup Permutations(Updates)
=============================================================================
