---------------------------- MODULE MCIdentities ----------------------------
(***************************************************************************)
(* Small instances of Identities.                                          *)
(***************************************************************************)
EXTENDS Identities, TLC

CONSTANTS alice, bob, am, bm, g

MCOwnerOf == am :> alice @@ bm :> bob
MCConfig(autoconfirm, drifts, bySubject, maxEvents) ==
    [autoconfirm |-> autoconfirm, pkce |-> ~autoconfirm, drifts |-> drifts,
     bySubject |-> bySubject, maxEvents |-> maxEvents]
MCConfigs == {MCConfig(FALSE, FALSE, {}, 4), MCConfig(TRUE, FALSE, {g}, 3), MCConfig(FALSE, TRUE, {}, 2)}
MCDrift == {MCConfig(FALSE, TRUE, {}, 4)}
Symmetry == Permutations(Requests) \cup Permutations(Flows) \cup Permutations(Users)
=============================================================================
