-------------------------- MODULE MCSecondFactors --------------------------
(***************************************************************************)
(* Small instances of SecondFactors.                                       *)
(***************************************************************************)
EXTENDS SecondFactors, TLC

MCConfig(features, types, autoconfirm, maxEvents) ==
    [features |-> features, types |-> types, autoconfirm |-> autoconfirm, maxEvents |-> maxEvents]

\* Two kinds of factor, a factor of the third kind beside passkeys, and
\* OPAQUE with either answer to a sign-up.
MCConfigs ==
    {MCConfig({"mfa"}, {"totp", "phone"}, FALSE, 8),
     MCConfig({"mfa", "passkeys"}, {"webauthn"}, FALSE, 7),
     MCConfig({"opaque"}, {}, TRUE, 8), MCConfig({"opaque"}, {}, FALSE, 7)}

Symmetry ==
    UNION {Permutations(S) : S \in {Sessions, Factors, Challenges, Passkeys, Handshakes, Requests}}
=============================================================================
