--------------------------- MODULE MCOneTimeTokens ---------------------------
EXTENDS OneTimeTokens, TLC

\* The default, and everything confirmed on the spot.
MCConfigs ==
    {[autoconfirm |-> FALSE, smsAutoconfirm |-> FALSE, secure |-> TRUE],
     [autoconfirm |-> TRUE, smsAutoconfirm |-> TRUE, secure |-> FALSE]}

\* Accounts, addresses and redemptions differ in their names only.
Symmetry ==
    UNION {Permutations(S) : S \in {Mails, Phones, Senders, Verifiers}}
=============================================================================
