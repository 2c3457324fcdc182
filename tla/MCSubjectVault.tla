--------------------------- MODULE MCSubjectVault ---------------------------
EXTENDS SubjectVault, TLC

\* Set one field, set it and remove another, remove it.
MCPatches == {[set |-> {"mail"}, remove |-> {}],
              [set |-> {"name"}, remove |-> {"mail"}],
              [set |-> {}, remove |-> {"mail"}]}

MCStored == {[f \in Fields |-> IF f = "mail" THEN Earlier ELSE NoValue]}

\* Retain the evidence; keep the key; keep the account and shred at once.
MCPolicies == {[keep |-> {}, retain |-> TRUE],
               [keep |-> {"subject-key"}, retain |-> FALSE],
               [keep |-> {"account"}, retain |-> FALSE]}

\* Calls of a kind are interchangeable.
CallSymmetry == Permutations(Patchers) \cup Permutations(Recorders)
=============================================================================
