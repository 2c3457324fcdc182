-------------------------- MODULE SessionLifecycle --------------------------
(***************************************************************************)
(* What the auth service promises about the sessions of a user, whoever    *)
(* refreshes, verifies a factor, signs out, erases or cleans up at once: a *)
(* live session is refreshed with one token, its key; a key is replaced by *)
(* a token that was never issued before, so that no token is a key twice   *)
(* or of two sessions; and a session that has ended stays so.              *)
(***************************************************************************)
CONSTANTS Sessions, Tokens, NoToken

VARIABLES phase, key, issued

Init ==
    /\ phase = [s \in Sessions |-> "none"]
    /\ key = [s \in Sessions |-> NoToken]
    /\ issued = {}

Issue(t) == t \notin issued /\ issued' = issued \cup {t}

Open(s, t) ==
    /\ phase[s] = "none"
    /\ Issue(t)
    /\ phase' = [phase EXCEPT ![s] = "live"]
    /\ key' = [key EXCEPT ![s] = t]

Ended(ended) == [s \in Sessions |-> IF s \in ended THEN "gone" ELSE phase[s]]
Keyless(ended) == [s \in Sessions |-> IF s \in ended THEN NoToken ELSE key[s]]

\* Only sessions that are live end, any number of them in one step.
Close(ended) ==
    /\ \A s \in ended : phase[s] = "live"
    /\ phase' = Ended(ended)
    /\ key' = Keyless(ended)
    /\ UNCHANGED issued

\* A session gets its next key.  One that has proved a second factor may end
\* others in the same step.
Turn(s, t, ended) ==
    /\ phase[s] = "live" /\ s \notin ended
    /\ \A o \in ended : phase[o] = "live"
    /\ Issue(t)
    /\ phase' = Ended(ended)
    /\ key' = [Keyless(ended) EXCEPT ![s] = t]

\* An erasure takes the keys before it ends the sessions.
Forget ==
    /\ key' = Keyless(Sessions)
    /\ UNCHANGED <<phase, issued>>

Next ==
    \/ \E s \in Sessions, t \in Tokens : Open(s, t)
    \/ \E ended \in SUBSET Sessions : Close(ended)
    \/ \E s \in Sessions, t \in Tokens, ended \in SUBSET Sessions : Turn(s, t, ended)
    \/ Forget

Spec == Init /\ [][Next]_<<phase, key, issued>>
=============================================================================
