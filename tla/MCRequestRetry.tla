--------------------------- MODULE MCRequestRetry ---------------------------
(***************************************************************************)
(* Two credentials, two concurrent requests.  Credential 1 misbehaves as   *)
(* the configuration says; credential 2 is the one to fail over to.        *)
(***************************************************************************)
EXTENDS RequestRetry, TLC

CONSTANTS
    BadAnswers, BadTokens,    \* what credential 1 meets
    GoodAnswers, GoodTokens,  \* what the others meet
    StartMode,                \* load_balancing_mode
    FreeIds                   \* credentials without an Opus subscription

MCAnswers == [i \in Ids |-> IF i = 1 THEN BadAnswers ELSE GoodAnswers]
MCTokens == [i \in Ids |-> IF i = 1 THEN BadTokens ELSE GoodTokens]

\* All credentials exist, enabled; credential 1 has the best priority.
MCInit ==
    /\ RequestInit
    /\ live = Ids
    /\ mode = StartMode
    /\ \A i \in Ids : entries[i] = LoadedEntry(FALSE, TRUE, i, i \notin FreeIds)

MCSymmetry == Permutations(Requests)

MCSpec == MCInit /\ [][RequestNext \/ Done]_vars

MCFairSpec == MCSpec /\ \A r \in Requests : WF_vars(Step(r))
=============================================================================
