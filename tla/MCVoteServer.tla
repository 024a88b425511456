---------------------------- MODULE MCVoteServer ----------------------------
(* Small instances of VoteServer for TLC. *)
EXTENDS VoteServer, TLC

\* Users of one role, polls, tokens and options are interchangeable.  Only the
\* runs without a liveness property use the symmetry.
Symmetry ==
    UNION {Permutations(Voters), Permutations(Polls), Permutations(Tokens),
           Permutations(Options)}

\* A bound on the environment: every session is listed in the directory.  The
\* run on one poll also has sessions that lost their directory entry.
CalmNext == Next /\ \A u \in Users : link'[u] # "session"

CalmFairSpec == Init /\ [][CalmNext]_vars /\ Fairness

\* A tighter bound for two polls at once: nobody who has logged in leaves.
SteadyNext == Next /\ \A u \in Users : link[u] = "listed" => link'[u] = "listed"

SteadySpec == Init /\ [][SteadyNext]_vars
=============================================================================
