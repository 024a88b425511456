------------------------------ MODULE Election ------------------------------
(***************************************************************************)
(* What the vote server promises of a poll, without rounds, reissues,      *)
(* users, connections or the loop: a poll is a draft, then open, then      *)
(* closed; while it is open each token casts at most one ballot; closing   *)
(* publishes the tally of the ballots, and nothing changes after that.     *)
(***************************************************************************)
EXTENDS Naturals, FiniteSets

CONSTANTS Polls, Tokens, Options, NoChoice, NoResult

\* What the theorems need of the constants: tallies are numbers, and the absent
\* values are none of the present ones.
Meaningful ==
    /\ IsFiniteSet(Tokens)
    /\ NoChoice \notin Options
    /\ NoResult \notin [Options -> Nat]

VARIABLES phase,    \* poll -> "draft", "open" or "closed"
          ballots,  \* poll -> token -> the option it chose, or NoChoice
          result    \* poll -> the published totals, or NoResult

vars == <<phase, ballots, result>>

TypeOK ==
    /\ phase \in [Polls -> {"draft", "open", "closed"}]
    /\ ballots \in [Polls -> [Tokens -> Options \cup {NoChoice}]]
    /\ result \in [Polls -> [Options -> Nat] \cup {NoResult}]

Tally(p) ==
    [o \in Options |-> Cardinality({t \in Tokens : ballots[p][t] = o})]

Init ==
    /\ phase = [p \in Polls |-> "draft"]
    /\ ballots = [p \in Polls |-> [t \in Tokens |-> NoChoice]]
    /\ result = [p \in Polls |-> NoResult]

Open(p) ==
    /\ phase[p] = "draft"
    /\ phase' = [phase EXCEPT ![p] = "open"]
    /\ UNCHANGED <<ballots, result>>

\* A token is good for one ballot in one poll.
Cast(p, t, o) ==
    /\ phase[p] = "open"
    /\ \A q \in Polls : ballots[q][t] = NoChoice
    /\ ballots' = [ballots EXCEPT ![p][t] = o]
    /\ UNCHANGED <<phase, result>>

\* An administrator may also close a draft, which publishes an empty tally.
Close(p) ==
    /\ phase[p] # "closed"
    /\ phase' = [phase EXCEPT ![p] = "closed"]
    /\ result' = [result EXCEPT ![p] = Tally(p)]
    /\ UNCHANGED ballots

Next == \E p \in Polls :
            \/ Open(p)
            \/ \E t \in Tokens, o \in Options : Cast(p, t, o)
            \/ Close(p)

Spec == Init /\ [][Next]_vars

\* An open poll does not stay open for ever; a draft may.
FairSpec == Spec /\ \A p \in Polls : WF_vars(phase[p] = "open" /\ Close(p))

(***************************************************************************)
(* What a reader of the published results relies on.                       *)
(***************************************************************************)
\* A poll shows a result exactly when it is closed, and that result is the
\* tally of its ballots.
ResultIsTally ==
    \A p \in Polls : result[p] = IF phase[p] = "closed" THEN Tally(p) ELSE NoResult

\* No token is counted in two polls.
OneBallotPerToken ==
    \A p, q \in Polls, t \in Tokens :
        ballots[p][t] # NoChoice /\ ballots[q][t] # NoChoice => p = q
=============================================================================
