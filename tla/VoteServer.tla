----------------------------- MODULE VoteServer -----------------------------
(***************************************************************************)
(* The Votenet server: the in-memory Store, the handlers that change polls,*)
(* windows, tokens and votes, and the window loop.                         *)
(*                                                                         *)
(* The server is one asyncio event loop.  A handler without an await is    *)
(* one atomic step.  The window loop awaits between issuing the tokens of  *)
(* a sub-round and clearing pending_reissue, so that advance is two steps, *)
(* LoopAdvance and FinishSending, between which any handler may run.       *)
(*                                                                         *)
(* A poll is released at most once, so its window is named by the poll.    *)
(* A token id is a fresh member of Tokens; the signature binds it to the   *)
(* poll and window it was issued for, i.e. it verifies only for the p with *)
(* t \in issued_tokens[p].                                                 *)
(***************************************************************************)
EXTENDS Naturals, FiniteSets, Functions

CONSTANTS
    Voters,      \* usernames whose role is "voter"
    Admins,      \* usernames whose role is "admin"
    Polls,       \* poll ids (bounds how many polls are created)
    Options,     \* the options of every poll
    Choices,     \* what a ballot may name: the options and other strings
    Tokens,      \* token ids (bounds how many tokens are issued)
    RoundTicks,  \* WINDOW_ROUND_SECONDS
    MaxRounds,   \* MAX_ROUNDS
    Grace,       \* the extra time of expires_at after the last round
    NoUser, NoPoll, NoChoice, NoResult

Users == Voters \cup Admins

ASSUME NumbersAssumption ==
    /\ RoundTicks \in Nat \ {0}
    /\ MaxRounds \in Nat \ {0}
    /\ Grace \in Nat \ {0}

ASSUME NamesAssumption ==
    /\ Voters \cap Admins = {}
    /\ Options \subseteq Choices
    /\ NoUser \notin Users
    /\ NoPoll \notin Polls
    /\ NoChoice \notin Choices
    /\ NoResult \notin [Options -> Nat]

\* A dict of the store is finite.
ASSUME FinitenessAssumption == IsFiniteSet(Tokens)

VARIABLES
    link,            \* per user: no session, a session, or listed in peer_directory
    polls,           \* the keys of Store.polls
    released,        \* polls with .released and a window in Store.windows
    pollClosed,      \* polls with .closed
    windowClosed,    \* polls whose window has .closed
    round, age,      \* Window.round, and the time since Window.opened_at
    interested, voted_ok, pending_reissue, issued_tokens,
    issuance_ledger, \* token -> username
    spend_ledger,    \* token -> the window it was spent in
    invalidated,
    votes_by_token,  \* poll -> token -> choice
    results,         \* the totals of the last RESULTS_PUBLISHED of a poll
    sending          \* the window whose fresh tokens the loop is sending

pollVars   == <<polls, released, pollClosed, windowClosed>>
timeVars   == <<round, age>>
windowVars == <<interested, voted_ok, pending_reissue, issued_tokens>>
ledgerVars == <<issuance_ledger, spend_ledger, invalidated, votes_by_token>>
vars == <<link, pollVars, timeVars, windowVars, ledgerVars, results, sending>>

Lifetime == RoundTicks * MaxRounds + Grace   \* expires_at - opened_at

TypeOK ==
    /\ link \in [Users -> {"none", "session", "listed"}]
    /\ polls \subseteq Polls
    /\ released \subseteq Polls
    /\ pollClosed \subseteq Polls
    /\ windowClosed \subseteq Polls
    /\ round \in [Polls -> 0 .. MaxRounds]
    /\ age \in [Polls -> 0 .. Lifetime]
    /\ interested \in [Polls -> SUBSET Users]
    /\ voted_ok \in [Polls -> SUBSET Users]
    /\ pending_reissue \in [Polls -> SUBSET Users]
    /\ issued_tokens \in [Polls -> SUBSET Tokens]
    /\ issuance_ledger \in [Tokens -> Users \cup {NoUser}]
    /\ spend_ledger \in [Tokens -> Polls \cup {NoPoll}]
    /\ invalidated \subseteq Tokens
    /\ votes_by_token \in [Polls -> [Tokens -> Options \cup {NoChoice}]]
    /\ results \in [Polls -> [Options -> Nat] \cup {NoResult}]
    /\ sending \in Polls \cup {NoPoll}

(***************************************************************************)
(* A new server process has an empty store; nothing is persisted.          *)
(***************************************************************************)
Init ==
    /\ link = [u \in Users |-> "none"]
    /\ polls = {} /\ released = {} /\ pollClosed = {} /\ windowClosed = {}
    /\ round = [p \in Polls |-> 0]
    /\ age = [p \in Polls |-> 0]
    /\ interested = [p \in Polls |-> {}]
    /\ voted_ok = [p \in Polls |-> {}]
    /\ pending_reissue = [p \in Polls |-> {}]
    /\ issued_tokens = [p \in Polls |-> {}]
    /\ issuance_ledger = [t \in Tokens |-> NoUser]
    /\ spend_ledger = [t \in Tokens |-> NoPoll]
    /\ invalidated = {}
    /\ votes_by_token = [p \in Polls |-> [t \in Tokens |-> NoChoice]]
    /\ results = [p \in Polls |-> NoResult]
    /\ sending = NoPoll

(***************************************************************************)
(* Queries on the store.                                                   *)
(***************************************************************************)
Online == {u \in Users : link[u] = "listed"}
AdminConnected == \E a \in Admins : link[a] # "none"
OpenWindows == released \ windowClosed

\* Mutant: freshness is judged by the spend ledger.
UnspentTokens == {t \in Tokens : spend_ledger[t] = NoPoll}

FreshTokens == {t \in Tokens : issuance_ledger[t] = NoUser}

\* Mutant: the spend ledger is not consulted.
IsSpendableUnlessInvalidated(t) ==
    IF t \in invalidated THEN "INVALIDATED" ELSE "SPENDABLE"

IsSpendable(t) ==
    IF t \in invalidated THEN "INVALIDATED"
    ELSE IF spend_ledger[t] # NoPoll THEN "SPENT" ELSE "SPENDABLE"

Totals(p) ==
    [o \in Options |-> Cardinality({t \in Tokens : votes_by_token[p][t] = o})]

(***************************************************************************)
(* Connections.  handle_login lists the user in the directory; when the    *)
(* public key was listed for somebody else (one identity file per machine, *)
(* or a second login on one connection) that user loses the entry.  The    *)
(* connections themselves are modelled in PeerDirectory.                   *)
(***************************************************************************)
Login(u) ==
    /\ \/ link' = [link EXCEPT ![u] = "listed"]
       \/ \E v \in Online \ {u}, s \in {"none", "session"} :
              link' = [link EXCEPT ![u] = "listed", ![v] = s]
    /\ UNCHANGED <<pollVars, timeVars, windowVars, ledgerVars, results, sending>>

Disconnect(u) ==
    /\ link[u] # "none"
    /\ \/ link' = [link EXCEPT ![u] = "none"]
       \/ link[u] = "listed" /\ link' = [link EXCEPT ![u] = "session"]
    /\ UNCHANGED <<pollVars, timeVars, windowVars, ledgerVars, results, sending>>

(***************************************************************************)
(* Polls.                                                                  *)
(***************************************************************************)
CreatePoll(p) ==
    /\ AdminConnected
    /\ p \notin polls
    /\ polls' = polls \cup {p}
    /\ UNCHANGED <<link, released, pollClosed, windowClosed, timeVars,
                   windowVars, ledgerVars, results, sending>>

\* _issue_tokens_for: one fresh token for each user of who.
IssueTokens(p, who) ==
    \E S \in SUBSET FreshTokens : \E to \in Bijection(S, who) :
        /\ issuance_ledger' =
               [t \in Tokens |-> IF t \in S THEN to[t] ELSE issuance_ledger[t]]
        /\ issued_tokens' = [issued_tokens EXCEPT ![p] = @ \cup S]

\* Mutant: a poll can be released again.
ReleasableTwice(p) == AdminConnected /\ p \in polls

\* The guard is `released`, not `closed`: a poll closed in draft can be released.
Releasable(p) == AdminConnected /\ p \in polls \ released

ReleasePoll(p) ==
    /\ Releasable(p)
    /\ released' = released \cup {p}
    /\ round' = [round EXCEPT ![p] = 1]
    /\ interested' = [interested EXCEPT ![p] = Online \cap Voters]
    /\ IssueTokens(p, Online \cap Voters)
    /\ UNCHANGED <<link, polls, pollClosed, windowClosed, age, voted_ok,
                   pending_reissue, spend_ledger, invalidated, votes_by_token,
                   results, sending>>

\* _close_window_and_publish
CloseAndPublish(p) ==
    /\ pollClosed' = pollClosed \cup {p}
    /\ windowClosed' = IF p \in released THEN windowClosed \cup {p} ELSE windowClosed
    /\ results' = [results EXCEPT ![p] = Totals(p)]
    /\ UNCHANGED <<link, polls, released, timeVars, windowVars, ledgerVars, sending>>

\* No guard on released or closed.  No caller in src sends "_internal".
ClosePoll(p) ==
    /\ AdminConnected
    /\ p \in polls
    /\ CloseAndPublish(p)

(***************************************************************************)
(* Votes.  A token is a bearer instrument: whoever has a copy may submit   *)
(* it, any number of times, on any connection.                             *)
(***************************************************************************)
SpendVerdict(t) ==
    IF IsSpendable(t) = "INVALIDATED" THEN "INVALIDATED"
    ELSE IF IsSpendable(t) = "SPENT" THEN "ALREADY_SPENT" ELSE "ACCEPTED"

\* Mutant: poll.closed is not looked at, only the window's flag.
AcceptingWindow(p) == p \notin windowClosed

Accepting(p) == p \notin windowClosed \cup pollClosed

\* The checks of handle_submit_vote in their order.
Verdict(t, p, c) ==
    IF t \notin issued_tokens[p] THEN "BAD_SIGNATURE"
    ELSE IF ~Accepting(p) THEN "WINDOW_CLOSED"
    ELSE IF c \notin Options THEN "BAD_CHOICE"
    ELSE SpendVerdict(t)

AcceptVote(t, p, c) ==
    /\ Verdict(t, p, c) = "ACCEPTED"
    /\ spend_ledger' = [spend_ledger EXCEPT ![t] = p]
    /\ votes_by_token' = [votes_by_token EXCEPT ![p][t] = c]
    /\ voted_ok' = [voted_ok EXCEPT ![p] = @ \cup {issuance_ledger[t]}]
    /\ pending_reissue' = [pending_reissue EXCEPT ![p] = @ \ {issuance_ledger[t]}]
    /\ UNCHANGED <<link, pollVars, timeVars, interested, issued_tokens,
                   issuance_ledger, invalidated, results, sending>>

\* Mutant: a ballot with an unknown option invalidates its token as well.
InvalidateOnBadChoice(t, p, c) ==
    /\ Verdict(t, p, c) \in {"ALREADY_SPENT", "BAD_CHOICE"}
    /\ invalidated' = invalidated \cup {t}
    /\ UNCHANGED <<link, pollVars, timeVars, windowVars, issuance_ledger,
                   spend_ledger, votes_by_token, results, sending>>

\* Mutant: the vote is removed with its token, and voted_ok is forgotten.
DoubleSpendRemovingVote(t, p, c) ==
    /\ Verdict(t, p, c) = "ALREADY_SPENT"
    /\ invalidated' = invalidated \cup {t}
    /\ votes_by_token' = [votes_by_token EXCEPT ![p][t] = NoChoice]
    /\ UNCHANGED <<link, pollVars, timeVars, windowVars, issuance_ledger,
                   spend_ledger, results, sending>>

\* _invalidate_token: neither the recorded vote nor voted_ok is touched.
DoubleSpend(t, p, c) ==
    /\ Verdict(t, p, c) = "ALREADY_SPENT"
    /\ invalidated' = invalidated \cup {t}
    /\ UNCHANGED <<link, pollVars, timeVars, windowVars, issuance_ledger,
                   spend_ledger, votes_by_token, results, sending>>

RejectVote(t, p, c) ==
    /\ Verdict(t, p, c) \in {"BAD_SIGNATURE", "WINDOW_CLOSED", "BAD_CHOICE", "INVALIDATED"}
    /\ UNCHANGED vars

SubmitVote(t, p, c) ==
    AcceptVote(t, p, c) \/ DoubleSpend(t, p, c) \/ RejectVote(t, p, c)

\* Any session may present a copy of an invalidated token, its issuer or not.
ReissueRequest(u, t, p) ==
    /\ link[u] # "none"
    /\ t \in issued_tokens[p] \cap invalidated
    /\ p \notin windowClosed
    /\ pending_reissue' = [pending_reissue EXCEPT ![p] = @ \cup {u}]
    /\ UNCHANGED <<link, pollVars, timeVars, interested, voted_ok, issued_tokens,
                   ledgerVars, results, sending>>

(***************************************************************************)
(* The window loop, and time.  Only the comparisons of age with the round  *)
(* deadline and with Lifetime are observed, so age stops at Lifetime.      *)
(***************************************************************************)
Tick ==
    /\ \E p \in OpenWindows : age[p] < Lifetime
    /\ age' = [p \in Polls |->
                 IF p \in OpenWindows /\ age[p] < Lifetime THEN age[p] + 1 ELSE age[p]]
    /\ UNCHANGED <<link, pollVars, round, windowVars, ledgerVars, results, sending>>

EveryoneVoted(p) == interested[p] # {} /\ interested[p] \subseteq voted_ok[p]

\* Mutants: closing conditions are forgotten.
MustCloseIgnoringRounds(p) == EveryoneVoted(p) \/ age[p] >= Lifetime
MustCloseWhenUnanimous(p) == EveryoneVoted(p)

MustClose(p) ==
    \/ EveryoneVoted(p)
    \/ round[p] >= MaxRounds
    \/ age[p] >= Lifetime

LoopClose(p) ==
    /\ sending = NoPoll
    /\ p \in OpenWindows
    /\ MustClose(p)
    /\ CloseAndPublish(p)

\* Mutant: off by one round.
AdvanceDueEarly(p) ==
    /\ sending = NoPoll
    /\ p \in OpenWindows
    /\ ~MustClose(p)
    /\ age[p] >= (round[p] - 1) * RoundTicks

AdvanceDue(p) ==
    /\ sending = NoPoll
    /\ p \in OpenWindows
    /\ ~MustClose(p)
    /\ age[p] >= round[p] * RoundTicks

\* The users the new sub-round issues to: all who have not voted, not only
\* those who asked.
Recipients(p) ==
    ((interested[p] \cup pending_reissue[p]) \ voted_ok[p]) \cap Online

\* Without a recipient there is no await, and pending_reissue is cleared at once.
LoopAdvance(p) ==
    /\ AdvanceDue(p)
    /\ round' = [round EXCEPT ![p] = @ + 1]
    /\ \/ /\ pending_reissue[p] = {}
          /\ UNCHANGED <<windowVars, issuance_ledger, sending>>
       \/ /\ pending_reissue[p] # {}
          /\ interested' = [interested EXCEPT ![p] = @ \cup pending_reissue[p]]
          /\ IF Recipients(p) = {}
             THEN /\ pending_reissue' = [pending_reissue EXCEPT ![p] = {}]
                  /\ UNCHANGED <<issued_tokens, issuance_ledger, sending>>
             ELSE /\ IssueTokens(p, Recipients(p))
                  /\ sending' = p
                  /\ UNCHANGED pending_reissue
          /\ UNCHANGED voted_ok
    /\ UNCHANGED <<link, pollVars, age, spend_ledger, invalidated,
                   votes_by_token, results>>

\* The last await of the sends returned: pending_reissue.clear().
FinishSending ==
    /\ sending # NoPoll
    /\ pending_reissue' = [pending_reissue EXCEPT ![sending] = {}]
    /\ sending' = NoPoll
    /\ UNCHANGED <<link, pollVars, timeVars, interested, voted_ok, issued_tokens,
                   ledgerVars, results>>

Next ==
    \/ \E u \in Users : Login(u) \/ Disconnect(u)
    \/ \E p \in Polls : CreatePoll(p) \/ ReleasePoll(p) \/ ClosePoll(p)
    \/ \E t \in Tokens, p \in Polls, c \in Choices : SubmitVote(t, p, c)
    \/ \E u \in Users, t \in Tokens, p \in Polls : ReissueRequest(u, t, p)
    \/ Tick
    \/ \E p \in Polls : LoopClose(p) \/ LoopAdvance(p)
    \/ FinishSending

\* The clock runs, each sweep of the loop visits every open window, and a
\* client reads its socket so that a send of the loop returns.
Fairness ==
    /\ WF_vars(Tick)
    /\ \A p \in Polls : WF_vars(LoopClose(p)) /\ WF_vars(LoopAdvance(p))
    /\ WF_vars(FinishSending)

Spec == Init /\ [][Next]_vars

FairSpec == Spec /\ Fairness
-----------------------------------------------------------------------------
(***************************************************************************)
(* Safety.                                                                 *)
(***************************************************************************)
\* The three records handle_submit_vote keeps of an accepted vote agree: the
\* vote, the spend ledger and voted_ok name the same tokens and their issuers,
\* and only a spent token is ever invalidated.
LedgersAgree ==
    /\ \A p \in Polls, t \in Tokens :
           (votes_by_token[p][t] # NoChoice) <=> (spend_ledger[t] = p)
    /\ \A t \in Tokens, p \in Polls : spend_ledger[t] = p => t \in issued_tokens[p]
    /\ \A p \in Polls :
           voted_ok[p] = {issuance_ledger[t] : t \in {s \in Tokens : spend_ledger[s] = p}}
    /\ \A t \in invalidated : spend_ledger[t] # NoPoll

\* Every token of a window was issued after the release, to a user the window
\* counts as interested, and for no second window; so a voter is part of the
\* turnout's denominator (_issue_tokens_for, and the order of LoopAdvance).
IssuedToInterested ==
    \A p \in Polls : \A t \in issued_tokens[p] :
        /\ p \in released
        /\ issuance_ledger[t] \in interested[p]
        /\ \A q \in Polls \ {p} : t \notin issued_tokens[q]

\* What RESULTS_PUBLISHED last said of a closed poll is still the tally of the
\* recorded votes, although voters, the loop and the administrator go on.
PublishedIsFinal ==
    \A p \in pollClosed : results[p] = Totals(p)

\* A window is closed only together with its poll, and a window opened on a
\* poll that was closed in draft never takes a vote.
ClosedTogether ==
    /\ windowClosed \subseteq released \cap pollClosed
    /\ \A p \in pollClosed \ windowClosed : voted_ok[p] = {}

\* Sub-round r never begins before the first r-1 rounds' time has passed,
\* however late or early the loop looks at the window.
RoundsPaced ==
    \A p \in released : age[p] >= (round[p] - 1) * RoundTicks

TokensOf(u, p) == {t \in issued_tokens[p] : issuance_ledger[t] = u}

\* A user is given at most one token per sub-round of a window, whatever they
\* request, and however often they reconnect.
OneTokenPerRound ==
    \A p \in Polls, u \in Users : Cardinality(TokensOf(u, p)) <= round[p]

\* The figure published as "voted" counts everybody who has voted in the window,
\* and nobody more often than there were sub-rounds, double spends, reissues and
\* tokens in other hands included.
TurnoutSound ==
    \A p \in pollClosed \cap released :
        LET n_voted == FoldFunction(+, 0, results[p])
            voters  == Cardinality(voted_ok[p])
        IN  voters <= n_voted /\ n_voted <= round[p] * voters

\* What the repository says of a double spend: the vote of an invalidated token
\* is void and is not part of what is published.
VoidNotCounted ==
    \A p \in pollClosed, t \in invalidated : votes_by_token[p][t] = NoChoice

\* The inductive invariant: TypeOK needs the ledgers to know that an issuer is
\* a user, and each of the others needs its neighbours.
IInv ==
    /\ TypeOK
    /\ LedgersAgree
    /\ IssuedToInterested
    /\ PublishedIsFinal
    /\ ClosedTogether
    /\ RoundsPaced

(***************************************************************************)
(* What a step may never do.                                               *)
(***************************************************************************)
\* A recorded vote is never changed or dropped, and no vote is recorded for a
\* poll or window that is closed.
VotesPermanent ==
    [][\A p \in Polls, t \in Tokens :
          votes_by_token'[p][t] # votes_by_token[p][t] =>
              /\ votes_by_token[p][t] = NoChoice
              /\ p \in OpenWindows \ pollClosed]_vars

(***************************************************************************)
(* Liveness.                                                               *)
(***************************************************************************)
\* Every released poll is closed and its results published without an
\* administrator, whether or not anybody votes or stays connected.
WindowsClose ==
    \A p \in Polls : (p \in released) ~> (p \in windowClosed /\ results[p] # NoResult)
(***************************************************************************)
(* The server implements Election.  A poll closed in draft is closed, even *)
(* when it is released afterwards.                                         *)
(***************************************************************************)
Phase(p) ==
    IF p \in pollClosed THEN "closed" ELSE IF p \in released THEN "open" ELSE "draft"

E == INSTANCE Election WITH
        phase   <- [p \in Polls |-> Phase(p)],
        ballots <- votes_by_token,
        result  <- results

\* Every step of the server is a step of Election or changes nothing of it.
ImplementsElection == E!Spec

\* With the fairness of the loop the server also closes what it opens.
ImplementsFairElection == E!FairSpec
=============================================================================
