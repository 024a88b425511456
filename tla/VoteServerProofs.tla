-------------------------- MODULE VoteServerProofs --------------------------
(***************************************************************************)
(* Proofs about VoteServer for every value of its constants.               *)
(***************************************************************************)
EXTENDS VoteServer, FiniteSetTheorems, TLAPS

(***************************************************************************)
(* Arithmetic of the deadlines, and the shape of what operators return.    *)
(***************************************************************************)
\* The window's lifetime is a natural number of ticks.
LEMMA LifetimeType == Lifetime \in Nat
  BY NumbersAssumption DEF Lifetime

\* A tally maps each option to a natural number.
LEMMA TotalsType == ASSUME NEW p \in Polls PROVE Totals(p) \in [Options -> Nat]
  <1>1. ASSUME NEW o \in Options
        PROVE Cardinality({t \in Tokens : votes_by_token[p][t] = o}) \in Nat
    <2>1. IsFiniteSet({t \in Tokens : votes_by_token[p][t] = o})
      BY FinitenessAssumption, FS_Subset
    <2>2. QED BY <2>1, FS_CardinalityType
  <1>2. QED BY <1>1 DEF Totals

\* An accepted ballot passed every check of handle_submit_vote.
LEMMA AcceptedVerdict ==
  ASSUME NEW t \in Tokens, NEW p \in Polls, NEW c \in Choices,
         Verdict(t, p, c) = "ACCEPTED"
  PROVE  /\ t \in issued_tokens[p]
         /\ p \notin windowClosed \cup pollClosed
         /\ c \in Options
         /\ t \notin invalidated
         /\ spend_ledger[t] = NoPoll
  BY DEF Verdict, SpendVerdict, IsSpendable, Accepting

\* A double spend is diagnosed only for a token already spent.
LEMMA DoubleSpendVerdict ==
  ASSUME NEW t \in Tokens, NEW p \in Polls, NEW c \in Choices,
         Verdict(t, p, c) = "ALREADY_SPENT"
  PROVE  spend_ledger[t] # NoPoll
  BY DEF Verdict, SpendVerdict, IsSpendable, Accepting

\* _issue_tokens_for adds tokens that were fresh to one window, each issued to
\* one of the users named, and leaves the other entries alone.
LEMMA IssueTokensFacts ==
  ASSUME NEW p \in Polls, NEW who \in SUBSET Users, TypeOK, IssueTokens(p, who)
  PROVE  \E S \in SUBSET FreshTokens :
           /\ issued_tokens' = [issued_tokens EXCEPT ![p] = @ \cup S]
           /\ issuance_ledger' \in [Tokens -> Users \cup {NoUser}]
           /\ \A t \in S : issuance_ledger'[t] \in who
           /\ \A s, t \in S : issuance_ledger'[s] = issuance_ledger'[t] => s = t
           /\ \A t \in Tokens \ S : issuance_ledger'[t] = issuance_ledger[t]
  <1>1. PICK S \in SUBSET FreshTokens : \E to \in Bijection(S, who) :
          /\ issuance_ledger' =
               [t \in Tokens |-> IF t \in S THEN to[t] ELSE issuance_ledger[t]]
          /\ issued_tokens' = [issued_tokens EXCEPT ![p] = @ \cup S]
    BY DEF IssueTokens
  <1>2. PICK to \in Bijection(S, who) :
          /\ issuance_ledger' =
               [t \in Tokens |-> IF t \in S THEN to[t] ELSE issuance_ledger[t]]
          /\ issued_tokens' = [issued_tokens EXCEPT ![p] = @ \cup S]
    BY <1>1
  <1>3. to \in [S -> who] /\ \A s, t \in S : to[s] = to[t] => s = t
    BY DEF Bijection, Injection, IsInjective
  <1>4. S \subseteq Tokens
    BY DEF FreshTokens
  <1>5. \A t \in S : issuance_ledger'[t] = to[t] /\ to[t] \in who
    BY <1>2, <1>3, <1>4
  <1>6. \A t \in Tokens \ S : issuance_ledger'[t] = issuance_ledger[t]
    BY <1>2
  <1>7. issuance_ledger' \in [Tokens -> Users \cup {NoUser}]
    BY <1>2, <1>5, <1>6 DEF TypeOK
  <1>8. \A s, t \in S : issuance_ledger'[s] = issuance_ledger'[t] => s = t
    BY <1>3, <1>5
  <1>9. QED BY <1>2, <1>5, <1>6, <1>7, <1>8

(***************************************************************************)
(* The inductive invariant.                                                *)
(***************************************************************************)
LEMMA InitInv == Init => IInv
  <1> SUFFICES ASSUME Init PROVE IInv
    OBVIOUS
  <1>1. TypeOK
    BY LifetimeType, NumbersAssumption DEF Init, TypeOK
  <1>2. LedgersAgree
    <2>1. \A p \in Polls : {issuance_ledger[t] : t \in {s \in Tokens : spend_ledger[s] = p}} = {}
      BY NamesAssumption DEF Init
    <2>2. QED BY <2>1, NamesAssumption DEF Init, LedgersAgree
  <1>3. QED BY <1>1, <1>2 DEF Init, IInv, IssuedToInterested, PublishedIsFinal,
                  ClosedTogether, RoundsPaced

\* Steps that touch neither tokens nor votes nor closing.
LEMMA QuietInv ==
  ASSUME IInv, TypeOK', RoundsPaced',
         UNCHANGED <<released, pollClosed, windowClosed, interested, voted_ok,
                     issued_tokens, ledgerVars, results>>
  PROVE  IInv'
  <1>1. \A p \in Polls : Totals(p)' = Totals(p)
    BY DEF Totals, ledgerVars
  <1>2. LedgersAgree' /\ IssuedToInterested' /\ ClosedTogether'
    BY DEF IInv, LedgersAgree, IssuedToInterested, ClosedTogether, ledgerVars
  <1>3. PublishedIsFinal'
    BY <1>1 DEF IInv, TypeOK, PublishedIsFinal
  <1>4. QED BY <1>2, <1>3 DEF IInv

LEMMA LoginInv ==
  ASSUME IInv, NEW u \in Users, Login(u) PROVE IInv'
  <1>1. TypeOK'
    BY DEF IInv, TypeOK, Login, Online, pollVars, timeVars, windowVars, ledgerVars
  <1>2. RoundsPaced'
    BY DEF IInv, RoundsPaced, Login, timeVars, pollVars
  <1>3. QED BY <1>1, <1>2, QuietInv DEF Login, pollVars, windowVars

LEMMA DisconnectInv ==
  ASSUME IInv, NEW u \in Users, Disconnect(u) PROVE IInv'
  <1>1. TypeOK'
    BY DEF IInv, TypeOK, Disconnect, pollVars, timeVars, windowVars, ledgerVars
  <1>2. RoundsPaced'
    BY DEF IInv, RoundsPaced, Disconnect, timeVars, pollVars
  <1>3. QED BY <1>1, <1>2, QuietInv DEF Disconnect, pollVars, windowVars

LEMMA CreatePollInv ==
  ASSUME IInv, NEW p \in Polls, CreatePoll(p) PROVE IInv'
  <1>1. TypeOK'
    BY DEF IInv, TypeOK, CreatePoll, timeVars, windowVars, ledgerVars
  <1>2. RoundsPaced'
    BY DEF IInv, RoundsPaced, CreatePoll, timeVars
  <1>3. QED BY <1>1, <1>2, QuietInv DEF CreatePoll, windowVars

LEMMA ReissueRequestInv ==
  ASSUME IInv, NEW u \in Users, NEW t \in Tokens, NEW p \in Polls,
         ReissueRequest(u, t, p)
  PROVE  IInv'
  <1>1. TypeOK'
    BY DEF IInv, TypeOK, ReissueRequest, pollVars, timeVars, ledgerVars
  <1>2. RoundsPaced'
    BY DEF IInv, RoundsPaced, ReissueRequest, timeVars, pollVars
  <1>3. QED BY <1>1, <1>2, QuietInv DEF ReissueRequest, pollVars

LEMMA FinishSendingInv ==
  ASSUME IInv, FinishSending PROVE IInv'
  <1>1. TypeOK'
    BY DEF IInv, TypeOK, FinishSending, pollVars, timeVars, ledgerVars
  <1>2. RoundsPaced'
    BY DEF IInv, RoundsPaced, FinishSending, timeVars, pollVars
  <1>3. QED BY <1>1, <1>2, QuietInv DEF FinishSending, pollVars

LEMMA TickInv ==
  ASSUME IInv, Tick PROVE IInv'
  <1>1. TypeOK'
    <2>1. age' \in [Polls -> 0 .. Lifetime]
      BY LifetimeType DEF IInv, TypeOK, Tick
    <2>2. QED BY <2>1 DEF IInv, TypeOK, Tick, pollVars, windowVars, ledgerVars
  <1>2. \A p \in Polls : age'[p] >= age[p]
    BY LifetimeType DEF IInv, TypeOK, Tick
  <1>3. RoundsPaced'
    <2> SUFFICES ASSUME NEW p \in released' PROVE (age[p] >= (round[p] - 1) * RoundTicks)'
      BY DEF RoundsPaced
    <2>1. p \in released /\ p \in Polls /\ round' = round
      BY DEF Tick, pollVars, IInv, TypeOK
    <2>2. age[p] >= (round[p] - 1) * RoundTicks
      BY <2>1 DEF IInv, RoundsPaced
    <2>3. age[p] \in Int /\ age'[p] \in Int /\ round[p] \in Int
      BY <2>1, <1>1, LifetimeType DEF IInv, TypeOK
    <2>4. (round[p] - 1) * RoundTicks \in Int
      BY <2>3, NumbersAssumption
    <2>5. QED BY <2>1, <2>2, <2>3, <2>4, <1>2
  <1>4. QED BY <1>1, <1>3, QuietInv DEF Tick, pollVars, windowVars

\* Publishing repeats the tally of a closed poll and freezes that of an open one.
LEMMA CloseAndPublishInv ==
  ASSUME IInv, NEW p \in Polls, CloseAndPublish(p) PROVE IInv'
  <1> USE DEF CloseAndPublish, IInv
  <1>0. Totals(p) \in [Options -> Nat]
    BY TotalsType
  <1>1. TypeOK'
    BY <1>0 DEF TypeOK, timeVars, windowVars, ledgerVars
  <1>2. LedgersAgree'
    BY DEF LedgersAgree, windowVars, ledgerVars
  <1>3. IssuedToInterested'
    BY DEF IssuedToInterested, windowVars, ledgerVars
  <1>4. PublishedIsFinal'
    <2>1. \A q \in Polls : Totals(q)' = Totals(q)
      BY DEF Totals, ledgerVars
    <2>2. QED BY <2>1 DEF PublishedIsFinal, TypeOK
  <1>5. ClosedTogether'
    <2>1. windowClosed' \subseteq (released \cap pollClosed)'
      BY DEF ClosedTogether, timeVars
    <2>2. ASSUME NEW q \in pollClosed' \ windowClosed' PROVE voted_ok'[q] = {}
      <3>1. CASE q \in pollClosed \ windowClosed
        BY <3>1 DEF ClosedTogether, windowVars
      <3>2. CASE q = p /\ p \notin released
        <4>1. \A t \in Tokens : spend_ledger[t] # p
          BY <3>2 DEF LedgersAgree, IssuedToInterested, TypeOK
        <4>2. voted_ok[p] = {}
          BY <4>1 DEF LedgersAgree
        <4>3. QED BY <4>2, <3>2 DEF windowVars
      <3>3. QED BY <3>1, <3>2, <2>2
    <2>3. QED BY <2>1, <2>2 DEF ClosedTogether
  <1>6. RoundsPaced'
    BY DEF RoundsPaced, timeVars
  <1>7. QED BY <1>1, <1>2, <1>3, <1>4, <1>5, <1>6

\* An accepted vote enters all three records at once, in an open window.
LEMMA AcceptVoteInv ==
  ASSUME IInv, NEW t \in Tokens, NEW p \in Polls, NEW c \in Choices,
         AcceptVote(t, p, c)
  PROVE  IInv'
  <1> USE DEF AcceptVote, IInv
  <1>0. /\ t \in issued_tokens[p] /\ p \notin windowClosed \cup pollClosed
        /\ c \in Options /\ spend_ledger[t] = NoPoll
    BY AcceptedVerdict
  <1>a. issuance_ledger[t] \in Users
    BY <1>0 DEF IssuedToInterested, TypeOK
  <1>1. TypeOK'
    BY <1>0, <1>a DEF TypeOK, pollVars, timeVars
  <1>2. LedgersAgree'
    <2>1. c # NoChoice /\ p # NoPoll
      BY NamesAssumption
    <2>2. ASSUME NEW q \in Polls, NEW s \in Tokens
          PROVE  /\ (votes_by_token'[q][s] # NoChoice) <=> (spend_ledger'[s] = q)
                 /\ spend_ledger'[s] = q => s \in issued_tokens'[q]
      <3>1. /\ (votes_by_token[q][s] # NoChoice) <=> (spend_ledger[s] = q)
            /\ spend_ledger[s] = q => s \in issued_tokens[q]
        BY DEF LedgersAgree
      <3>2. CASE s # t
        BY <3>1, <3>2 DEF TypeOK
      <3>3. CASE s = t /\ q # p
        BY <3>1, <3>3, <1>0, NamesAssumption DEF TypeOK
      <3>4. CASE s = t /\ q = p
        BY <3>4, <2>1, <1>0 DEF TypeOK
      <3>5. QED BY <3>2, <3>3, <3>4
    <2>3. ASSUME NEW q \in Polls
          PROVE  voted_ok'[q] =
                   {issuance_ledger'[s] : s \in {r \in Tokens : spend_ledger'[r] = q}}
      <3>1. voted_ok[q] =
              {issuance_ledger[s] : s \in {r \in Tokens : spend_ledger[r] = q}}
        BY DEF LedgersAgree
      <3>2. {r \in Tokens : spend_ledger'[r] = q} =
              IF q = p THEN {r \in Tokens : spend_ledger[r] = q} \cup {t}
                       ELSE {r \in Tokens : spend_ledger[r] = q}
        BY <1>0, NamesAssumption DEF TypeOK
      <3>3. voted_ok'[q] = IF q = p THEN voted_ok[q] \cup {issuance_ledger[t]}
                                    ELSE voted_ok[q]
        BY DEF TypeOK
      <3>4. QED BY <3>1, <3>2, <3>3
    <2>4. ASSUME NEW s \in invalidated' PROVE spend_ledger'[s] # NoPoll
      BY <2>1 DEF LedgersAgree, TypeOK
    <2>5. QED BY <2>2, <2>3, <2>4 DEF LedgersAgree
  <1>3. IssuedToInterested'
    BY DEF IssuedToInterested, pollVars
  <1>4. PublishedIsFinal'
    <2>1. ASSUME NEW q \in Polls, q # p PROVE Totals(q)' = Totals(q)
      BY <2>1 DEF Totals, TypeOK
    <2>2. QED BY <2>1, <1>0 DEF PublishedIsFinal, TypeOK, pollVars
  <1>5. ClosedTogether'
    BY <1>0 DEF ClosedTogether, TypeOK, pollVars
  <1>6. RoundsPaced'
    BY DEF RoundsPaced, timeVars, pollVars
  <1>7. QED BY <1>1, <1>2, <1>3, <1>4, <1>5, <1>6

LEMMA DoubleSpendInv ==
  ASSUME IInv, NEW t \in Tokens, NEW p \in Polls, NEW c \in Choices,
         DoubleSpend(t, p, c)
  PROVE  IInv'
  <1> USE DEF DoubleSpend, IInv
  <1>0. spend_ledger[t] # NoPoll
    BY DoubleSpendVerdict
  <1>1. TypeOK'
    BY DEF TypeOK, pollVars, timeVars, windowVars
  <1>2. LedgersAgree'
    BY <1>0 DEF LedgersAgree, windowVars
  <1>3. IssuedToInterested' /\ ClosedTogether' /\ RoundsPaced'
    BY DEF IssuedToInterested, ClosedTogether, RoundsPaced, windowVars, pollVars, timeVars
  <1>4. PublishedIsFinal'
    <2>1. \A q \in Polls : Totals(q)' = Totals(q)
      BY DEF Totals
    <2>2. QED BY <2>1 DEF PublishedIsFinal, TypeOK, pollVars
  <1>5. QED BY <1>1, <1>2, <1>3, <1>4

\* Issuing fresh tokens to interested users keeps the token invariants: a fresh
\* token is neither spent nor part of another window.
LEMMA IssueInv ==
  ASSUME IInv, TypeOK', NEW p \in Polls, NEW who \in SUBSET Users,
         IssueTokens(p, who),
         p \in released', released \subseteq released',
         who \subseteq interested'[p],
         \A q \in Polls : issued_tokens[q] # {} => interested[q] \subseteq interested'[q],
         UNCHANGED <<voted_ok, spend_ledger, invalidated, votes_by_token>>
  PROVE  LedgersAgree' /\ IssuedToInterested'
  <1> USE DEF IInv
  <1>1. PICK S \in SUBSET FreshTokens :
           /\ issued_tokens' = [issued_tokens EXCEPT ![p] = @ \cup S]
           /\ issuance_ledger' \in [Tokens -> Users \cup {NoUser}]
           /\ \A t \in S : issuance_ledger'[t] \in who
           /\ \A t \in Tokens \ S : issuance_ledger'[t] = issuance_ledger[t]
    BY IssueTokensFacts
  <1>2. \A q \in Polls : S \cap issued_tokens[q] = {}
    BY NamesAssumption DEF FreshTokens, IssuedToInterested, TypeOK
  <1>3. \A q \in Polls : issued_tokens'[q] =
            IF q = p THEN issued_tokens[q] \cup S ELSE issued_tokens[q]
    BY <1>1 DEF TypeOK
  <1>4. S \subseteq Tokens
    BY DEF FreshTokens
  <1>5. LedgersAgree'
    <2>1. \A t \in Tokens, q \in Polls : spend_ledger[t] = q =>
              t \in issued_tokens[q] /\ t \notin S /\ issuance_ledger'[t] = issuance_ledger[t]
      BY <1>1, <1>2 DEF LedgersAgree
    <2>2. ASSUME NEW q \in Polls
          PROVE {issuance_ledger'[t] : t \in {s \in Tokens : spend_ledger[s] = q}}
              = {issuance_ledger[t] : t \in {s \in Tokens : spend_ledger[s] = q}}
      BY <2>1
    <2>3. \A t \in Tokens, q \in Polls : spend_ledger'[t] = q => t \in issued_tokens'[q]
      BY <2>1, <1>3
    <2>4. \A q \in Polls : voted_ok'[q] =
             {issuance_ledger'[t] : t \in {s \in Tokens : spend_ledger'[s] = q}}
      BY <2>2 DEF LedgersAgree
    <2>5. QED BY <2>3, <2>4 DEF LedgersAgree
  <1>6. IssuedToInterested'
    <2> SUFFICES ASSUME NEW q \in Polls, NEW t \in issued_tokens'[q]
                 PROVE  /\ q \in released'
                        /\ issuance_ledger'[t] \in interested'[q]
                        /\ \A r \in Polls \ {q} : t \notin issued_tokens'[r]
      BY DEF IssuedToInterested
    <2>1. CASE t \in S
      BY <2>1, <1>1, <1>2, <1>3
    <2>2. CASE t \notin S
      <3>1. t \in issued_tokens[q] /\ t \in Tokens
        BY <2>2, <1>3 DEF TypeOK
      <3>2. issuance_ledger'[t] = issuance_ledger[t]
        BY <2>2, <3>1, <1>1
      <3>3. QED BY <3>1, <3>2, <2>2, <1>3 DEF IssuedToInterested
    <2>3. QED BY <2>1, <2>2
  <1>7. QED BY <1>5, <1>6

LEMMA ReleasePollInv ==
  ASSUME IInv, NEW p \in Polls, ReleasePoll(p) PROVE IInv'
  <1> USE DEF ReleasePoll, Releasable, IInv
  <1>0. Online \cap Voters \in SUBSET Users
    BY DEF Online
  <1>a. issued_tokens' \in [Polls -> SUBSET Tokens]
        /\ issuance_ledger' \in [Tokens -> Users \cup {NoUser}]
    <2>1. PICK S \in SUBSET FreshTokens :
             /\ issued_tokens' = [issued_tokens EXCEPT ![p] = @ \cup S]
             /\ issuance_ledger' \in [Tokens -> Users \cup {NoUser}]
      BY <1>0, IssueTokensFacts
    <2>2. QED BY <2>1 DEF FreshTokens, TypeOK
  <1>1. TypeOK'
    <2>1. round' \in [Polls -> 0 .. MaxRounds]
      BY NumbersAssumption DEF TypeOK
    <2>2. interested' \in [Polls -> SUBSET Users]
      BY <1>0 DEF TypeOK
    <2>3. QED BY <1>a, <2>1, <2>2 DEF TypeOK
  <1>2. issued_tokens[p] = {}
    BY DEF IssuedToInterested
  <1>3. LedgersAgree' /\ IssuedToInterested'
    <2>1. Online \cap Voters \subseteq interested'[p]
      BY DEF TypeOK
    <2>2. \A q \in Polls : issued_tokens[q] # {} => interested[q] \subseteq interested'[q]
      BY <1>2 DEF TypeOK
    <2>3. QED BY <1>0, <1>1, <2>1, <2>2, IssueInv
  <1>4. PublishedIsFinal'
    <2>1. \A q \in Polls : Totals(q)' = Totals(q)
      BY DEF Totals
    <2>2. QED BY <2>1 DEF PublishedIsFinal, TypeOK
  <1>5. ClosedTogether'
    BY DEF ClosedTogether
  <1>6. RoundsPaced'
    <2> SUFFICES ASSUME NEW q \in released' PROVE (age[q] >= (round[q] - 1) * RoundTicks)'
      BY DEF RoundsPaced
    <2>1. CASE q = p
      <3>1. round'[p] = 1 /\ age'[p] = age[p] /\ age[p] \in Nat
        BY LifetimeType DEF TypeOK
      <3>2. (1 - 1) * RoundTicks = 0
        BY NumbersAssumption
      <3>3. QED BY <2>1, <3>1, <3>2
    <2>2. CASE q # p
      BY <2>2 DEF RoundsPaced, TypeOK
    <2>3. QED BY <2>1, <2>2
  <1>7. QED BY <1>1, <1>3, <1>4, <1>5, <1>6

\* A new sub-round is paced by its guard, and issues only to users it has just
\* made, or who already were, interested.
LEMMA LoopAdvanceInv ==
  ASSUME IInv, NEW p \in Polls, LoopAdvance(p) PROVE IInv'
  <1> USE DEF IInv
  <1>0. /\ p \in released /\ round[p] \in 0 .. MaxRounds - 1
        /\ age[p] >= round[p] * RoundTicks
        /\ round' = [round EXCEPT ![p] = @ + 1]
        /\ UNCHANGED <<link, pollVars, age, spend_ledger, invalidated,
                       votes_by_token, results, voted_ok>>
    BY NumbersAssumption DEF LoopAdvance, AdvanceDue, MustClose, OpenWindows, TypeOK, windowVars
  <1>1. round' \in [Polls -> 0 .. MaxRounds]
    BY <1>0, NumbersAssumption DEF TypeOK
  <1>2. RoundsPaced'
    <2> SUFFICES ASSUME NEW q \in released' PROVE (age[q] >= (round[q] - 1) * RoundTicks)'
      BY DEF RoundsPaced
    <2>1. CASE q = p
      <3>1. round'[p] - 1 = round[p]
        BY <1>0 DEF TypeOK
      <3>2. QED BY <2>1, <3>1, <1>0
    <2>2. CASE q # p
      BY <2>2, <1>0 DEF RoundsPaced, TypeOK, pollVars
    <2>3. QED BY <2>1, <2>2
  <1>3. PublishedIsFinal'
    <2>1. \A q \in Polls : Totals(q)' = Totals(q)
      BY <1>0 DEF Totals
    <2>2. QED BY <2>1, <1>0 DEF PublishedIsFinal, TypeOK, pollVars
  <1>4. ClosedTogether'
    BY <1>0 DEF ClosedTogether, pollVars
  <1>5. CASE UNCHANGED <<interested, issued_tokens, issuance_ledger, sending>> /\ pending_reissue' = pending_reissue
    <2>1. TypeOK'
      BY <1>0, <1>1, <1>5 DEF TypeOK, pollVars
    <2>2. LedgersAgree' /\ IssuedToInterested'
      BY <1>0, <1>5 DEF LedgersAgree, IssuedToInterested, pollVars
    <2>3. QED BY <2>1, <2>2, <1>2, <1>3, <1>4
  <1>6. CASE /\ interested' = [interested EXCEPT ![p] = @ \cup pending_reissue[p]]
             /\ pending_reissue' = [pending_reissue EXCEPT ![p] = {}]
             /\ UNCHANGED <<issued_tokens, issuance_ledger, sending>>
    <2>1. TypeOK'
      BY <1>0, <1>1, <1>6 DEF TypeOK, pollVars
    <2>2. LedgersAgree' /\ IssuedToInterested'
      BY <1>0, <1>6 DEF LedgersAgree, IssuedToInterested, TypeOK, pollVars
    <2>3. QED BY <2>1, <2>2, <1>2, <1>3, <1>4
  <1>7. CASE /\ interested' = [interested EXCEPT ![p] = @ \cup pending_reissue[p]]
             /\ IssueTokens(p, Recipients(p))
             /\ sending' = p
             /\ UNCHANGED pending_reissue
    <2>1. Recipients(p) \in SUBSET Users
      BY DEF Recipients, Online
    <2>2. PICK S \in SUBSET FreshTokens :
             /\ issued_tokens' = [issued_tokens EXCEPT ![p] = @ \cup S]
             /\ issuance_ledger' \in [Tokens -> Users \cup {NoUser}]
      BY <1>7, <2>1, IssueTokensFacts
    <2>3. TypeOK'
      BY <1>0, <1>1, <1>7, <2>2 DEF TypeOK, FreshTokens, pollVars
    <2>4. Recipients(p) \subseteq interested'[p]
      BY <1>7 DEF Recipients, TypeOK
    <2>5. \A q \in Polls : interested[q] \subseteq interested'[q]
      BY <1>7 DEF TypeOK
    <2>6. LedgersAgree' /\ IssuedToInterested'
      BY <1>0, <1>7, <2>1, <2>3, <2>4, <2>5, IssueInv DEF pollVars
    <2>7. QED BY <2>3, <2>6, <1>2, <1>3, <1>4
  <1>8. QED BY <1>5, <1>6, <1>7 DEF LoopAdvance, windowVars

\* Every step of the server keeps the inductive invariant.
LEMMA NextInv == IInv /\ [Next]_vars => IInv'
  <1> SUFFICES ASSUME IInv, [Next]_vars PROVE IInv'
    OBVIOUS
  <1>1. CASE \E u \in Users : Login(u) \/ Disconnect(u)
    BY <1>1, LoginInv, DisconnectInv
  <1>2. CASE \E p \in Polls : CreatePoll(p) \/ ReleasePoll(p) \/ ClosePoll(p)
    BY <1>2, CreatePollInv, ReleasePollInv, CloseAndPublishInv DEF ClosePoll
  <1>3. CASE UNCHANGED vars
    <2>1. TypeOK' /\ RoundsPaced'
      BY <1>3 DEF vars, IInv, TypeOK, RoundsPaced, pollVars, timeVars, windowVars, ledgerVars
    <2>2. QED BY <1>3, <2>1, QuietInv DEF vars, pollVars, windowVars
  <1>4. CASE \E t \in Tokens, p \in Polls, c \in Choices : SubmitVote(t, p, c)
    BY <1>4, <1>3, AcceptVoteInv, DoubleSpendInv DEF SubmitVote, RejectVote
  <1>5. CASE \E u \in Users, t \in Tokens, p \in Polls : ReissueRequest(u, t, p)
    BY <1>5, ReissueRequestInv
  <1>6. CASE Tick
    BY <1>6, TickInv
  <1>7. CASE \E p \in Polls : LoopClose(p) \/ LoopAdvance(p)
    BY <1>7, CloseAndPublishInv, LoopAdvanceInv DEF LoopClose
  <1>8. CASE FinishSending
    BY <1>8, FinishSendingInv
  <1>9. QED BY <1>1, <1>2, <1>3, <1>4, <1>5, <1>6, <1>7, <1>8 DEF Next

\* The inductive invariant holds in every reachable state of the server.
THEOREM Invariance == Spec => []IInv
  <1>1. Init => IInv
    BY InitInv
  <1>2. IInv /\ [Next]_vars => IInv'
    BY NextInv
  <1>3. QED BY <1>1, <1>2, PTL DEF Spec

\* Every variable of the store keeps its type: rounds never pass MAX_ROUNDS,
\* and whoever is recorded as an issuer or a voter is a user.
THEOREM TypeCorrect == Spec => []TypeOK
  <1>1. IInv => TypeOK
    BY DEF IInv
  <1>2. QED BY <1>1, Invariance, PTL

\* votes_by_token, spend_ledger, voted_ok and invalidated always agree
\* (handle_submit_vote and _issue_tokens_for).
THEOREM LedgersAlwaysAgree == Spec => []LedgersAgree
  <1>1. IInv => LedgersAgree
    BY DEF IInv
  <1>2. QED BY <1>1, Invariance, PTL

\* Every token belongs to one released window and to a user counted there.
THEOREM TokensOfInterested == Spec => []IssuedToInterested
  <1>1. IInv => IssuedToInterested
    BY DEF IInv
  <1>2. QED BY <1>1, Invariance, PTL

\* The totals that _close_window_and_publish broadcast stay the tally.
THEOREM ResultsAreFinal == Spec => []PublishedIsFinal
  <1>1. IInv => PublishedIsFinal
    BY DEF IInv
  <1>2. QED BY <1>1, Invariance, PTL

\* A window never outlives its poll with votes in it.
THEOREM ClosingIsConsistent == Spec => []ClosedTogether
  <1>1. IInv => ClosedTogether
    BY DEF IInv
  <1>2. QED BY <1>1, Invariance, PTL

\* A window's sub-rounds are at least RoundTicks apart from its opening.
THEOREM RoundsArePaced == Spec => []RoundsPaced
  <1>1. IInv => RoundsPaced
    BY DEF IInv
  <1>2. QED BY <1>1, Invariance, PTL

(***************************************************************************)
(* Action properties.                                                      *)
(***************************************************************************)
\* Only an accepted vote changes the recorded votes.
LEMMA OthersKeepVotes ==
  ASSUME [Next]_vars,
         ~ \E t \in Tokens, p \in Polls, c \in Choices : AcceptVote(t, p, c)
  PROVE  votes_by_token' = votes_by_token
  BY DEF Next, vars, Login, Disconnect, CreatePoll, ReleasePoll, ClosePoll, CloseAndPublish,
     SubmitVote, DoubleSpend, RejectVote, ReissueRequest, Tick, LoopClose,
     LoopAdvance, FinishSending, ledgerVars

\* An accepted vote fills one empty entry of a poll that is open.
LEMMA AcceptVoteEffect ==
  ASSUME IInv, NEW t \in Tokens, NEW p \in Polls, NEW c \in Choices,
         AcceptVote(t, p, c)
  PROVE  /\ p \in OpenWindows \ pollClosed
         /\ c \in Options
         /\ \A q \in Polls : votes_by_token[q][t] = NoChoice
         /\ \A q \in Polls, s \in Tokens :
              votes_by_token'[q][s] =
                IF q = p /\ s = t THEN c ELSE votes_by_token[q][s]
  <1>1. /\ t \in issued_tokens[p] /\ p \notin windowClosed \cup pollClosed
        /\ c \in Options /\ spend_ledger[t] = NoPoll
    BY AcceptedVerdict DEF AcceptVote
  <1>2. p \in released
    BY <1>1 DEF IInv, IssuedToInterested
  <1>3. \A q \in Polls : votes_by_token[q][t] = NoChoice
    BY <1>1, NamesAssumption DEF IInv, LedgersAgree
  <1>4. \A q \in Polls, s \in Tokens :
          votes_by_token'[q][s] = IF q = p /\ s = t THEN c ELSE votes_by_token[q][s]
    BY DEF AcceptVote, IInv, TypeOK
  <1>5. QED BY <1>1, <1>2, <1>3, <1>4 DEF OpenWindows

\* A recorded vote is never changed or dropped, and none is recorded once the
\* poll or its window is closed.
THEOREM VotesArePermanent == Spec => VotesPermanent
  <1> DEFINE Permanent ==
        \A p \in Polls, t \in Tokens :
          votes_by_token'[p][t] # votes_by_token[p][t] =>
              /\ votes_by_token[p][t] = NoChoice
              /\ p \in OpenWindows \ pollClosed
  <1>1. IInv /\ [Next]_vars => [Permanent]_vars
    <2> SUFFICES ASSUME IInv, [Next]_vars PROVE Permanent
      OBVIOUS
    <2>1. CASE \E t \in Tokens, p \in Polls, c \in Choices : AcceptVote(t, p, c)
      <3>1. PICK t \in Tokens, p \in Polls, c \in Choices : AcceptVote(t, p, c)
        BY <2>1
      <3>2. QED BY <3>1, AcceptVoteEffect
    <2>2. CASE ~ \E t \in Tokens, p \in Polls, c \in Choices : AcceptVote(t, p, c)
      BY <2>2, OthersKeepVotes
    <2>3. QED BY <2>1, <2>2
  <1>2. QED BY <1>1, Invariance, PTL DEF Spec, VotesPermanent

(***************************************************************************)
(* Refinement of Election.                                                 *)
(***************************************************************************)
\* A step that leaves votes, results and phases alone is a stutter of Election.
LEMMA StutterMaps ==
  ASSUME UNCHANGED <<votes_by_token, results>>,
         \A p \in Polls : Phase(p)' = Phase(p)
  PROVE  UNCHANGED E!vars
  BY DEF E!vars

LEMMA CloseMaps ==
  ASSUME IInv, NEW p \in Polls, CloseAndPublish(p) PROVE [E!Next]_(E!vars)
  <1> USE DEF CloseAndPublish
  <1>1. \A q \in Polls : Phase(q)' = IF q = p THEN "closed" ELSE Phase(q)
    BY DEF Phase
  <1>2. CASE p \in pollClosed
    <2>1. results' = results
      BY <1>2 DEF IInv, PublishedIsFinal, TypeOK
    <2>2. \A q \in Polls : Phase(q)' = Phase(q)
      BY <1>1, <1>2 DEF Phase
    <2>3. QED BY <2>1, <2>2, StutterMaps DEF ledgerVars
  <1>3. CASE p \notin pollClosed
    <2>1. Phase(p) # "closed"
      BY <1>3 DEF Phase
    <2>2. E!Tally(p) = Totals(p)
      BY DEF E!Tally, Totals, E!Cardinality, Cardinality
    <2>3. E!Close(p)
      BY <1>1, <2>1, <2>2 DEF E!Close, ledgerVars
    <2>4. QED BY <2>3 DEF E!Next
  <1>4. QED BY <1>2, <1>3

LEMMA ReleaseMaps ==
  ASSUME IInv, NEW p \in Polls, ReleasePoll(p) PROVE [E!Next]_(E!vars)
  <1> USE DEF ReleasePoll, Releasable
  <1>1. \A q \in Polls \ {p} : Phase(q)' = Phase(q)
    BY DEF Phase
  <1>2. CASE p \in pollClosed
    <2>1. Phase(p)' = Phase(p)
      BY <1>2 DEF Phase
    <2>2. QED BY <1>1, <2>1, StutterMaps
  <1>3. CASE p \notin pollClosed
    <2>1. Phase(p) = "draft" /\ Phase(p)' = "open"
      BY <1>3 DEF Phase
    <2>2. E!Open(p)
      BY <1>1, <2>1 DEF E!Open
    <2>3. QED BY <2>2 DEF E!Next
  <1>4. QED BY <1>2, <1>3

LEMMA AcceptVoteMaps ==
  ASSUME IInv, NEW t \in Tokens, NEW p \in Polls, NEW c \in Choices,
         AcceptVote(t, p, c)
  PROVE  [E!Next]_(E!vars)
  <1>1. /\ p \in OpenWindows \ pollClosed
        /\ c \in Options
        /\ \A q \in Polls : votes_by_token[q][t] = NoChoice
    BY AcceptVoteEffect
  <1>2. Phase(p) = "open"
    BY <1>1 DEF Phase, OpenWindows
  <1>3. \A q \in Polls : Phase(q)' = Phase(q)
    BY DEF Phase, AcceptVote, pollVars
  <1>4. E!Cast(p, t, c)
    BY <1>1, <1>2, <1>3 DEF E!Cast, AcceptVote
  <1>5. QED BY <1>1, <1>4 DEF E!Next

\* The server implements Election: its votes, phases and published totals
\* behave as if rounds, reissues, connections and the loop did not exist.
THEOREM RefinesElection == Spec => ImplementsElection
  <1>1. Init => E!Init
    BY DEF Init, E!Init, Phase
  <1>2. IInv /\ [Next]_vars => [E!Next]_(E!vars)
    <2> SUFFICES ASSUME IInv, [Next]_vars PROVE [E!Next]_(E!vars)
      OBVIOUS
    <2>1. ASSUME NEW p \in Polls, ReleasePoll(p) PROVE [E!Next]_(E!vars)
      BY <2>1, ReleaseMaps
    <2>2. ASSUME NEW p \in Polls, ClosePoll(p) \/ LoopClose(p) PROVE [E!Next]_(E!vars)
      BY <2>2, CloseMaps DEF ClosePoll, LoopClose
    <2>3. ASSUME NEW t \in Tokens, NEW p \in Polls, NEW c \in Choices, AcceptVote(t, p, c)
          PROVE  [E!Next]_(E!vars)
      BY <2>3, AcceptVoteMaps
    <2>4. CASE UNCHANGED <<votes_by_token, results, released, pollClosed>>
      <3>1. \A p \in Polls : Phase(p)' = Phase(p)
        BY <2>4 DEF Phase
      <3>2. QED BY <2>4, <3>1, StutterMaps
    <2>5. QED
      BY <2>1, <2>2, <2>3, <2>4 DEF Next, vars, Login, Disconnect, CreatePoll,
         SubmitVote, DoubleSpend, RejectVote, ReissueRequest, Tick, LoopAdvance,
         FinishSending, pollVars, ledgerVars
  <1>3. QED BY <1>1, <1>2, Invariance, PTL DEF Spec, ImplementsElection, E!Spec

(***************************************************************************)
(* How many tokens a user can be given.                                    *)
(***************************************************************************)
\* One call of _issue_tokens_for gives a user at most one token, in one window.
LEMMA IssueAddsAtMostOne ==
  ASSUME IInv, NEW p \in Polls, NEW who \in SUBSET Users, IssueTokens(p, who),
         NEW q \in Polls, NEW u \in Users
  PROVE  /\ Cardinality(TokensOf(u, q)') <= Cardinality(TokensOf(u, q)) + 1
         /\ q # p => TokensOf(u, q)' = TokensOf(u, q)
         /\ Cardinality(TokensOf(u, q)) \in Nat
         /\ Cardinality(TokensOf(u, q)') \in Nat
  <1>1. PICK S \in SUBSET FreshTokens :
           /\ issued_tokens' = [issued_tokens EXCEPT ![p] = @ \cup S]
           /\ issuance_ledger' \in [Tokens -> Users \cup {NoUser}]
           /\ \A s, t \in S : issuance_ledger'[s] = issuance_ledger'[t] => s = t
           /\ \A t \in Tokens \ S : issuance_ledger'[t] = issuance_ledger[t]
    BY IssueTokensFacts DEF IInv
  <1> DEFINE New == {t \in S : issuance_ledger'[t] = u}
  <1>2. S \subseteq Tokens /\ \A t \in S : issuance_ledger[t] = NoUser
    BY DEF FreshTokens
  <1>3. issued_tokens[q] \subseteq Tokens
    BY DEF IInv, TypeOK
  <1>4. issued_tokens'[q] = IF q = p THEN issued_tokens[q] \cup S ELSE issued_tokens[q]
    BY <1>1 DEF IInv, TypeOK
  <1>5. S \cap issued_tokens[q] = {}
    BY <1>2, NamesAssumption DEF IInv, IssuedToInterested, TypeOK
  <1>6. TokensOf(u, q)' = IF q = p THEN TokensOf(u, q) \cup New ELSE TokensOf(u, q)
    BY <1>1, <1>3, <1>4, <1>5 DEF TokensOf
  <1>7. IsFiniteSet(TokensOf(u, q))
    BY <1>3, FinitenessAssumption, FS_Subset DEF TokensOf
  <1>8. Cardinality(TokensOf(u, q)) \in Nat
    BY <1>7, FS_CardinalityType
  <1>9. CASE q # p \/ New = {}
    <2>1. TokensOf(u, q)' = TokensOf(u, q)
      BY <1>6, <1>9
    <2>2. QED BY <2>1, <1>8
  <1>10. CASE q = p /\ New # {}
    <2>1. PICK t \in New : TRUE
      BY <1>10
    <2>2. New = {t}
      BY <2>1, <1>1
    <2>3. TokensOf(u, q)' = TokensOf(u, q) \cup {t} /\ t \notin TokensOf(u, q)
      BY <2>1, <2>2, <1>5, <1>6, <1>10 DEF TokensOf
    <2>4. Cardinality(TokensOf(u, q) \cup {t}) = Cardinality(TokensOf(u, q)) + 1
      BY <2>3, <1>7, FS_AddElement
    <2>5. QED BY <2>3, <2>4, <1>8, <1>10
  <1>11. QED BY <1>9, <1>10

LEMMA InitOneToken == Init => OneTokenPerRound
  <1> SUFFICES ASSUME Init, NEW p \in Polls, NEW u \in Users
               PROVE  Cardinality(TokensOf(u, p)) <= round[p]
    BY DEF OneTokenPerRound
  <1>1. TokensOf(u, p) = {}
    BY DEF Init, TokensOf
  <1>2. QED BY <1>1, FS_EmptySet DEF Init

LEMMA NextOneToken == IInv /\ OneTokenPerRound /\ [Next]_vars => OneTokenPerRound'
  <1> SUFFICES ASSUME IInv, OneTokenPerRound, [Next]_vars,
                      NEW q \in Polls, NEW u \in Users
               PROVE  (Cardinality(TokensOf(u, q)) <= round[q])'
    BY DEF OneTokenPerRound
  <1>0. Cardinality(TokensOf(u, q)) <= round[q] /\ round[q] \in Nat
    BY NumbersAssumption DEF OneTokenPerRound, IInv, TypeOK
  <1>1. CASE /\ UNCHANGED <<issued_tokens, issuance_ledger>>
             /\ round'[q] = round[q] \/ round'[q] = round[q] + 1
    <2>1. TokensOf(u, q)' = TokensOf(u, q)
      BY <1>1 DEF TokensOf
    <2>2. Cardinality(TokensOf(u, q)) \in Nat
      <3>1. IsFiniteSet(TokensOf(u, q))
        BY FinitenessAssumption, FS_Subset DEF TokensOf, IInv, TypeOK
      <3>2. QED BY <3>1, FS_CardinalityType
    <2>3. QED BY <1>0, <1>1, <2>1, <2>2
  <1>2. ASSUME NEW p \in Polls, ReleasePoll(p)
        PROVE  (Cardinality(TokensOf(u, q)) <= round[q])'
    <2>1. Online \cap Voters \in SUBSET Users /\ IssueTokens(p, Online \cap Voters)
      BY <1>2 DEF Online, ReleasePoll
    <2>2. /\ Cardinality(TokensOf(u, q)') <= Cardinality(TokensOf(u, q)) + 1
          /\ q # p => TokensOf(u, q)' = TokensOf(u, q)
          /\ Cardinality(TokensOf(u, q)') \in Nat
      BY <2>1, IssueAddsAtMostOne
    <2>3. CASE q = p
      <3>1. TokensOf(u, q) = {}
        BY <1>2, <2>3 DEF ReleasePoll, Releasable, TokensOf, IInv, IssuedToInterested
      <3>2. round'[q] = 1
        BY <1>2, <2>3 DEF ReleasePoll, IInv, TypeOK
      <3>3. QED BY <2>2, <3>1, <3>2, FS_EmptySet
    <2>4. CASE q # p
      BY <1>0, <1>2, <2>2, <2>4 DEF ReleasePoll, IInv, TypeOK
    <2>5. QED BY <2>3, <2>4
  <1>3. ASSUME NEW p \in Polls, LoopAdvance(p)
        PROVE  (Cardinality(TokensOf(u, q)) <= round[q])'
    <2>1. round'[q] = IF q = p THEN round[q] + 1 ELSE round[q]
      BY <1>3 DEF LoopAdvance, IInv, TypeOK
    <2>2. CASE UNCHANGED <<issued_tokens, issuance_ledger>>
      BY <1>1, <2>1, <2>2
    <2>3. CASE IssueTokens(p, Recipients(p))
      <3>1. Recipients(p) \in SUBSET Users
        BY DEF Recipients, Online
      <3>2. /\ Cardinality(TokensOf(u, q)') <= Cardinality(TokensOf(u, q)) + 1
            /\ q # p => TokensOf(u, q)' = TokensOf(u, q)
            /\ Cardinality(TokensOf(u, q)) \in Nat
            /\ Cardinality(TokensOf(u, q)') \in Nat
        BY <2>3, <3>1, IssueAddsAtMostOne
      <3>3. CASE q = p
        BY <1>0, <2>1, <3>2, <3>3
      <3>4. CASE q # p
        BY <1>0, <2>1, <3>2, <3>4
      <3>5. QED BY <3>3, <3>4
    <2>4. QED BY <1>3, <2>2, <2>3 DEF LoopAdvance, windowVars
  <1>4. QED
    BY <1>1, <1>2, <1>3 DEF Next, vars, Login, Disconnect, CreatePoll, ClosePoll,
       CloseAndPublish, SubmitVote, AcceptVote, DoubleSpend, RejectVote, ReissueRequest,
       Tick, LoopClose, FinishSending, windowVars, timeVars, ledgerVars

\* A user is issued at most one token of a window per sub-round of it, so a
\* poll never records more than MAX_ROUNDS votes on one user's tokens.
THEOREM TokensPerRound == Spec => []OneTokenPerRound
  BY InitOneToken, NextOneToken, Invariance, PTL DEF Spec
=============================================================================
