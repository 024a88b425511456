--------------------------- MODULE ElectionProofs ---------------------------
(* Proofs about Election for every meaningful value of its constants. *)
EXTENDS Election, FiniteSetTheorems, TLAPS

Inv == TypeOK /\ ResultIsTally /\ OneBallotPerToken

LEMMA TallyType ==
  ASSUME Meaningful, NEW p \in Polls
  PROVE  Tally(p) \in [Options -> Nat]
  <1>1. ASSUME NEW o \in Options
        PROVE Cardinality({t \in Tokens : ballots[p][t] = o}) \in Nat
    BY FS_Subset, FS_CardinalityType DEF Meaningful
  <1>2. QED BY <1>1 DEF Tally

LEMMA OpenInv == ASSUME Inv, NEW p \in Polls, Open(p) PROVE Inv'
  <1> USE DEF Inv, Open
  <1>1. TypeOK'
    BY DEF TypeOK
  <1>2. \A q \in Polls : Tally(q)' = Tally(q)
    BY DEF Tally
  <1>3. ResultIsTally'
    BY <1>2 DEF ResultIsTally, TypeOK
  <1>4. QED BY <1>1, <1>3 DEF OneBallotPerToken

LEMMA CastInv ==
  ASSUME Inv, NEW p \in Polls, NEW t \in Tokens, NEW o \in Options, Cast(p, t, o)
  PROVE  Inv'
  <1> USE DEF Inv, Cast
  <1>1. TypeOK'
    BY DEF TypeOK
  <1>2. \A q \in Polls \ {p} : Tally(q)' = Tally(q)
    BY DEF Tally, TypeOK
  <1>3. ResultIsTally'
    BY <1>2 DEF ResultIsTally, TypeOK
  <1>4. OneBallotPerToken'
    <2> SUFFICES ASSUME NEW q \in Polls, NEW r \in Polls, NEW s \in Tokens,
                        ballots'[q][s] # NoChoice, ballots'[r][s] # NoChoice
                 PROVE  q = r
      BY DEF OneBallotPerToken
    <2>1. CASE s = t
      BY <2>1 DEF TypeOK
    <2>2. CASE s # t
      BY <2>2 DEF TypeOK, OneBallotPerToken
    <2>3. QED BY <2>1, <2>2
  <1>5. QED BY <1>1, <1>3, <1>4

LEMMA CloseInv == ASSUME Meaningful, Inv, NEW p \in Polls, Close(p) PROVE Inv'
  <1> USE DEF Inv, Close
  <1>1. TypeOK'
    BY TallyType DEF TypeOK
  <1>2. \A q \in Polls : Tally(q)' = Tally(q)
    BY DEF Tally
  <1>3. ResultIsTally'
    BY <1>2 DEF ResultIsTally, TypeOK
  <1>4. QED BY <1>1, <1>3 DEF OneBallotPerToken

LEMMA ElectionInvariance == ASSUME Meaningful PROVE Spec => []Inv
  <1>1. Init => Inv
    BY DEF Init, Inv, TypeOK, ResultIsTally, OneBallotPerToken
  <1>2. Inv /\ [Next]_vars => Inv'
    <2>1. Inv /\ UNCHANGED vars => Inv'
      BY DEF Inv, vars, TypeOK, ResultIsTally, OneBallotPerToken, Tally
    <2>2. Inv /\ Next => Inv'
      BY OpenInv, CastInv, CloseInv DEF Next
    <2>3. QED BY <2>1, <2>2
  <1>3. QED BY <1>1, <1>2, PTL DEF Spec

\* A poll shows a result exactly when it is closed, and it is the tally.
THEOREM ResultAlwaysTally == ASSUME Meaningful PROVE Spec => []ResultIsTally
  <1>1. Inv => ResultIsTally
    BY DEF Inv
  <1>2. QED BY <1>1, ElectionInvariance, PTL

\* No token is ever counted in two polls.
THEOREM TokenCountsOnce == ASSUME Meaningful PROVE Spec => []OneBallotPerToken
  <1>1. Inv => OneBallotPerToken
    BY DEF Inv
  <1>2. QED BY <1>1, ElectionInvariance, PTL
=============================================================================
