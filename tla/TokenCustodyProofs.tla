-------------------------- MODULE TokenCustodyProofs --------------------------
(***************************************************************************)
(* Proofs about TokenCustody and its two instances, for any clients,       *)
(* tokens, hops and numbers of messages under way.  First what no message  *)
(* of a client can bring about, whatever is in it: types, and that one     *)
(* client at most believes it spent a token.  Then what is in the blobs    *)
(* that clients relay, from build_onion on, and on that what becomes of a  *)
(* token: it is not lost, a hop reads no more than its layer, and who      *)
(* holds a dead token is told.                                             *)
(***************************************************************************)
EXTENDS MCTokenCustody, FiniteSetTheorems, TLAPS

(***************************************************************************)
(* The inductive invariant: an answer on its way is about a token that the *)
(* server has in its ledger, so a token outside it is claimed by nobody.   *)
(***************************************************************************)
Boxes == \E S : inbox \in [Clients -> Seq(S)]

Answered ==
    \A c \in Clients : \A i \in 1..Len(inbox[c]) : inbox[c][i].type = "VOTE_RESPONSE" =>
        \E t \in ledger, st \in {"ACCEPTED", "REJECTED"} : inbox[c][i] = Response(st, t)

\* The client believes, or is about to learn, that it spent the token.
Claims(c, t) ==
    t \in spent[c] \/ \E i \in 1..Len(inbox[c]) : inbox[c][i] = Response("ACCEPTED", t)

ClaimedOnce == \A c, d \in Clients, t \in Tokens : Claims(c, t) /\ Claims(d, t) => c = d

IInv == TypeOK /\ Boxes /\ Answered /\ ClaimedOnce

\* A message that is new in the inbox of c: of the answers, a rejection of a token
\* in the ledger, or the acceptance of a new one, which only the client e gets.
MayArrive(e, c, msg) ==
    \/ msg.type # "VOTE_RESPONSE"
    \/ \E t \in ledger' : msg = Response("REJECTED", t)
    \/ c = e /\ \E t \in ledger' \ ledger : msg = Response("ACCEPTED", t)

LEMMA InitInv == Init => IInv
<1> SUFFICES ASSUME Init PROVE IInv
  OBVIOUS
<1>1. TypeOK
  BY DEF Init, TypeOK
<1>2. inbox \in [Clients -> Seq({})] /\ \A c \in Clients : Len(inbox[c]) = 0
  BY DEF Init
<1>3. Boxes /\ Answered
  BY <1>2 DEF Boxes, Answered
<1>4. ClaimedOnce
  BY <1>2 DEF Init, ClaimedOnce, Claims
<1> QED
  BY <1>1, <1>3, <1>4 DEF IInv

(***************************************************************************)
(* Inboxes.                                                                *)
(***************************************************************************)
\* What Deliver writes is there, and nothing else is new.
Adds(new, S, box, ds, msgs) ==
    /\ new \in [Clients -> Seq(S)]
    /\ \A c \in Clients : \A i \in 1..Len(new[c]) :
          \/ \E j \in 1..Len(box[c]) : new[c][i] = box[c][j]
          \/ c \in ds /\ \E j \in 1..Len(msgs) : new[c][i] = msgs[j]

LEMMA Delivered ==
    ASSUME NEW S, NEW box \in [Clients -> Seq(S)], NEW ds, NEW msgs \in Seq(S)
    PROVE  Adds(Deliver(box, ds, msgs), S, box, ds, msgs)
<1> DEFINE new == Deliver(box, ds, msgs)
<1>1. \A c \in Clients : new[c] = IF c \in ds \cap online THEN box[c] \o msgs ELSE box[c]
  BY DEF Deliver
<1>2. new \in [Clients -> Seq(S)]
  BY DEF Deliver
<1>3. ASSUME NEW c \in Clients, NEW i \in 1..Len(new[c])
      PROVE  \/ \E j \in 1..Len(box[c]) : new[c][i] = box[c][j]
             \/ c \in ds /\ \E j \in 1..Len(msgs) : new[c][i] = msgs[j]
  <2> HIDE DEF new
  <2>1. CASE c \in ds \cap online
    <3>1. new[c] = box[c] \o msgs /\ box[c] \in Seq(S)
      BY <1>1, <2>1
    <3>2. CASE i \in 1..Len(box[c])
      BY <3>1, <3>2
    <3>3. CASE i \notin 1..Len(box[c])
      <4>1. i - Len(box[c]) \in 1..Len(msgs) /\ new[c][i] = msgs[i - Len(box[c])]
        BY <1>3, <3>1, <3>3
      <4> QED
        BY <2>1, <4>1
    <3> QED
      BY <3>2, <3>3
  <2>2. CASE c \notin ds \cap online
    BY <1>1, <1>3, <2>2
  <2> QED
    BY <2>1, <2>2
<1> HIDE DEF new
<1> QED
  BY <1>2, <1>3 DEF new, Adds

LEMMA DeliverStep ==
    ASSUME Boxes, NEW ds, NEW m, NEW e, inbox' = Deliver(inbox, ds, <<m>>),
           \A c \in Clients : c \in ds => MayArrive(e, c, m)
    PROVE  /\ Boxes'
           /\ \A c \in Clients : \A i \in 1..Len(inbox'[c]) :
                 (\E j \in 1..Len(inbox[c]) : inbox'[c][i] = inbox[c][j]) \/ MayArrive(e, c, inbox'[c][i])
<1>1. PICK S : inbox \in [Clients -> Seq(S)]
  BY DEF Boxes
<1> DEFINE T == S \cup {m}
           one == <<m>>
<1>2. inbox \in [Clients -> Seq(T)] /\ one \in Seq(T)
  BY <1>1
<1>3. \A j \in 1..Len(one) : one[j] = m
  OBVIOUS
<1>0. inbox' = Deliver(inbox, ds, one)
  OBVIOUS
<1> HIDE DEF T, one
<1>4. Adds(inbox', T, inbox, ds, one)
  BY <1>0, <1>2, Delivered
<1>5. ASSUME NEW c \in Clients, NEW i \in 1..Len(inbox'[c])
      PROVE  (\E j \in 1..Len(inbox[c]) : inbox'[c][i] = inbox[c][j]) \/ MayArrive(e, c, inbox'[c][i])
  BY <1>3, <1>4, <1>5 DEF Adds
<1> QED
  BY <1>4, <1>5 DEF Boxes, Adds

\* A rejection with its invalidation, and the broadcast of that.
LEMMA CascadeStep ==
    ASSUME Boxes, NEW a \in Clients, NEW t \in ledger', NEW e, inbox' = Cascade(a, t)
    PROVE  /\ Boxes'
           /\ \A c \in Clients : \A i \in 1..Len(inbox'[c]) :
                 (\E j \in 1..Len(inbox[c]) : inbox'[c][i] = inbox[c][j]) \/ MayArrive(e, c, inbox'[c][i])
<1>1. PICK S : inbox \in [Clients -> Seq(S)]
  BY DEF Boxes
<1> DEFINE T == S \cup {Response("REJECTED", t), Invalidated(t)}
           two == <<Response("REJECTED", t), Invalidated(t)>>
           mid == Deliver(inbox, {a}, two)
           one == <<Invalidated(t)>>
<1>2. inbox \in [Clients -> Seq(T)] /\ two \in Seq(T) /\ one \in Seq(T)
  BY <1>1
<1>3. /\ \A j \in 1..Len(two) : MayArrive(e, a, two[j])
      /\ \A c \in Clients : \A j \in 1..Len(one) : MayArrive(e, c, one[j])
  <2>1. Invalidated(t).type # "VOTE_RESPONSE"
    BY DEF Invalidated
  <2>2. \A c : MayArrive(e, c, Invalidated(t)) /\ MayArrive(e, c, Response("REJECTED", t))
    BY <2>1 DEF MayArrive
  <2>3. /\ \A j \in 1..Len(two) : two[j] = Response("REJECTED", t) \/ two[j] = Invalidated(t)
        /\ \A j \in 1..Len(one) : one[j] = Invalidated(t)
    OBVIOUS
  <2> HIDE DEF two, one
  <2> QED
    BY <2>2, <2>3
<1> HIDE DEF T, two, one
<1>4. Adds(mid, T, inbox, {a}, two)
  BY <1>2, Delivered
<1>8. mid \in [Clients -> Seq(T)]
  BY <1>4 DEF Adds
<1> HIDE DEF mid
<1>5. inbox' = Deliver(mid, Clients, one)
  BY DEF Cascade, mid, two, one
<1>6. Adds(inbox', T, mid, Clients, one)
  BY <1>2, <1>5, <1>8, Delivered
<1>7. ASSUME NEW c \in Clients, NEW i \in 1..Len(inbox'[c])
      PROVE  (\E j \in 1..Len(inbox[c]) : inbox'[c][i] = inbox[c][j]) \/ MayArrive(e, c, inbox'[c][i])
  <2>1. CASE \E j \in 1..Len(mid[c]) : inbox'[c][i] = mid[c][j]
    BY <1>3, <1>4, <2>1 DEF Adds
  <2>2. CASE \E j \in 1..Len(one) : inbox'[c][i] = one[j]
    BY <1>3, <2>2
  <2> QED
    BY <1>6, <1>7, <2>1, <2>2 DEF Adds
<1> QED
  BY <1>6, <1>7 DEF Boxes, Adds

LEMMA InboxStep ==
    ASSUME IInv, [Next]_vars
    PROVE  /\ Boxes'
           /\ \E e : \A c \in Clients : \A i \in 1..Len(inbox'[c]) :
                 (\E j \in 1..Len(inbox[c]) : inbox'[c][i] = inbox[c][j]) \/ MayArrive(e, c, inbox'[c][i])
<1> DEFINE Old(c, i) == \E j \in 1..Len(inbox[c]) : inbox'[c][i] = inbox[c][j]
           Goal == Boxes' /\ \E e : \A c \in Clients : \A i \in 1..Len(inbox'[c]) :
                                Old(c, i) \/ MayArrive(e, c, inbox'[c][i])
<1> SUFFICES Goal
  OBVIOUS
<1>1. TypeOK /\ Boxes
  BY DEF IInv
<1>2. PICK S : inbox \in [Clients -> Seq(S)]
  BY <1>1 DEF Boxes
<1>3. CASE UNCHANGED inbox
  BY <1>1, <1>3 DEF Boxes
<1>4. ASSUME NEW a \in Clients, Handle(a) PROVE Goal
  <2>1. inbox[a] # <<>> /\ inbox' = [inbox EXCEPT ![a] = Tail(@)]
    BY <1>4
    DEF Handle, HandleIssued, HandleOnion, HandlePropose, HandleAccept, HandleResponse,
        HandleInvalidated, First, FirstLayer, FirstTrade, Taken
  <2>2. Boxes'
    <3>1. inbox' \in [Clients -> Seq(S)]
      BY <1>2, <2>1
    <3> QED
      BY <3>1 DEF Boxes
  <2>3. ASSUME NEW c \in Clients, NEW i \in 1..Len(inbox'[c]) PROVE Old(c, i)
    <3>1. CASE c = a
      <4>1. i + 1 \in 1..Len(inbox[c]) /\ inbox'[c][i] = inbox[c][i + 1]
        BY <1>2, <2>1, <2>3, <3>1
      <4> QED
        BY <4>1
    <3>2. CASE c # a
      BY <1>2, <2>1, <2>3, <3>2
    <3> QED
      BY <3>1, <3>2
  <2> QED
    BY <2>2, <2>3
<1>5. ASSUME NEW a \in Clients, NEW t, IssueToken(a, t) PROVE Goal
  <2>1. \A e, c : MayArrive(e, c, Issued(t))
    BY DEF MayArrive, Issued
  <2> QED
    BY <1>1, <1>5, <2>1, DeliverStep DEF IssueToken
<1>6. ASSUME NEW a \in Clients, ServeRelay(a) PROVE Goal
  <2> DEFINE m == Relay(Head(outbox[a]).to, Head(outbox[a]).body)
  <2>1. m.type = "RELAY"
    BY DEF Relay
  <2>2. inbox' = Deliver(inbox, {Head(outbox[a]).to}, <<m>>)
    BY <1>6 DEF ServeRelay
  <2> HIDE DEF m
  <2>3. \A c \in Clients : MayArrive(a, c, m)
    BY <2>1 DEF MayArrive
  <2> QED
    BY <1>1, <2>2, <2>3, DeliverStep
<1>7. ASSUME NEW a \in Clients, ServeVote(a) PROVE Goal
  <2> DEFINE t == Head(outbox[a]).token
  <2>1. \/ t \in ledger' /\ inbox' = Deliver(inbox, {a}, <<Response("REJECTED", t)>>)
        \/ t \in ledger' /\ inbox' = Cascade(a, t)
        \/ t \in ledger' \ ledger /\ inbox' = Deliver(inbox, {a}, <<Response("ACCEPTED", t)>>)
    BY <1>1, <1>7 DEF ServeVote, TypeOK
  <2> HIDE DEF t
  <2>2. CASE t \in ledger' /\ inbox' = Deliver(inbox, {a}, <<Response("REJECTED", t)>>)
    <3>1. \A c : MayArrive(a, c, Response("REJECTED", t))
      BY <2>2 DEF MayArrive
    <3> QED
      BY <1>1, <2>2, <3>1, DeliverStep
  <2>3. CASE t \in ledger' /\ inbox' = Cascade(a, t)
    BY <1>1, <2>3, CascadeStep
  <2>4. CASE t \in ledger' \ ledger /\ inbox' = Deliver(inbox, {a}, <<Response("ACCEPTED", t)>>)
    <3>1. \A c \in Clients : c \in {a} => MayArrive(a, c, Response("ACCEPTED", t))
      BY <2>4 DEF MayArrive
    <3> QED
      BY <1>1, <2>4, <3>1, DeliverStep
  <2> HIDE DEF Goal
  <2> QED
    BY <2>1, <2>2, <2>3, <2>4
<1>8. ASSUME NEW a \in Clients, GoOffline(a) PROVE Goal
  <2>1. PICK n \in 0..Len(inbox[a]) : inbox' = [inbox EXCEPT ![a] = SubSeq(@, 1, n)]
    BY <1>8 DEF GoOffline
  <2>2. Boxes'
    <3>1. inbox' \in [Clients -> Seq(S)]
      BY <1>2, <2>1
    <3> QED
      BY <3>1 DEF Boxes
  <2>3. ASSUME NEW c \in Clients, NEW i \in 1..Len(inbox'[c])
        PROVE  i \in 1..Len(inbox[c]) /\ inbox'[c][i] = inbox[c][i]
    BY <1>2, <2>1, <2>3
  <2> QED
    BY <2>2, <2>3
<1>9. CASE \E a \in Clients : ServeReissue(a) \/ ComeBack(a)
  BY <1>3, <1>9 DEF ServeReissue, ComeBack
<1>10. CASE TradeStep \/ VoteStep \/ UNCHANGED vars
  BY <1>3, <1>10
  DEF TradeStep, VoteStep, Toggle, AutoReal, AutoChaff, OfferReal, OfferChaff, CastVote, vars
<1> HIDE DEF Goal
<1> QED
  BY <1>4, <1>5, <1>6, <1>7, <1>8, <1>9, <1>10 DEF Next, IssueStep, MessageStep, Serve, ConnectionStep

(***************************************************************************)
(* Types.                                                                  *)
(***************************************************************************)
LEMMA ServerTypes ==
    ASSUME TypeOK, [Next]_vars
    PROVE  /\ issued \subseteq issued' /\ issued' \subseteq Tokens
           /\ ledger \subseteq ledger' /\ ledger' \subseteq issued'
           /\ invalidated' \subseteq ledger' /\ pending' \subseteq Clients /\ online' \subseteq Clients
<1> USE DEF TypeOK
<1>1. CASE UNCHANGED server /\ online' \subseteq Clients
  BY <1>1 DEF server
<1>2. CASE IssueStep
  BY <1>2 DEF IssueStep, IssueToken
<1>3. ASSUME NEW c \in Clients, ServeVote(c)
      PROVE  /\ issued' = issued /\ ledger \subseteq ledger' /\ ledger' \subseteq issued
             /\ invalidated' \subseteq ledger' /\ pending' = pending /\ online' = online
  BY <1>3 DEF ServeVote, Verifies
<1>4. CASE \E c \in Clients : ServeReissue(c)
  BY <1>4 DEF ServeReissue
<1>5. CASE TradeStep \/ VoteStep
  BY <1>1, <1>5
  DEF TradeStep, VoteStep, Toggle, AutoReal, AutoChaff, OfferReal, OfferChaff, CastVote
<1>6. CASE \E c \in Clients : Handle(c)
  BY <1>1, <1>6
  DEF Handle, HandleIssued, HandleOnion, HandlePropose, HandleAccept, HandleResponse, HandleInvalidated
<1>7. CASE \E c \in Clients : ServeRelay(c) \/ GoOffline(c) \/ ComeBack(c)
  BY <1>1, <1>7 DEF ServeRelay, GoOffline, ComeBack
<1>8. CASE UNCHANGED vars
  BY <1>1, <1>8 DEF vars
<1> QED
  BY <1>2, <1>3, <1>4, <1>5, <1>6, <1>7, <1>8 DEF Next, MessageStep, Serve, ConnectionStep

\* Each client holds and awaits what was issued, and has spent what is in the ledger.
LEMMA ClientTypes ==
    ASSUME IInv, [Next]_vars
    PROVE  /\ held' \in [Clients -> SUBSET issued]
           /\ original' \in [Clients -> SUBSET issued]
           /\ spent' \in [Clients -> SUBSET ledger]
           /\ awaiting' \in [Clients -> SUBSET issued]
           /\ auto' \in [Clients -> BOOLEAN]
<1> DEFINE Goal ==
           /\ held' \in [Clients -> SUBSET issued]
           /\ original' \in [Clients -> SUBSET issued]
           /\ spent' \in [Clients -> SUBSET ledger]
           /\ awaiting' \in [Clients -> SUBSET issued]
           /\ auto' \in [Clients -> BOOLEAN]
<1> SUFFICES Goal
  OBVIOUS
<1>1. TypeOK /\ Boxes /\ Answered
  BY DEF IInv
<1>2. /\ held \in [Clients -> SUBSET issued] /\ original \in [Clients -> SUBSET issued]
      /\ spent \in [Clients -> SUBSET ledger] /\ awaiting \in [Clients -> SUBSET issued]
      /\ auto \in [Clients -> BOOLEAN] /\ ledger \subseteq issued
  BY <1>1 DEF TypeOK
<1>3. CASE UNCHANGED client
  BY <1>2, <1>3 DEF client
<1>4. ASSUME NEW c \in Clients, Toggle(c) PROVE Goal
  <2>1. auto' = [auto EXCEPT ![c] = ~@] /\ UNCHANGED <<held, original, spent, awaiting>>
    BY <1>4 DEF Toggle
  <2>2. auto' \in [Clients -> BOOLEAN]
    BY <1>2, <2>1, Zenon
  <2> QED
    BY <1>2, <2>1, <2>2
<1>5. ASSUME NEW c \in Clients, HandleIssued(c) PROVE Goal
  BY <1>2, <1>5 DEF HandleIssued, Verifies
<1>6. ASSUME NEW c \in Clients, HandlePropose(c) PROVE Goal
  <2> DEFINE b == Plain(Head(inbox[c]).body)
  <2>1. /\ UNCHANGED <<original, spent, awaiting, auto>>
        /\ \/ held' = held
           \/ b.kind = "REAL" /\ Genuine(b) /\ held' = [held EXCEPT ![c] = @ \cup {b.token}]
           \/ b.kind = "REAL" /\ Genuine(b)
                /\ \E t : held' = [held EXCEPT ![c] = (@ \cup {b.token}) \ {t}]
    <3>1. ASSUME b.kind = "REAL", Genuine(b),
                 \/ held' = [held EXCEPT ![c] = held[c] \cup {b.token}]
                 \/ \E t : held' = [held EXCEPT ![c] = (held[c] \cup {b.token}) \ {t}]
          PROVE  <2>1!2
      BY <1>2, <3>1
    <3> QED
      BY <1>2, <1>6, <3>1 DEF HandlePropose
  <2> QED
    BY <1>2, <2>1 DEF Genuine, Verifies
<1>7. ASSUME NEW c \in Clients, HandleAccept(c) PROVE Goal
  BY <1>2, <1>7 DEF HandleAccept, Genuine, Verifies
<1>8. ASSUME NEW c \in Clients, HandleResponse(c) PROVE Goal
  <2> DEFINE msg == Head(inbox[c])
  <2>1. 1 \in 1..Len(inbox[c]) /\ msg = inbox[c][1] /\ msg.type = "VOTE_RESPONSE"
    BY <1>1, <1>8 DEF HandleResponse, First, Boxes
  <2>2. msg.token \in ledger
    <3>1. PICK u \in ledger, st \in {"ACCEPTED", "REJECTED"} : msg = Response(st, u)
      BY <1>1, <2>1 DEF Answered
    <3> QED
      BY <3>1 DEF Response
  <2>3. /\ held' = [held EXCEPT ![c] = @ \ {msg.token}] /\ UNCHANGED <<original, auto>>
        /\ spent' = spent \/ spent' = [spent EXCEPT ![c] = @ \cup {msg.token}]
        /\ awaiting' = awaiting \/ awaiting' = [awaiting EXCEPT ![c] = @ \cup {msg.token}]
    BY <1>8 DEF HandleResponse
  <2> HIDE DEF msg
  <2> QED
    BY <1>2, <2>2, <2>3
<1>9. ASSUME NEW c \in Clients, HandleInvalidated(c) PROVE Goal
  <2> DEFINE t == Head(inbox[c]).token
  <2>1. /\ held' = [held EXCEPT ![c] = @ \ {t}] /\ spent' = [spent EXCEPT ![c] = @ \ {t}]
        /\ original' = [original EXCEPT ![c] = @ \ {t}] /\ UNCHANGED auto
        /\ awaiting' = awaiting
           \/ (t \in held[c] \cup spent[c] /\ awaiting' = [awaiting EXCEPT ![c] = @ \cup {t}])
    BY <1>9 DEF HandleInvalidated
  <2> HIDE DEF t
  <2> QED
    BY <1>2, <2>1
<1>10. CASE \E c \in Clients : HandleOnion(c) \/ Serve(c) \/ GoOffline(c) \/ ComeBack(c)
  BY <1>3, <1>10 DEF HandleOnion, Serve, ServeRelay, ServeVote, ServeReissue, GoOffline, ComeBack
<1>11. CASE IssueStep \/ VoteStep \/ UNCHANGED vars \/ \E c, d \in Clients : AutoReal(c, d) \/ AutoChaff(c, d)
            \/ OfferChaff(c, d) \/ \E t \in Tokens : OfferReal(c, d, t)
  BY <1>3, <1>11
  DEF IssueStep, IssueToken, VoteStep, CastVote, AutoReal, AutoChaff, OfferReal, OfferChaff, vars
<1> HIDE DEF Goal
<1> QED
  BY <1>4, <1>5, <1>6, <1>7, <1>8, <1>9, <1>10, <1>11
  DEF Next, TradeStep, MessageStep, Handle, ConnectionStep

LEMMA TypeStep == ASSUME IInv, [Next]_vars PROVE TypeOK'
<1>1. TypeOK
  BY DEF IInv
<1> QED
  BY <1>1, ServerTypes, ClientTypes DEF TypeOK

(***************************************************************************)
(* Claims.                                                                 *)
(***************************************************************************)
LEMMA AnsweredStep == ASSUME IInv, [Next]_vars PROVE Answered'
<1>1. TypeOK /\ Answered
  BY DEF IInv
<1>2. ledger \subseteq ledger'
  BY <1>1, ServerTypes
<1>3. ASSUME NEW c \in Clients, NEW i \in 1..Len(inbox'[c]), inbox'[c][i].type = "VOTE_RESPONSE"
      PROVE  \E t \in ledger', st \in {"ACCEPTED", "REJECTED"} : inbox'[c][i] = Response(st, t)
  <2>1. PICK e : (\E j \in 1..Len(inbox[c]) : inbox'[c][i] = inbox[c][j]) \/ MayArrive(e, c, inbox'[c][i])
    BY <1>3, InboxStep
  <2>2. CASE \E j \in 1..Len(inbox[c]) : inbox'[c][i] = inbox[c][j]
    BY <1>1, <1>2, <1>3, <2>2 DEF Answered
  <2>3. CASE MayArrive(e, c, inbox'[c][i])
    BY <1>3, <2>3 DEF MayArrive
  <2> QED
    BY <2>1, <2>2, <2>3
<1> QED
  BY <1>3 DEF Answered

\* Who believes it spent a token has had its acceptance.
LEMMA SpentStep ==
    ASSUME IInv, [Next]_vars, NEW c \in Clients, NEW t \in spent'[c]
    PROVE  Claims(c, t)
<1>1. TypeOK /\ Boxes /\ Answered
  BY DEF IInv
<1>2. spent \in [Clients -> SUBSET ledger]
  BY <1>1 DEF TypeOK
<1>3. CASE UNCHANGED spent
  BY <1>3 DEF Claims
<1>4. ASSUME NEW d \in Clients, HandleResponse(d) PROVE Claims(c, t)
  <2> DEFINE msg == Head(inbox[d])
  <2>1. 1 \in 1..Len(inbox[d]) /\ msg = inbox[d][1] /\ msg.type = "VOTE_RESPONSE"
    BY <1>1, <1>4 DEF HandleResponse, First, Boxes
  <2>2. PICK u \in ledger, st \in {"ACCEPTED", "REJECTED"} : msg = Response(st, u)
    BY <1>1, <2>1 DEF Answered
  <2>3. spent' = spent \/ (msg.status = "ACCEPTED" /\ spent' = [spent EXCEPT ![d] = @ \cup {msg.token}])
    BY <1>4 DEF HandleResponse
  <2>4. msg.status = st /\ msg.token = u
    BY <2>2 DEF Response
  <2>5. CASE spent' = spent
    BY <1>3, <2>5
  <2>6. CASE st = "ACCEPTED" /\ spent' = [spent EXCEPT ![d] = @ \cup {u}]
    BY <1>2, <2>1, <2>2, <2>6 DEF Claims
  <2> QED
    BY <2>3, <2>4, <2>5, <2>6
<1>5. ASSUME NEW d \in Clients, HandleInvalidated(d) PROVE Claims(c, t)
  BY <1>2, <1>5 DEF HandleInvalidated, Claims
<1>6. CASE \E d \in Clients : HandleIssued(d) \/ HandleOnion(d) \/ HandlePropose(d) \/ HandleAccept(d)
  BY <1>3, <1>6 DEF HandleIssued, HandleOnion, HandlePropose, HandleAccept, client
<1>7. CASE \E d \in Clients : Serve(d) \/ GoOffline(d) \/ ComeBack(d)
  BY <1>3, <1>7 DEF Serve, ServeRelay, ServeVote, ServeReissue, GoOffline, ComeBack, client
<1>8. CASE IssueStep \/ TradeStep \/ VoteStep \/ UNCHANGED vars
  BY <1>3, <1>8
  DEF IssueStep, IssueToken, TradeStep, VoteStep, Toggle, AutoReal, AutoChaff, OfferReal, OfferChaff,
      CastVote, vars, client
<1> QED
  BY <1>4, <1>5, <1>6, <1>7, <1>8 DEF Next, MessageStep, Handle, ConnectionStep

LEMMA ClaimedStep == ASSUME IInv, [Next]_vars PROVE ClaimedOnce'
<1>1. TypeOK /\ Answered /\ ClaimedOnce
  BY DEF IInv
<1>2. PICK e : \A c \in Clients : \A i \in 1..Len(inbox'[c]) :
                  (\E j \in 1..Len(inbox[c]) : inbox'[c][i] = inbox[c][j]) \/ MayArrive(e, c, inbox'[c][i])
  BY InboxStep
\* A claim is an old one, or the one claim of a token that was not in the ledger.
<1>3. ASSUME NEW c \in Clients, NEW t, Claims(c, t)' PROVE Claims(c, t) \/ (c = e /\ t \notin ledger)
  <2>1. CASE t \in spent'[c]
    BY <2>1, SpentStep
  <2>2. CASE \E i \in 1..Len(inbox'[c]) : inbox'[c][i] = Response("ACCEPTED", t)
    <3>1. PICK i \in 1..Len(inbox'[c]) : inbox'[c][i] = Response("ACCEPTED", t)
      BY <2>2
    <3>2. CASE \E j \in 1..Len(inbox[c]) : inbox'[c][i] = inbox[c][j]
      BY <3>1, <3>2 DEF Claims
    <3>3. CASE MayArrive(e, c, inbox'[c][i])
      <4>1. /\ \A u : Response("ACCEPTED", t) # Response("REJECTED", u)
            /\ \A u : Response("ACCEPTED", t) = Response("ACCEPTED", u) => t = u
            /\ Response("ACCEPTED", t).type = "VOTE_RESPONSE"
        BY DEF Response
      <4> QED
        BY <3>1, <3>3, <4>1 DEF MayArrive
    <3> QED
      BY <1>2, <3>2, <3>3
  <2> QED
    BY <1>3, <2>1, <2>2 DEF Claims
<1>4. ASSUME NEW c \in Clients, NEW t, Claims(c, t) PROVE t \in ledger
  <2>1. CASE t \in spent[c]
    BY <1>1, <2>1 DEF TypeOK
  <2>2. CASE \E i \in 1..Len(inbox[c]) : inbox[c][i] = Response("ACCEPTED", t)
    <3>1. PICK i \in 1..Len(inbox[c]) : inbox[c][i] = Response("ACCEPTED", t)
      BY <2>2
    <3>2. inbox[c][i].type = "VOTE_RESPONSE" /\ inbox[c][i].token = t
      BY <3>1 DEF Response
    <3>3. PICK u \in ledger, st \in {"ACCEPTED", "REJECTED"} : inbox[c][i] = Response(st, u)
      BY <1>1, <3>2 DEF Answered
    <3>4. inbox[c][i].token = u
      BY <3>3 DEF Response
    <3> QED
      BY <3>2, <3>4
  <2> QED
    BY <1>4, <2>1, <2>2 DEF Claims
<1>5. ASSUME NEW c \in Clients, NEW d \in Clients, NEW t \in Tokens, Claims(c, t)', Claims(d, t)'
      PROVE  c = d
  BY <1>1, <1>3, <1>4, <1>5 DEF ClaimedOnce
<1> QED
  BY <1>5 DEF ClaimedOnce

(***************************************************************************)
(* The theorems.                                                           *)
(***************************************************************************)
LEMMA InvAlways == Spec => []IInv
<1>1. IInv /\ [Next]_vars => IInv'
  BY TypeStep, InboxStep, AnsweredStep, ClaimedStep DEF IInv
<1> QED
  BY <1>1, InitInv, PTL DEF Spec

\* A client holds, expects and has traded for only what the server has issued, and
\* takes for spent only what is in its ledger (client/controller.py), whatever
\* messages of other clients contain.
THEOREM CustodyTypes == Spec => []TypeOK
<1>1. IInv => TypeOK
  BY DEF IInv
<1> QED
  BY <1>1, InvAlways, PTL

\* With copies of a token at several clients, cast again and again through any
\* exits, over connections that break, one client at most comes to believe that
\* the vote was accepted through it.
THEOREM OneSpender == Spec => []SpentOnce
<1>1. IInv => SpentOnce
  <2>1. SUFFICES ASSUME Boxes, ClaimedOnce, NEW c \in Clients, NEW d \in Clients, NEW t \in Tokens,
                        t \in spent[c] \/ Response("ACCEPTED", t) \in Range(inbox[c]),
                        t \in spent[d] \/ Response("ACCEPTED", t) \in Range(inbox[d])
                 PROVE  c = d
    BY DEF IInv, SpentOnce
  <2>2. \A b \in Clients : DOMAIN inbox[b] = 1..Len(inbox[b])
    BY <2>1 DEF Boxes
  <2>3. Claims(c, t) /\ Claims(d, t)
    BY <2>1, <2>2 DEF Claims, Range
  <2> QED
    BY <2>1, <2>3 DEF ClaimedOnce
<1> QED
  BY <1>1, InvAlways, PTL

(***************************************************************************)
(* Onions.                                                                 *)
(***************************************************************************)
\* One layer more around what the hop is to send on (build_onion).
Around(hop, below) == [next |-> hop, blob |-> WrapLayer(below.blob, below.next, hop)]

Wrapping == INSTANCE SeqFolds WITH Op <- Around

\* To whom what is left of a path goes, and what is sent there.
Onward(path) == IF path = <<>> THEN SERVER ELSE Head(path)
Below(final, path) == IF path = <<>> THEN final ELSE BuildOnion(final, path)

LEMMA OnionFold ==
    ASSUME NEW final, NEW path
    PROVE  BuildOnion(final, path) = Wrapping!Right(path, [next |-> SERVER, blob |-> final]).blob
BY DEF BuildOnion, Wrapping!Right, Around, FoldRight, Wrapping!FoldRight,
       MapThenFoldSet, Wrapping!MapThenFoldSet, Min, Wrapping!Min

\* The outermost layer of an onion is sealed to the first hop, and says where to
\* send what.
LEMMA OnionLayer ==
    ASSUME NEW final, NEW path \in Seq(Clients), path # <<>>
    PROVE  BuildOnion(final, path)
             = Seal(Head(path), [next |-> Onward(Tail(path)), blob |-> Below(final, Tail(path))])
<1> DEFINE base == [next |-> SERVER, blob |-> final]
           rest == Wrapping!Right(Tail(path), base)
<1>1. Wrapping!Right(path, base) = Around(Head(path), rest)
  BY Wrapping!RightHead
<1>2. rest.next = Onward(Tail(path)) /\ rest.blob = Below(final, Tail(path))
  <2>1. CASE Tail(path) = <<>>
    <3>1. rest = base
      BY <2>1, Wrapping!RightEmpty
    <3> QED
      BY <2>1, <3>1 DEF Onward, Below
  <2>2. CASE Tail(path) # <<>>
    <3>1. Tail(path) \in Seq(Clients)
      OBVIOUS
    <3>2. rest = Around(Head(Tail(path)), Wrapping!Right(Tail(Tail(path)), base))
      BY <2>2, <3>1, Wrapping!RightHead
    <3>3. rest.next = Head(Tail(path))
      <4> HIDE DEF rest
      <4>1. \A h, x : Around(h, x).next = h
        BY DEF Around
      <4> QED
        BY <3>2, <4>1
    <3>4. rest.blob = BuildOnion(final, Tail(path))
      BY OnionFold
    <3> QED
      BY <2>2, <3>3, <3>4 DEF Onward, Below
  <2> QED
    BY <2>1, <2>2
<1>3. BuildOnion(final, path) = Wrapping!Right(path, base).blob
  BY OnionFold
<1>4. Around(Head(path), rest).blob = WrapLayer(rest.blob, rest.next, Head(path))
  BY DEF Around
<1> HIDE DEF rest, base
<1> QED
  BY <1>1, <1>2, <1>3, <1>4 DEF WrapLayer

\* A blob is opened by the client it is sealed to and by no other, and read as it
\* was written.
LEMMA SealOpens ==
    ASSUME NEW c, NEW d, NEW plain
    PROVE  (Opens(c, Seal(d, plain)) <=> c = d) /\ Plain(Seal(d, plain)) = plain
BY DEF Opens, Seal, Plain, Encrypt, Decrypts, Shared

(***************************************************************************)
(* What is relayed: a trade message that is sealed to whom it goes to, or  *)
(* what is left of the onion of a vote, on its way to the first of the     *)
(* hops that are left.                                                     *)
(***************************************************************************)
Hops == {p \in UNION {[1..n -> Clients] : n \in 1..MaxHops} : IsInjective(p)}

Carries(m, t) == \E p \in Hops : m.to = Head(p) /\ m.body = BuildOnion(Vote(t), p)

Layer(m) == \E t \in Tokens : Carries(m, t)

Kinds == {"REAL", "CHAFF"}
Offers == {Propose(k, d, t) : k \in Kinds, d \in Clients, t \in Tokens \cup {NoToken}}
Answers == {Accept(k, t) : k \in Kinds, t \in Tokens \cup {NoToken}}

Trade(m) == m.to \in Clients /\ \E w \in Offers \cup Answers : m.body = Seal(m.to, w)

LEMMA HopsAre ==
    ASSUME NEW p \in Hops
    PROVE  /\ p \in Seq(Clients) /\ p # <<>> /\ Head(p) \in Clients
           /\ Tail(p) # <<>> => Tail(p) \in Hops /\ Head(Tail(p)) # Head(p)
<1>1. PICK n \in 1..MaxHops : p \in [1..n -> Clients]
  BY DEF Hops
<1>2. n \in Nat /\ n >= 1 /\ p \in Seq(Clients) /\ Len(p) = n /\ MaxHops \in Nat
  BY <1>1, CustodyAssumption
<1>3. p # <<>> /\ Head(p) = p[1] /\ p[1] \in Clients
  BY <1>1, <1>2
<1>4. ASSUME Tail(p) # <<>> PROVE Tail(p) \in Hops /\ Head(Tail(p)) # Head(p)
  <2> DEFINE q == Tail(p)
  <2>1. q \in Seq(Clients) /\ Len(q) = n - 1 /\ \A i \in 1..Len(q) : q[i] = p[i + 1]
    BY <1>2, <1>3
  <2>2. n - 1 \in 1..MaxHops /\ 1 \in 1..Len(q)
    BY <1>2, <1>4, <2>1
  <2> HIDE DEF q
  <2>3. q \in [1..(n - 1) -> Clients] /\ DOMAIN q = 1..(n - 1)
    BY <2>1
  <2>4. IsInjective(p)
    BY DEF Hops
  <2>5. \A i, j \in 1..n : p[i] = p[j] => i = j
    BY <1>1, <2>4 DEF IsInjective
  <2>6. \A i, j \in 1..(n - 1) : q[i] = q[j] => i = j
    <3>1. SUFFICES ASSUME NEW i \in 1..(n - 1), NEW j \in 1..(n - 1), q[i] = q[j] PROVE i = j
      OBVIOUS
    <3>2. i + 1 \in 1..n /\ j + 1 \in 1..n /\ p[i + 1] = p[j + 1]
      BY <1>2, <2>1, <3>1
    <3>3. i + 1 = j + 1
      BY <2>5, <3>2
    <3> QED
      BY <1>2, <3>3
  <2>7. IsInjective(q)
    BY <2>3, <2>6 DEF IsInjective
  <2>8. Head(q) = q[1] /\ q[1] = p[2] /\ 2 \in 1..n /\ 1 \in 1..n
    BY <1>2, <2>1, <2>2
  <2>9. p[2] # p[1]
    BY <2>5, <2>8
  <2>10. q \in Hops
    BY <2>2, <2>3, <2>7 DEF Hops
  <2> QED
    BY <1>3, <2>8, <2>9, <2>10 DEF q
<1> QED
  BY <1>2, <1>3, <1>4

\* A path that a client picks, and whom it hands the onion to.
LEMMA PathsAre ==
    ASSUME NEW c \in Clients, NEW p \in Paths(c), p # <<>>
    PROVE  p \in Hops /\ Head(p) \in Clients \ {c}
<1> DEFINE peers == Clients \ {c}
           n == IF Cardinality(peers) < MaxHops THEN Cardinality(peers) ELSE MaxHops
<1>1. IsFiniteSet(peers)
  BY CustodyAssumption, FS_Subset
<1>2. Cardinality(peers) \in Nat
  BY <1>1, FS_CardinalityType
<1>3. n \in Nat /\ n <= MaxHops /\ MaxHops \in Nat
  BY <1>2, CustodyAssumption
<1>4. p \in [1..n -> peers] /\ IsInjective(p)
  BY DEF Paths
<1> HIDE DEF n, peers
<1>5. n # 0
  <2>1. CASE n = 0
    <3>1. p = <<>>
      BY <1>4, <2>1
    <3> QED
      BY <3>1
  <2> QED
    BY <2>1
<1>6. n \in 1..MaxHops /\ p \in [1..n -> Clients]
  BY <1>3, <1>4, <1>5 DEF peers
<1>7. Head(p) = p[1] /\ 1 \in 1..n
  BY <1>6
<1>8. p \in Hops
  BY <1>4, <1>6 DEF Hops
<1> QED
  BY <1>4, <1>7, <1>8 DEF peers

\* Whom a trade message is for reads it, and it is never taken for a layer.
LEMMA TradeRead ==
    ASSUME NEW m, Trade(m), NEW c
    PROVE  /\ ~Peels(c, m.body)
           /\ Opens(c, m.body) <=> c = m.to
           /\ Plain(m.body) \in Offers \cup Answers
<1>1. PICK w \in Offers \cup Answers : m.body = Seal(m.to, w)
  BY DEF Trade
<1>2. (Opens(c, m.body) <=> c = m.to) /\ Plain(m.body) = w
  BY <1>1, SealOpens
<1>3. DOMAIN w = {"action", "kind", "from", "token"} \/ DOMAIN w = {"action", "kind", "token"}
  BY DEF Offers, Answers, Propose, Accept
<1>4. "next" \notin DOMAIN w
  BY <1>3
<1> QED
  BY <1>2, <1>4 DEF Peels

\* A hop of a vote reads its layer: it submits the vote, or hands on what is left
\* to another hop.
LEMMA LayerRead ==
    ASSUME NEW m, NEW t, Carries(m, t), NEW c
    PROVE  /\ m.to \in Clients
           /\ Opens(c, m.body) => c = m.to /\ Peels(c, m.body)
           /\ \/ IsExit(Plain(m.body)) /\ Plain(m.body).blob = Vote(t)
              \/ /\ ~IsExit(Plain(m.body))
                 /\ Plain(m.body).next \in Clients /\ Plain(m.body).next # m.to
                 /\ Carries(Relay(Plain(m.body).next, Plain(m.body).blob), t)
<1>1. PICK p \in Hops : m.to = Head(p) /\ m.body = BuildOnion(Vote(t), p)
  BY DEF Carries
<1>2. p \in Seq(Clients) /\ p # <<>> /\ Head(p) \in Clients
  BY HopsAre
<1> DEFINE layer == [next |-> Onward(Tail(p)), blob |-> Below(Vote(t), Tail(p))]
<1>3. m.body = Seal(m.to, layer)
  BY <1>1, <1>2, OnionLayer
<1>4. (Opens(c, m.body) <=> c = m.to) /\ Plain(m.body) = layer
  BY <1>3, SealOpens
<1>5. Opens(c, m.body) => c = m.to /\ Peels(c, m.body)
  BY <1>4 DEF Peels
<1>6. CASE Tail(p) = <<>>
  <2>1. layer.next = SERVER /\ layer.blob = Vote(t)
    BY <1>6 DEF Onward, Below
  <2> QED
    BY <1>1, <1>2, <1>4, <1>5, <2>1 DEF IsExit
<1>7. CASE Tail(p) # <<>>
  <2>1. layer.next = Head(Tail(p)) /\ layer.blob = BuildOnion(Vote(t), Tail(p))
    BY <1>7 DEF Onward, Below
  <2>2. Tail(p) \in Hops /\ Head(Tail(p)) # Head(p) /\ Head(Tail(p)) \in Clients
    BY <1>7, HopsAre
  <2>3. ~IsExit(layer)
    BY <2>1, <2>2, CustodyAssumption DEF IsExit
  <2> DEFINE r == Relay(layer.next, layer.blob)
  <2>4. r.to = layer.next /\ r.body = layer.blob
    BY DEF Relay
  <2> HIDE DEF layer, r
  <2>5. Carries(r, t)
    BY <2>1, <2>2, <2>4 DEF Carries
  <2> QED
    BY <1>1, <1>2, <1>4, <1>5, <2>1, <2>2, <2>3, <2>5 DEF r
<1> QED
  BY <1>6, <1>7

(***************************************************************************)
(* Queues, as the sets of the messages in them.                            *)
(***************************************************************************)
OutBoxes == \E S : outbox \in [Clients -> Seq(S)]

In(c) == Range(inbox[c])
Out(c) == Range(outbox[c])

LEMMA RangeAppended ==
    ASSUME NEW S, NEW s \in Seq(S), NEW m
    PROVE  Range(Append(s, m)) = Range(s) \cup {m}
<1> DEFINE t == Append(s, m)
<1>1. /\ DOMAIN t = 1..(Len(s) + 1) /\ DOMAIN s = 1..Len(s) /\ Len(s) \in Nat
      /\ t[Len(s) + 1] = m /\ \A i \in 1..Len(s) : t[i] = s[i]
  OBVIOUS
<1> HIDE DEF t
<1>2. \A i \in DOMAIN t : i \in DOMAIN s \/ i = Len(s) + 1
  BY <1>1
<1>3. Len(s) + 1 \in DOMAIN t /\ \A i \in DOMAIN s : i \in DOMAIN t
  BY <1>1
<1> QED
  BY <1>1, <1>2, <1>3 DEF Range, t

LEMMA RangeTaken ==
    ASSUME NEW S, NEW s \in Seq(S), s # <<>>
    PROVE  /\ Range(Tail(s)) \subseteq Range(s) /\ Head(s) \in Range(s)
           /\ Range(s) \subseteq Range(Tail(s)) \cup {Head(s)}
<1> DEFINE t == Tail(s)
<1>1. /\ DOMAIN t = 1..(Len(s) - 1) /\ DOMAIN s = 1..Len(s) /\ Len(s) \in Nat /\ Len(s) >= 1
      /\ \A i \in 1..(Len(s) - 1) : t[i] = s[i + 1]
      /\ Head(s) = s[1]
  OBVIOUS
<1> HIDE DEF t
<1>2. Head(s) \in Range(s)
  BY <1>1 DEF Range
<1>3. ASSUME NEW i \in DOMAIN t PROVE i + 1 \in DOMAIN s /\ t[i] = s[i + 1]
  BY <1>1, <1>3
<1>4. ASSUME NEW i \in DOMAIN s, i # 1 PROVE i - 1 \in DOMAIN t /\ t[i - 1] = s[i]
  BY <1>1, <1>4
<1>5. Range(t) \subseteq Range(s)
  BY <1>3 DEF Range
<1>6. Range(s) \subseteq Range(t) \cup {Head(s)}
  BY <1>1, <1>4 DEF Range
<1> QED
  BY <1>2, <1>5, <1>6 DEF t

LEMMA RangeConcat ==
    ASSUME NEW S, NEW s \in Seq(S), NEW r \in Seq(S)
    PROVE  Range(s \o r) = Range(s) \cup Range(r)
<1> DEFINE t == s \o r
<1>1. /\ DOMAIN t = 1..(Len(s) + Len(r)) /\ DOMAIN s = 1..Len(s) /\ DOMAIN r = 1..Len(r)
      /\ Len(s) \in Nat /\ Len(r) \in Nat
      /\ \A i \in 1..Len(s) : t[i] = s[i]
      /\ \A i \in 1..Len(r) : t[i + Len(s)] = r[i]
  OBVIOUS
<1> HIDE DEF t
<1>2. ASSUME NEW i \in DOMAIN t, i \notin DOMAIN s
      PROVE  i - Len(s) \in DOMAIN r /\ t[i] = r[i - Len(s)]
  <2>1. i - Len(s) \in 1..Len(r) /\ (i - Len(s)) + Len(s) = i
    BY <1>1, <1>2
  <2> QED
    BY <1>1, <2>1
<1>3. \A i \in DOMAIN r : i + Len(s) \in DOMAIN t
  BY <1>1
<1>4. \A i \in DOMAIN s : i \in DOMAIN t
  BY <1>1
<1>5. Range(t) \subseteq Range(s) \cup Range(r)
  BY <1>1, <1>2 DEF Range
<1>6. Range(s) \subseteq Range(t) /\ Range(r) \subseteq Range(t)
  BY <1>1, <1>3, <1>4 DEF Range
<1> QED
  BY <1>5, <1>6 DEF t

LEMMA RangeCut ==
    ASSUME NEW S, NEW s \in Seq(S), NEW n \in 0..Len(s)
    PROVE  Range(SubSeq(s, 1, n)) \subseteq Range(s)
<1> DEFINE t == SubSeq(s, 1, n)
<1>1. DOMAIN t = 1..n /\ DOMAIN s = 1..Len(s) /\ \A i \in 1..n : t[i] = s[i]
  OBVIOUS
<1> HIDE DEF t
<1>2. \A i \in DOMAIN t : i \in DOMAIN s
  BY <1>1
<1> QED
  BY <1>1, <1>2 DEF Range, t

\* A message is taken from an inbox, and from an outbox.
LEMMA Takes ==
    ASSUME Boxes, NEW a \in Clients, inbox[a] # <<>>, Taken(a)
    PROVE  /\ Boxes' /\ Head(inbox[a]) \in In(a)
           /\ \A c \in Clients : In(c)' \subseteq In(c) /\ (c # a => In(c)' = In(c))
           /\ In(a) \subseteq In(a)' \cup {Head(inbox[a])}
<1>1. PICK S : inbox \in [Clients -> Seq(S)]
  BY DEF Boxes
<1>2. inbox' = [inbox EXCEPT ![a] = Tail(@)]
  BY DEF Taken
<1>3. inbox[a] \in Seq(S) /\ inbox'[a] = Tail(inbox[a]) /\ \A c \in Clients \ {a} : inbox'[c] = inbox[c]
  BY <1>1, <1>2
<1>4. Boxes'
  <2>1. inbox' \in [Clients -> Seq(S)]
    BY <1>1, <1>2
  <2> QED
    BY <2>1 DEF Boxes
<1> QED
  BY <1>3, <1>4, RangeTaken DEF In

LEMMA TakesOut ==
    ASSUME OutBoxes, NEW a \in Clients, outbox[a] # <<>>, TakenOut(a)
    PROVE  /\ OutBoxes' /\ Head(outbox[a]) \in Out(a)
           /\ \A c \in Clients : Out(c)' \subseteq Out(c) /\ (c # a => Out(c)' = Out(c))
           /\ Out(a) \subseteq Out(a)' \cup {Head(outbox[a])}
<1>1. PICK S : outbox \in [Clients -> Seq(S)]
  BY DEF OutBoxes
<1>2. outbox' = [outbox EXCEPT ![a] = Tail(@)]
  BY DEF TakenOut
<1>3. outbox[a] \in Seq(S) /\ outbox'[a] = Tail(outbox[a]) /\ \A c \in Clients \ {a} : outbox'[c] = outbox[c]
  BY <1>1, <1>2
<1>4. OutBoxes'
  <2>1. outbox' \in [Clients -> Seq(S)]
    BY <1>1, <1>2
  <2> QED
    BY <2>1 DEF OutBoxes
<1> QED
  BY <1>3, <1>4, RangeTaken DEF Out

LEMMA Sends ==
    ASSUME OutBoxes, NEW a \in Clients, NEW m, Send(a, m)
    PROVE  /\ OutBoxes' /\ Out(a)' = Out(a) \cup {m}
           /\ \A c \in Clients \ {a} : Out(c)' = Out(c)
<1>1. PICK S : outbox \in [Clients -> Seq(S)]
  BY DEF OutBoxes
<1>2. outbox' = [outbox EXCEPT ![a] = Append(@, m)]
  BY DEF Send
<1>3. outbox[a] \in Seq(S) /\ outbox'[a] = Append(outbox[a], m) /\ \A c \in Clients \ {a} : outbox'[c] = outbox[c]
  BY <1>1, <1>2
<1>4. OutBoxes'
  <2>1. outbox' \in [Clients -> Seq(S \cup {m})]
    BY <1>1, <1>2
  <2> QED
    BY <2>1 DEF OutBoxes
<1> QED
  BY <1>3, <1>4, RangeAppended DEF Out

\* A message is written to those of the clients ds that are there.
LEMMA Delivers ==
    ASSUME Boxes, NEW ds, NEW m, inbox' = Deliver(inbox, ds, <<m>>)
    PROVE  /\ Boxes'
           /\ \A c \in Clients : In(c) \subseteq In(c)' /\ In(c)' \subseteq In(c) \cup {m}
           /\ \A c \in Clients : c \notin ds => In(c)' = In(c)
           /\ \A c \in Clients : c \in ds \cap online => m \in In(c)'
<1>1. PICK S : inbox \in [Clients -> Seq(S)]
  BY DEF Boxes
<1> DEFINE T == S \cup {m}
           one == <<m>>
<1>2. inbox \in [Clients -> Seq(T)] /\ one \in Seq(T)
  BY <1>1
<1>3. \A c \in Clients : inbox'[c] = IF c \in ds \cap online THEN inbox[c] \o one ELSE inbox[c]
  BY DEF Deliver
<1>4. Range(one) = {m}
  BY DEF Range
<1> HIDE DEF T, one
<1>5. inbox' \in [Clients -> Seq(T)]
  BY <1>2 DEF Deliver, one
<1>6. \A c \in Clients : Range(inbox[c] \o one) = Range(inbox[c]) \cup {m}
  BY <1>2, <1>4, RangeConcat
<1> QED
  BY <1>3, <1>5, <1>6 DEF Boxes, In

\* The same of the answer to a double spend.
LEMMA Cascades ==
    ASSUME Boxes, NEW a \in Clients, NEW t, inbox' = Cascade(a, t)
    PROVE  /\ Boxes'
           /\ \A c \in Clients : In(c) \subseteq In(c)'
           /\ \A c \in Clients : In(c)' \subseteq In(c) \cup {Response("REJECTED", t), Invalidated(t)}
           /\ \A c \in Clients \cap online : Invalidated(t) \in In(c)'
<1>1. PICK S : inbox \in [Clients -> Seq(S)]
  BY DEF Boxes
<1> DEFINE T == S \cup {Response("REJECTED", t), Invalidated(t)}
           two == <<Response("REJECTED", t), Invalidated(t)>>
           one == <<Invalidated(t)>>
           mid == Deliver(inbox, {a}, two)
<1>2. inbox \in [Clients -> Seq(T)] /\ one \in Seq(T) /\ two \in Seq(T)
  BY <1>1
<1>3. Range(one) = {Invalidated(t)} /\ Range(two) = {Response("REJECTED", t), Invalidated(t)}
  BY DEF Range
<1>4. inbox' = Deliver(mid, Clients, one)
  BY DEF Cascade
<1> HIDE DEF T, one, two
<1>5. \A c \in Clients : mid[c] = IF c \in {a} \cap online THEN inbox[c] \o two ELSE inbox[c]
  BY DEF Deliver
<1>6. mid \in [Clients -> Seq(T)]
  BY <1>2 DEF Deliver
<1>7. \A c \in Clients : Range(inbox[c] \o two) = Range(inbox[c]) \cup Range(two)
  BY <1>2, RangeConcat
<1> HIDE DEF mid
<1>8. \A c \in Clients : /\ Range(inbox[c]) \subseteq Range(mid[c])
                         /\ Range(mid[c]) \subseteq Range(inbox[c]) \cup Range(two)
  BY <1>5, <1>7
<1>9. \A c \in Clients : inbox'[c] = IF c \in Clients \cap online THEN mid[c] \o one ELSE mid[c]
  BY <1>4 DEF Deliver
<1>10. inbox' \in [Clients -> Seq(T)]
  BY <1>2, <1>4, <1>6 DEF Deliver
<1>11. \A c \in Clients : Range(mid[c] \o one) = Range(mid[c]) \cup Range(one)
  BY <1>2, <1>6, RangeConcat
<1>12. /\ \A c \in Clients : /\ Range(mid[c]) \subseteq Range(inbox'[c])
                             /\ Range(inbox'[c]) \subseteq Range(mid[c]) \cup Range(one)
       /\ \A c \in Clients \cap online : Range(one) \subseteq Range(inbox'[c])
  BY <1>9, <1>11
<1>13. Boxes'
  BY <1>10 DEF Boxes
<1> QED
  BY <1>3, <1>8, <1>12, <1>13 DEF In

(***************************************************************************)
(* All that is relayed is trades and layers, nobody hands a layer on to    *)
(* itself, and what is announced as invalidated is in the ledger.          *)
(***************************************************************************)
Fits(m) == m.type = "RELAY" => Trade(m) \/ Layer(m)
FitsFrom(c, m) == m.type = "RELAY" => Trade(m) \/ (Layer(m) /\ m.to # c)
Told(m, l) == m.type = "TOKEN_INVALIDATED" => m.token \in l

MsgInv ==
    /\ IInv /\ OutBoxes
    /\ \A c \in Clients : \A m \in Out(c) : FitsFrom(c, m)
    /\ \A c \in Clients : \A m \in In(c) : Fits(m) /\ Told(m, ledger)

\* What a step of the part by may add: to what comes from c, and to what goes to it.
MaySend(by, c, m) ==
    \/ m.type = "REISSUE_REQUEST"
    \/ m.type = "RELAY" /\ Trade(m) /\ (by = "trader" \/ \E a \in Clients : HandlePropose(a))
    \/ m.type = "RELAY" /\ Layer(m) /\ m.to # c /\ (by = "voter" \/ \E a \in Clients : HandleOnion(a))
    \/ m.type = "SUBMIT_VOTE" /\ \E a \in Clients : HandleOnion(a)

MayGet(by, m) ==
    \/ m.type = "RELAY" /\ \E d \in Clients : \E r \in Out(d) : r.type = "RELAY" /\ m = Relay(r.to, r.body)
    \/ m.type = "TOKEN_ISSUED" /\ by = "issuer"
    \/ m.type = "TOKEN_INVALIDATED" /\ m.token \in ledger'
    \/ m.type = "VOTE_RESPONSE"

OutGrows(by) == \A c \in Clients : \A m \in Out(c)' : m \in Out(c) \/ MaySend(by, c, m)
InGrows(by) == \A c \in Clients : \A m \in In(c)' : m \in In(c) \/ MayGet(by, m)

Grows(by) == OutBoxes' /\ OutGrows(by) /\ InGrows(by)

\* A client that reads a layer submits the vote or hands it on, not to itself.
LEMMA HandsOn ==
    ASSUME NEW a \in Clients, HandleOnion(a), NEW t, Carries(Head(inbox[a]), t)
    PROVE  \E m : /\ Send(a, m)
                  /\ \/ m = SubmitVote(t)
                     \/ m.type = "RELAY" /\ Carries(m, t) /\ m.to \in Clients \ {a}
<1> DEFINE msg == Head(inbox[a])
           layer == Plain(msg.body)
<1>1. /\ Opens(a, msg.body)
      /\ IF IsExit(layer) THEN Send(a, SubmitVote(layer.blob.token))
                          ELSE Send(a, Relay(layer.next, layer.blob))
  BY DEF HandleOnion, FirstLayer, Peels
<1>2. /\ Opens(a, msg.body) => a = msg.to
      /\ \/ IsExit(layer) /\ layer.blob = Vote(t)
         \/ /\ ~IsExit(layer) /\ layer.next \in Clients /\ layer.next # msg.to
            /\ Carries(Relay(layer.next, layer.blob), t)
  BY LayerRead
<1>3. Vote(t).token = t
  BY DEF Vote
<1> DEFINE r == Relay(layer.next, layer.blob)
<1>4. r.type = "RELAY" /\ r.to = layer.next
  BY DEF Relay
<1> HIDE DEF msg, layer, r
<1>5. CASE IsExit(layer)
  BY <1>1, <1>2, <1>3, <1>5
<1>6. CASE ~IsExit(layer)
  <2>1. Send(a, r) /\ Carries(r, t)
    BY <1>1, <1>2, <1>6 DEF r
  <2>2. r.to \in Clients \ {a}
    BY <1>1, <1>2, <1>4, <1>6
  <2> QED
    BY <1>4, <2>1, <2>2
<1> QED
  BY <1>5, <1>6

\* A client that answers an offer sends a trade message, with a token that it
\* holds or that it was offered.
LEMMA Counters ==
    ASSUME TypeOK, NEW a \in Clients, HandlePropose(a), Trade(Head(inbox[a]))
    PROVE  \/ outbox' = outbox
           \/ \E m : /\ Send(a, m) /\ m.type = "RELAY" /\ Trade(m)
                    /\ \/ Plain(m.body).token \in held[a] \cup {NoToken}
                       \/ Plain(m.body).token = Plain(Head(inbox[a]).body).token
<1> DEFINE b == Plain(Head(inbox[a]).body)
           Reply(t) == Relay(b.from, Seal(b.from, Accept(b.kind, t)))
<1>1. b \in Offers \cup Answers
  BY TradeRead
<1>2. b.action = "PROPOSE"
  BY DEF HandlePropose, FirstTrade
<1>3. \A w \in Answers : w.action = "ACCEPT"
  BY DEF Answers, Accept
<1>4. b \in Offers
  BY <1>1, <1>2, <1>3
<1>5. PICK k \in Kinds, d \in Clients, u \in Tokens \cup {NoToken} : b = Propose(k, d, u)
  BY <1>4 DEF Offers
<1>6. b.kind = k /\ b.from = d /\ b.token = u
  BY <1>5 DEF Propose
<1>7. ASSUME NEW t \in Tokens \cup {NoToken}
      PROVE  Reply(t).type = "RELAY" /\ Trade(Reply(t)) /\ Plain(Reply(t).body).token = t
  <2>1. Accept(k, t) \in Answers
    BY DEF Answers
  <2> DEFINE r == Relay(d, Seal(d, Accept(k, t)))
  <2>2. r.type = "RELAY" /\ r.to = d /\ r.body = Seal(d, Accept(k, t))
    BY DEF Relay
  <2>3. r = Reply(t)
    BY <1>6
  <2> HIDE DEF r
  <2>4. Trade(r)
    BY <2>1, <2>2 DEF Trade
  <2>5. Plain(r.body).token = t
    BY <2>2, SealOpens DEF Accept
  <2> QED
    BY <2>2, <2>3, <2>4, <2>5
<1>8. held[a] \subseteq Tokens
  BY DEF TypeOK
<1> DEFINE adopted == IF b.kind = "REAL" THEN held[a] \cup {b.token} ELSE held[a]
<1>9. Counter(a, adopted, b.token) \subseteq (Tokens \cup {NoToken}) \cap (held[a] \cup {b.token})
  BY <1>6, <1>8 DEF Counter, Preferred
<1>10. outbox' = outbox \/ Send(a, Reply(NoToken)) \/ \E t \in Counter(a, adopted, b.token) : Send(a, Reply(t))
  BY DEF HandlePropose
<1>11. b.token = Plain(Head(inbox[a]).body).token
  OBVIOUS
<1> HIDE DEF Reply, adopted, b
<1>12. ASSUME NEW t \in (Tokens \cup {NoToken}) \cap (held[a] \cup {b.token, NoToken}), Send(a, Reply(t))
       PROVE  \E m : /\ Send(a, m) /\ m.type = "RELAY" /\ Trade(m)
                    /\ \/ Plain(m.body).token \in held[a] \cup {NoToken}
                       \/ Plain(m.body).token = b.token
  BY <1>7, <1>12
<1> QED
  BY <1>9, <1>10, <1>11, <1>12

\* So does a client that makes an offer.
LEMMA Proposes ==
    ASSUME TypeOK, NEW c \in Clients, NEW d \in Clients,
           OfferChaff(c, d) \/ \E t : OfferReal(c, d, t)
    PROVE  \E m : /\ Send(c, m) /\ m.type = "RELAY" /\ Trade(m)
                 /\ Plain(m.body).token \in held[c] \cup {NoToken}
<1> DEFINE r(k, t) == Relay(d, Seal(d, Propose(k, c, t)))
<1>1. ASSUME NEW k \in Kinds, NEW t \in Tokens \cup {NoToken}
      PROVE  r(k, t).type = "RELAY" /\ Trade(r(k, t)) /\ Plain(r(k, t).body).token = t
  <2>1. Propose(k, c, t) \in Offers
    BY DEF Offers
  <2>2. r(k, t).type = "RELAY" /\ r(k, t).to = d /\ r(k, t).body = Seal(d, Propose(k, c, t))
    BY DEF Relay
  <2> HIDE DEF r
  <2>3. Plain(r(k, t).body).token = t
    BY <2>2, SealOpens DEF Propose
  <2> QED
    BY <2>1, <2>2, <2>3 DEF Trade
<1>2. "REAL" \in Kinds /\ "CHAFF" \in Kinds
  BY DEF Kinds
<1>3. CASE OfferChaff(c, d)
  <2>1. Send(c, r("CHAFF", NoToken))
    BY <1>3 DEF OfferChaff
  <2> HIDE DEF r
  <2> QED
    BY <1>1, <1>2, <2>1
<1>4. ASSUME NEW t, OfferReal(c, d, t)
      PROVE  \E m : /\ Send(c, m) /\ m.type = "RELAY" /\ Trade(m)
                   /\ Plain(m.body).token \in held[c] \cup {NoToken}
  <2>1. Send(c, r("REAL", t)) /\ t \in Tokens \cap held[c]
    BY <1>4 DEF OfferReal, TypeOK
  <2> HIDE DEF r
  <2> QED
    BY <1>1, <1>2, <2>1
<1> QED
  BY <1>3, <1>4

\* And one that votes sends an onion, not to itself.
LEMMA Casts ==
    ASSUME TypeOK, NEW c \in Clients, NEW t, NEW p \in Paths(c), CastVote(c, t, p)
    PROVE  \E m : Send(c, m) /\ m.type = "RELAY" /\ Carries(m, t) /\ m.to \in Clients \ {c}
<1> DEFINE r == Relay(Head(p), BuildOnion(Vote(t), p))
<1>1. Send(c, r) /\ p # <<>>
  BY DEF CastVote
<1>2. p \in Hops /\ Head(p) \in Clients \ {c}
  BY <1>1, PathsAre
<1>3. r.type = "RELAY" /\ r.to = Head(p) /\ r.body = BuildOnion(Vote(t), p)
  BY DEF Relay
<1> HIDE DEF r
<1> QED
  BY <1>1, <1>2, <1>3 DEF Carries

\* A relay is delivered as it is.
LEMMA Passes ==
    ASSUME NEW m, NEW r, r = Relay(m.to, m.body)
    PROVE  /\ r.type = "RELAY" /\ r.to = m.to /\ r.body = m.body
           /\ Trade(r) <=> Trade(m)
           /\ \A t : Carries(r, t) <=> Carries(m, t)
<1>1. r.type = "RELAY" /\ r.to = m.to /\ r.body = m.body
  BY DEF Relay
<1> QED
  BY <1>1 DEF Trade, Carries

LEMMA MsgInit == Init => MsgInv
<1> SUFFICES ASSUME Init PROVE MsgInv
  OBVIOUS
<1>1. IInv
  BY InitInv
<1>2. outbox \in [Clients -> Seq({})] /\ \A c \in Clients : In(c) = {} /\ Out(c) = {}
  BY DEF Init, In, Out, Range
<1> QED
  BY <1>1, <1>2 DEF MsgInv, OutBoxes

LEMMA MsgStep ==
    ASSUME MsgInv
    PROVE  /\ IssueStep => Grows("issuer")
           /\ TradeStep => Grows("trader")
           /\ VoteStep => Grows("voter")
           /\ MessageStep \/ ConnectionStep \/ UNCHANGED vars => Grows("nobody")
<1> USE DEF Grows
<1>1. TypeOK /\ Boxes /\ OutBoxes
  BY DEF MsgInv, IInv
<1>2. \A c \in Clients : \A m \in In(c) : Fits(m)
  BY DEF MsgInv
\* A queue that nothing is added to.
<1>3. ASSUME UNCHANGED outbox, NEW by PROVE OutBoxes' /\ OutGrows(by)
  BY <1>1, <1>3 DEF OutBoxes, OutGrows, Out
<1>4. ASSUME UNCHANGED inbox, NEW by PROVE InGrows(by)
  BY <1>4 DEF InGrows, In
\* A message that is sent.
<1>5. ASSUME NEW by, NEW c \in Clients, NEW m, Send(c, m), MaySend(by, c, m) PROVE OutBoxes' /\ OutGrows(by)
  BY <1>1, <1>5, Sends DEF OutGrows
<1>9. \A t : SubmitVote(t).type = "SUBMIT_VOTE" /\ Reissue(t, FALSE).type = "REISSUE_REQUEST"
  BY DEF SubmitVote, Reissue
<1>10. ASSUME UNCHANGED <<inbox, outbox>>, NEW by PROVE Grows(by)
  BY <1>3, <1>4, <1>10 DEF Grows
<1>11. ASSUME NEW c \in Clients, NEW d \in Clients, OfferChaff(c, d) \/ \E t : OfferReal(c, d, t)
       PROVE  Grows("trader")
  <2>1. PICK m : Send(c, m) /\ m.type = "RELAY" /\ Trade(m)
    BY <1>1, <1>11, Proposes
  <2>2. UNCHANGED inbox
    BY <1>11 DEF OfferChaff, OfferReal
  <2>3. MaySend("trader", c, m)
    BY <1>11, <2>1 DEF MaySend
  <2> QED
    BY <1>4, <1>5, <2>1, <2>2, <2>3
<1>12. ASSUME TradeStep PROVE Grows("trader")
  <2>1. CASE \E c \in Clients : Toggle(c)
    BY <1>10, <2>1 DEF Toggle
  <2>2. CASE \E c, d \in Clients : AutoReal(c, d) \/ AutoChaff(c, d) \/ OfferChaff(c, d)
    <3>1. PICK c \in Clients, d \in Clients : OfferChaff(c, d) \/ \E t : OfferReal(c, d, t)
      BY <2>2 DEF AutoReal, AutoChaff
    <3> QED
      BY <1>11, <3>1
  <2>3. CASE \E c, d \in Clients, t \in Tokens : OfferReal(c, d, t)
    BY <1>11, <2>3
  <2> QED
    BY <1>12, <2>1, <2>2, <2>3 DEF TradeStep
<1>13. ASSUME NEW c \in Clients, NEW t \in Tokens, NEW p \in Paths(c), CastVote(c, t, p) PROVE Grows("voter")
  <2>1. PICK m : Send(c, m) /\ m.type = "RELAY" /\ Carries(m, t) /\ m.to \in Clients \ {c}
    BY <1>1, <1>13, Casts
  <2>2. UNCHANGED inbox
    BY <1>13 DEF CastVote
  <2>3. MaySend("voter", c, m)
    BY <1>13, <2>1 DEF MaySend, Layer
  <2> QED
    BY <1>4, <1>5, <2>1, <2>2, <2>3
<1>14. ASSUME NEW a \in Clients, Handle(a) PROVE Grows("nobody")
  <2>1. inbox[a] # <<>> /\ Taken(a)
    BY <1>14
    DEF Handle, HandleIssued, HandleOnion, HandlePropose, HandleAccept, HandleResponse,
        HandleInvalidated, First, FirstLayer, FirstTrade
  <2>2. InGrows("nobody") /\ Head(inbox[a]) \in In(a)
    BY <1>1, <2>1, Takes DEF InGrows
  <2>3. Fits(Head(inbox[a]))
    BY <1>2, <2>2
  <2>4. CASE UNCHANGED outbox
    BY <1>3, <2>2, <2>4
  <2>5. CASE HandleOnion(a)
    <3>1. Head(inbox[a]).type = "RELAY" /\ Peels(a, Head(inbox[a]).body)
      BY <2>5 DEF HandleOnion, FirstLayer, First
    <3>2. ~Trade(Head(inbox[a]))
      BY <3>1, TradeRead
    <3>3. PICK t \in Tokens : Carries(Head(inbox[a]), t)
      BY <2>3, <3>1, <3>2 DEF Fits, Layer
    <3>4. PICK m : /\ Send(a, m)
                   /\ \/ m = SubmitVote(t)
                      \/ m.type = "RELAY" /\ Carries(m, t) /\ m.to \in Clients \ {a}
      BY <2>5, <3>3, HandsOn
    <3>5. MaySend("nobody", a, m)
      BY <1>9, <2>5, <3>4 DEF MaySend, Layer
    <3> QED
      BY <1>5, <2>2, <3>4, <3>5
  <2>6. CASE HandlePropose(a)
    <3>1. Head(inbox[a]).type = "RELAY" /\ ~Peels(a, Head(inbox[a]).body) /\ Opens(a, Head(inbox[a]).body)
      BY <2>6 DEF HandlePropose, FirstTrade, First, OpensTrade
    <3>2. \A t : ~Carries(Head(inbox[a]), t)
      BY <3>1, LayerRead
    <3>3. Trade(Head(inbox[a]))
      BY <2>3, <3>1, <3>2 DEF Fits, Layer
    <3>4. outbox' = outbox \/ \E m : Send(a, m) /\ m.type = "RELAY" /\ Trade(m)
      BY <1>1, <2>6, <3>3, Counters
    <3>5. ASSUME NEW m, Send(a, m), m.type = "RELAY", Trade(m) PROVE Grows("nobody")
      <4>1. MaySend("nobody", a, m)
        BY <2>6, <3>5 DEF MaySend
      <4> QED
        BY <1>5, <2>2, <3>5, <4>1
    <3> QED
      BY <2>4, <3>4, <3>5
  <2>7. CASE HandleResponse(a) \/ HandleInvalidated(a)
    <3>1. UNCHANGED outbox \/ \E t : Send(a, Reissue(t, FALSE))
      BY <2>7 DEF HandleResponse, HandleInvalidated
    <3>2. \A t : MaySend("nobody", a, Reissue(t, FALSE))
      BY <1>9 DEF MaySend
    <3> QED
      BY <1>5, <2>2, <2>4, <3>1, <3>2
  <2>8. CASE HandleIssued(a) \/ HandleAccept(a)
    BY <2>4, <2>8 DEF HandleIssued, HandleAccept
  <2> QED
    BY <1>14, <2>5, <2>6, <2>7, <2>8 DEF Handle
\* A message that is written to inboxes.
<1>15. ASSUME NEW by, NEW ds, NEW m, inbox' = Deliver(inbox, ds, <<m>>), MayGet(by, m) PROVE InGrows(by)
  BY <1>1, <1>15, Delivers DEF InGrows
<1>16. ASSUME NEW c \in Clients, NEW t, IssueToken(c, t) PROVE Grows("issuer")
  <2> DEFINE m == Issued(t)
  <2>1. m.type = "TOKEN_ISSUED"
    BY DEF Issued
  <2> HIDE DEF m
  <2>2. MayGet("issuer", m)
    BY <1>16, <2>1 DEF MayGet
  <2>3. inbox' = Deliver(inbox, {c}, <<m>>) /\ UNCHANGED outbox
    BY <1>16 DEF IssueToken, m
  <2> QED
    BY <1>3, <1>15, <2>2, <2>3
\* The server only takes from outboxes.
<1>17. ASSUME NEW a \in Clients, Serve(a)
       PROVE  OutBoxes' /\ OutGrows("nobody") /\ Head(outbox[a]) \in Out(a)
  <2>1. outbox[a] # <<>> /\ TakenOut(a)
    BY <1>17 DEF Serve, ServeRelay, ServeVote, ServeReissue, FirstOut
  <2> QED
    BY <1>1, <2>1, TakesOut DEF OutGrows
<1>18. ASSUME NEW a \in Clients, ServeRelay(a) PROVE Grows("nobody")
  <2> DEFINE m == Head(outbox[a])
             r == Relay(m.to, m.body)
  <2>1. OutBoxes' /\ OutGrows("nobody") /\ m \in Out(a)
    BY <1>17, <1>18 DEF Serve
  <2>2. m.type = "RELAY" /\ inbox' = Deliver(inbox, {m.to}, <<r>>)
    BY <1>18 DEF ServeRelay, FirstOut
  <2>3. r.type = "RELAY"
    BY DEF Relay
  <2> HIDE DEF m
  <2>4. MayGet("nobody", r)
    BY <2>1, <2>2, <2>3 DEF MayGet
  <2> HIDE DEF r
  <2> QED
    BY <1>15, <2>1, <2>2, <2>4
<1>19. ASSUME NEW a \in Clients, ServeVote(a) PROVE Grows("nobody")
  <2> DEFINE t == Head(outbox[a]).token
  <2>1. OutBoxes' /\ OutGrows("nobody")
    BY <1>17, <1>19 DEF Serve
  <2>2. \/ \E st : inbox' = Deliver(inbox, {a}, <<Response(st, t)>>)
        \/ t \in ledger' /\ inbox' = Cascade(a, t)
    BY <1>19 DEF ServeVote
  <2> HIDE DEF t
  <2>3. \A st : Response(st, t).type = "VOTE_RESPONSE"
    BY DEF Response
  <2>4. \A st : MayGet("nobody", Response(st, t))
    BY <2>3 DEF MayGet
  <2>5. CASE \E st : inbox' = Deliver(inbox, {a}, <<Response(st, t)>>)
    <3>1. PICK st : inbox' = Deliver(inbox, {a}, <<Response(st, t)>>)
      BY <2>5
    <3> DEFINE m == Response(st, t)
    <3>2. MayGet("nobody", m) /\ inbox' = Deliver(inbox, {a}, <<m>>)
      BY <2>4, <3>1
    <3> HIDE DEF m
    <3>3. InGrows("nobody")
      BY <1>15, <3>2
    <3> QED
      BY <2>1, <3>3
  <2>6. CASE t \in ledger' /\ inbox' = Cascade(a, t)
    <3>1. Invalidated(t).type = "TOKEN_INVALIDATED" /\ Invalidated(t).token = t
      BY DEF Invalidated
    <3>2. MayGet("nobody", Invalidated(t))
      BY <2>6, <3>1 DEF MayGet
    <3>3. \A c \in Clients : In(c)' \subseteq In(c) \cup {Response("REJECTED", t), Invalidated(t)}
      BY <1>1, <2>6, Cascades
    <3>4. InGrows("nobody")
      BY <2>4, <3>2, <3>3 DEF InGrows
    <3> QED
      BY <2>1, <3>4
  <2> QED
    BY <2>2, <2>5, <2>6
<1>20. ASSUME NEW a \in Clients, ServeReissue(a) PROVE Grows("nobody")
  <2>1. UNCHANGED inbox /\ OutBoxes' /\ OutGrows("nobody")
    BY <1>17, <1>20 DEF ServeReissue, Serve
  <2> QED
    BY <1>4, <2>1
<1>21. ASSUME NEW a \in Clients, GoOffline(a) PROVE Grows("nobody")
  <2>1. PICK n \in 0..Len(outbox[a]) : outbox' = [outbox EXCEPT ![a] = SubSeq(@, 1, n)]
    BY <1>21 DEF GoOffline
  <2>2. PICK k \in 0..Len(inbox[a]) : inbox' = [inbox EXCEPT ![a] = SubSeq(@, 1, k)]
    BY <1>21 DEF GoOffline
  <2>3. PICK S : outbox \in [Clients -> Seq(S)]
    BY <1>1 DEF OutBoxes
  <2>4. PICK T : inbox \in [Clients -> Seq(T)]
    BY <1>1 DEF Boxes
  <2>5. outbox[a] \in Seq(S) /\ inbox[a] \in Seq(T)
    BY <2>3, <2>4
  <2>6. Range(SubSeq(outbox[a], 1, n)) \subseteq Range(outbox[a])
    BY <2>5, RangeCut
  <2>7. Range(SubSeq(inbox[a], 1, k)) \subseteq Range(inbox[a])
    BY <2>5, RangeCut
  <2>8. \A c \in Clients : Out(c)' \subseteq Out(c) /\ In(c)' \subseteq In(c)
    BY <2>1, <2>2, <2>3, <2>4, <2>6, <2>7 DEF Out, In
  <2>9. OutBoxes'
    <3>1. outbox' \in [Clients -> Seq(S)]
      BY <2>1, <2>3
    <3> QED
      BY <3>1 DEF OutBoxes
  <2> QED
    BY <2>8, <2>9 DEF OutGrows, InGrows
<1>22. ASSUME NEW a \in Clients, ComeBack(a) PROVE Grows("nobody")
  BY <1>10, <1>22 DEF ComeBack
<1>23. ASSUME UNCHANGED vars PROVE Grows("nobody")
  BY <1>10, <1>23 DEF vars
<1>24. IssueStep => Grows("issuer")
  BY <1>16 DEF IssueStep
<1>25. VoteStep => Grows("voter")
  BY <1>13 DEF VoteStep
<1>26. MessageStep \/ ConnectionStep => Grows("nobody")
  BY <1>14, <1>18, <1>19, <1>20, <1>21, <1>22 DEF MessageStep, Serve, ConnectionStep
<1> QED
  BY <1>12, <1>23, <1>24, <1>25, <1>26

LEMMA IInvStep == ASSUME IInv, [Next]_vars PROVE IInv'
BY TypeStep, InboxStep, AnsweredStep, ClaimedStep DEF IInv

LEMMA MsgNext == ASSUME MsgInv, [Next]_vars PROVE MsgInv'
<1>1. IInv /\ TypeOK
  BY DEF MsgInv, IInv
<1>2. IInv' /\ ledger \subseteq ledger'
  BY <1>1, IInvStep, ServerTypes
<1>3. PICK by \in {"issuer", "trader", "voter", "nobody"} : Grows(by)
  BY MsgStep DEF Next
<1>4. ASSUME NEW c \in Clients, NEW m \in Out(c)' PROVE FitsFrom(c, m)
  BY <1>3, <1>4 DEF Grows, OutGrows, MaySend, MsgInv, FitsFrom
<1>5. ASSUME NEW c \in Clients, NEW m \in In(c)' PROVE Fits(m) /\ Told(m, ledger')
  <2>1. CASE m \in In(c)
    BY <1>2, <2>1 DEF MsgInv, Told
  <2>2. ASSUME NEW d \in Clients, NEW r \in Out(d), r.type = "RELAY", m = Relay(r.to, r.body)
        PROVE  Fits(m) /\ Told(m, ledger')
    <3>1. Trade(r) \/ Layer(r)
      BY <2>2 DEF MsgInv, FitsFrom
    <3>2. m.type = "RELAY" /\ (Trade(r) => Trade(m)) /\ (Layer(r) => Layer(m))
      BY <2>2, Passes DEF Layer
    <3> QED
      BY <3>1, <3>2 DEF Fits, Told
  <2>3. CASE MayGet(by, m)
    BY <2>2, <2>3 DEF MayGet, Fits, Told
  <2> QED
    BY <1>3, <1>5, <2>1, <2>3 DEF Grows, InGrows
<1> QED
  BY <1>2, <1>3, <1>4, <1>5 DEF Grows, MsgInv, Fits, FitsFrom

\* Every behaviour with a history is one of Spec, and those that TLC checks are
\* among them.
LEMMA TraceIsNext == [TraceNext]_mcvars => [Next]_vars
  BY DEF TraceNext, mcvars

LEMMA BoundedIsTrace == SafeSpec => TraceSpec
<1>1. SafeOffer => TradeStep
  BY DEF SafeOffer, TradeStep
<1>2. SafeNext => Next
  BY <1>1 DEF SafeNext, Next, TradeStep
<1>3. SafeNext => TraceNext
  BY <1>2 DEF SafeNext, TraceNext
<1>4. SafeInit => TraceInit
  BY DEF SafeInit
<1> QED
  BY <1>3, <1>4, PTL DEF SafeSpec, TraceSpec

(***************************************************************************)
(* No token is lost while connections last.                                *)
(***************************************************************************)
\* The message is the answer of a swap that hands over the token.
Bears(m, t) == m.type = "RELAY" /\ m.body = Seal(m.to, Accept("REAL", t))

Coming(t) == \E c \in Clients : Issued(t) \in In(c) \/ \E m \in In(c) \cup Out(c) : Bears(m, t)

LEMMA ComingIsArriving == \A t : Arriving(t) <=> Coming(t)
BY DEF Arriving, Coming, Bears, In, Out

Kept(t) == (\E c \in Clients : t \in held[c]) \/ Coming(t)

SafeInv ==
    /\ MsgInv
    /\ ~broken => online = Clients
    /\ ~broken => \A t \in Alive : Kept(t)

\* While connections last only the handling of a message takes it from its queue.
LEMMA QueuesKeep ==
    ASSUME MsgInv, Next, online \subseteq online', NEW c \in Clients
    PROVE  /\ \/ In(c) \subseteq In(c)'
              \/ Handle(c) /\ In(c) \subseteq In(c)' \cup {Head(inbox[c])}
           /\ \/ Out(c) \subseteq Out(c)'
              \/ Serve(c) /\ Out(c) \subseteq Out(c)' \cup {Head(outbox[c])}
<1> DEFINE GoalIn == \/ In(c) \subseteq In(c)'
                     \/ Handle(c) /\ In(c) \subseteq In(c)' \cup {Head(inbox[c])}
           GoalOut == \/ Out(c) \subseteq Out(c)'
                      \/ Serve(c) /\ Out(c) \subseteq Out(c)' \cup {Head(outbox[c])}
<1> SUFFICES GoalIn /\ GoalOut
  OBVIOUS
<1>1. Boxes /\ OutBoxes
  BY DEF MsgInv, IInv
<1>2. UNCHANGED inbox => GoalIn
  BY DEF In
<1>3. UNCHANGED outbox => GoalOut
  BY DEF Out
<1>4. ASSUME NEW a \in Clients, NEW m, Send(a, m) PROVE GoalOut
  <2>1. Out(c) \subseteq Out(c)'
    BY <1>1, <1>4, Sends
  <2> QED
    BY <2>1
<1>5. ASSUME NEW ds, NEW m, inbox' = Deliver(inbox, ds, <<m>>) PROVE GoalIn
  <2>1. In(c) \subseteq In(c)'
    BY <1>1, <1>5, Delivers
  <2> QED
    BY <2>1
<1>6. ASSUME NEW a \in Clients, Handle(a) PROVE GoalIn /\ GoalOut
  <2>1. inbox[a] # <<>> /\ Taken(a) /\ (outbox' = outbox \/ \E m : Send(a, m))
    BY <1>6
    DEF Handle, HandleIssued, HandleOnion, HandlePropose, HandleAccept, HandleResponse,
        HandleInvalidated, First, FirstLayer, FirstTrade
  <2>2. c # a => In(c)' = In(c)
    BY <1>1, <2>1, Takes
  <2>3. In(a) \subseteq In(a)' \cup {Head(inbox[a])}
    BY <1>1, <2>1, Takes
  <2> HIDE DEF GoalOut
  <2> QED
    BY <1>3, <1>4, <1>6, <2>1, <2>2, <2>3
<1>7. ASSUME NEW a \in Clients, Serve(a) PROVE GoalIn /\ GoalOut
  <2>1. outbox[a] # <<>> /\ TakenOut(a)
    BY <1>7 DEF Serve, ServeRelay, ServeVote, ServeReissue, FirstOut
  <2>2. c # a => Out(c)' = Out(c)
    BY <1>1, <2>1, TakesOut
  <2>3. Out(a) \subseteq Out(a)' \cup {Head(outbox[a])}
    BY <1>1, <2>1, TakesOut
  <2>4. GoalOut
    BY <1>7, <2>2, <2>3
  <2>5. UNCHANGED inbox \/ (\E ds, m : inbox' = Deliver(inbox, ds, <<m>>)) \/ \E t : inbox' = Cascade(a, t)
    BY <1>7 DEF Serve, ServeRelay, ServeVote, ServeReissue
  <2>6. (\E t : inbox' = Cascade(a, t)) => In(c) \subseteq In(c)'
    BY <1>1, Cascades
  <2>7. GoalIn
    <3> HIDE DEF GoalIn
    <3>1. (\E t : inbox' = Cascade(a, t)) => GoalIn
      BY <2>6 DEF GoalIn
    <3> QED
      BY <1>2, <1>5, <2>5, <3>1
  <2> QED
    BY <2>4, <2>7
<1>8. CASE IssueStep
  BY <1>3, <1>5, <1>8 DEF IssueStep, IssueToken
<1>9. CASE TradeStep \/ VoteStep
  <2>1. UNCHANGED inbox /\ (UNCHANGED outbox \/ \E a \in Clients : \E m : Send(a, m))
    BY <1>9 DEF TradeStep, VoteStep, Toggle, AutoReal, AutoChaff, OfferReal, OfferChaff, CastVote
  <2> HIDE DEF GoalIn, GoalOut
  <2> QED
    BY <1>2, <1>3, <1>4, <2>1
<1>10. ASSUME NEW a \in Clients, GoOffline(a) \/ ComeBack(a) PROVE GoalIn /\ GoalOut
  <2>1. CASE ComeBack(a)
    BY <1>2, <1>3, <2>1 DEF ComeBack
  <2>2. CASE GoOffline(a)
    BY <2>2 DEF GoOffline
  <2> QED
    BY <1>10, <2>1, <2>2
<1> HIDE DEF GoalIn, GoalOut
<1> QED
  BY <1>6, <1>7, <1>8, <1>9, <1>10 DEF Next, MessageStep, ConnectionStep

\* An answer is about a token in the ledger.
LEMMA AnswerToken ==
    ASSUME IInv, NEW c \in Clients, inbox[c] # <<>>, Head(inbox[c]).type = "VOTE_RESPONSE"
    PROVE  Head(inbox[c]).token \in ledger
<1>1. 1 \in 1..Len(inbox[c]) /\ Head(inbox[c]) = inbox[c][1]
  BY DEF IInv, Boxes
<1>2. PICK t \in ledger, st \in {"ACCEPTED", "REJECTED"} : inbox[c][1] = Response(st, t)
  BY <1>1 DEF IInv, Answered
<1> QED
  BY <1>1, <1>2 DEF Response

\* A token that can still be spent is dropped for nothing but a swap.
LEMMA HeldKept ==
    ASSUME MsgInv, Next, NEW c \in Clients, NEW t \in held[c], t \notin ledger
    PROVE  t \in held'[c] \/ \E m \in Out(c)' : Bears(m, t)
<1> DEFINE Goal == t \in held'[c] \/ \E m \in Out(c)' : Bears(m, t)
<1> SUFFICES Goal
  OBVIOUS
<1>1. IInv /\ TypeOK /\ Boxes /\ OutBoxes /\ held \in [Clients -> SUBSET issued]
  BY DEF MsgInv, IInv, TypeOK
<1>2. UNCHANGED held => Goal
  OBVIOUS
<1>3. ASSUME NEW a \in Clients, HandlePropose(a) PROVE Goal
  <2> DEFINE b == Plain(Head(inbox[a]).body)
             adopted == IF b.kind = "REAL" THEN held[a] \cup {b.token} ELSE held[a]
  <2>1. \/ held' = held
        \/ held' = [held EXCEPT ![a] = adopted]
        \/ b.kind = "REAL" /\ \E u : /\ held' = [held EXCEPT ![a] = adopted \ {u}]
                                     /\ Send(a, Relay(b.from, Seal(b.from, Accept("REAL", u))))
    <3>1. ASSUME NEW u, Send(a, Relay(b.from, Seal(b.from, Accept(b.kind, u)))),
                 held' = [held EXCEPT ![a] = IF b.kind = "REAL" THEN adopted \ {u} ELSE @]
          PROVE  \/ held' = held
                 \/ b.kind = "REAL" /\ held' = [held EXCEPT ![a] = adopted \ {u}]
                                    /\ Send(a, Relay(b.from, Seal(b.from, Accept("REAL", u))))
      <4>1. CASE b.kind = "REAL"
        <5>1. Send(a, Relay(b.from, Seal(b.from, Accept("REAL", u))))
          BY <3>1, <4>1
        <5> QED
          BY <3>1, <4>1, <5>1
      <4>2. CASE b.kind # "REAL"
        BY <1>1, <3>1, <4>2
      <4> QED
        BY <4>1, <4>2
    <3> HIDE DEF adopted, b
    <3>2. \/ held' = held
          \/ held' = [held EXCEPT ![a] = adopted]
          \/ \E u : /\ Send(a, Relay(b.from, Seal(b.from, Accept(b.kind, u))))
                    /\ held' = [held EXCEPT ![a] = IF b.kind = "REAL" THEN adopted \ {u} ELSE @]
      BY <1>3 DEF HandlePropose, adopted, b
    <3> QED
      BY <3>1, <3>2
  <2>2. held[a] \subseteq adopted
    OBVIOUS
  <2> HIDE DEF adopted
  <2>3. ASSUME NEW u, held' = [held EXCEPT ![a] = adopted \ {u}],
               Send(a, Relay(b.from, Seal(b.from, Accept("REAL", u))))
        PROVE  Goal
    <3> DEFINE r == Relay(b.from, Seal(b.from, Accept("REAL", u)))
    <3>1. Bears(r, u)
      BY DEF Bears, Relay
    <3>2. Send(a, r)
      BY <2>3
    <3> HIDE DEF r
    <3>3. r \in Out(a)'
      BY <1>1, <3>2, Sends
    <3>4. t \in held'[c] \/ (c = a /\ t = u)
      BY <1>1, <2>2, <2>3
    <3> QED
      BY <3>1, <3>3, <3>4
  <2> HIDE DEF b
  <2>4. CASE held' = [held EXCEPT ![a] = adopted]
    BY <1>1, <2>2, <2>4
  <2> HIDE DEF Goal
  <2> QED
    BY <1>2, <2>1, <2>3, <2>4
<1>4. ASSUME NEW a \in Clients, HandleIssued(a) \/ HandleAccept(a) PROVE Goal
  BY <1>1, <1>4 DEF HandleIssued, HandleAccept
<1>5. ASSUME NEW a \in Clients, HandleResponse(a) PROVE Goal
  <2>1. Head(inbox[a]).token \in ledger
    BY <1>1, <1>5, AnswerToken DEF HandleResponse, First
  <2> QED
    BY <1>1, <1>5, <2>1 DEF HandleResponse
<1>6. ASSUME NEW a \in Clients, HandleInvalidated(a) PROVE Goal
  <2>1. Head(inbox[a]) \in In(a) /\ Head(inbox[a]).type = "TOKEN_INVALIDATED"
    BY <1>1, <1>6, Takes DEF HandleInvalidated, First
  <2>2. Head(inbox[a]).token \in ledger
    BY <2>1 DEF MsgInv, Told
  <2> QED
    BY <1>1, <1>6, <2>2 DEF HandleInvalidated
<1>7. CASE \E a \in Clients : HandleOnion(a) \/ Serve(a) \/ GoOffline(a) \/ ComeBack(a)
  BY <1>2, <1>7 DEF HandleOnion, Serve, ServeRelay, ServeVote, ServeReissue, GoOffline, ComeBack, client
<1>8. CASE IssueStep \/ TradeStep \/ VoteStep
  BY <1>2, <1>8
  DEF IssueStep, IssueToken, TradeStep, VoteStep, Toggle, AutoReal, AutoChaff, OfferReal, OfferChaff,
      CastVote, client
<1> HIDE DEF Goal
<1> QED
  BY <1>3, <1>4, <1>5, <1>6, <1>7, <1>8 DEF Next, MessageStep, Handle, ConnectionStep

\* A token on its way arrives, and is adopted.
LEMMA ComingKept ==
    ASSUME MsgInv, Next, online = Clients, online' = Clients, NEW t \in issued, Coming(t)
    PROVE  Kept(t)'
<1>1. IInv /\ Boxes /\ OutBoxes /\ held \in [Clients -> SUBSET issued]
  BY DEF MsgInv, IInv, TypeOK
\* In an inbox.
<1>2. ASSUME NEW c \in Clients, Issued(t) \in In(c) PROVE Kept(t)'
  <2> DEFINE m == Head(inbox[c])
  <2>1. In(c) \subseteq In(c)' \/ (Handle(c) /\ In(c) \subseteq In(c)' \cup {m})
    BY QueuesKeep
  <2>2. Issued(t) \in In(c)' => Kept(t)'
    BY DEF Kept, Coming
  <2>3. CASE Handle(c) /\ m = Issued(t)
    <3>1. m.type = "TOKEN_ISSUED" /\ m.token = t
      BY <2>3 DEF Issued
    <3>2. HandleIssued(c)
      BY <2>3, <3>1
      DEF Handle, HandleOnion, HandlePropose, HandleAccept, HandleResponse, HandleInvalidated,
          First, FirstLayer, FirstTrade
    <3>3. t \in held'[c]
      BY <1>1, <3>1, <3>2 DEF HandleIssued
    <3> QED
      BY <3>3 DEF Kept
  <2> QED
    BY <1>2, <2>1, <2>2, <2>3
<1>3. ASSUME NEW c \in Clients, NEW m \in In(c), Bears(m, t) PROVE Kept(t)'
  <2>1. In(c) \subseteq In(c)' \/ (Handle(c) /\ In(c) \subseteq In(c)' \cup {Head(inbox[c])})
    BY QueuesKeep
  <2>2. m \in In(c)' => Kept(t)'
    BY <1>3 DEF Kept, Coming
  <2>3. CASE Handle(c) /\ m = Head(inbox[c])
    <3> DEFINE w == Accept("REAL", t)
    <3>1. m.type = "RELAY" /\ Plain(m.body) = w
      BY <1>3, SealOpens DEF Bears
    <3>2. w.action = "ACCEPT" /\ w.kind = "REAL" /\ w.token = t /\ "next" \notin DOMAIN w
      BY DEF Accept
    <3> HIDE DEF w
    <3>3. HandleAccept(c)
      BY <2>3, <3>1, <3>2
      DEF Handle, HandleIssued, HandleOnion, HandlePropose, HandleResponse, HandleInvalidated,
          First, FirstLayer, FirstTrade, Peels
    <3>4. t \in held'[c]
      BY <1>1, <2>3, <3>1, <3>2, <3>3 DEF HandleAccept, Genuine, Verifies
    <3> QED
      BY <3>4 DEF Kept
  <2> QED
    BY <1>3, <2>1, <2>2, <2>3
\* In an outbox.
<1>4. ASSUME NEW c \in Clients, NEW m \in Out(c), Bears(m, t) PROVE Kept(t)'
  <2>1. Out(c) \subseteq Out(c)' \/ (Serve(c) /\ Out(c) \subseteq Out(c)' \cup {Head(outbox[c])})
    BY QueuesKeep
  <2>2. m \in Out(c)' => Kept(t)'
    BY <1>4 DEF Kept, Coming
  <2>3. CASE Serve(c) /\ m = Head(outbox[c])
    <3>1. m.type = "RELAY" /\ m.body = Seal(m.to, Accept("REAL", t))
      BY <1>4 DEF Bears
    <3> DEFINE r == Relay(m.to, m.body)
    <3>2. inbox' = Deliver(inbox, {m.to}, <<r>>)
      BY <2>3, <3>1 DEF Serve, ServeRelay, ServeVote, ServeReissue, FirstOut
    <3>3. r.type = "RELAY" /\ r.to = m.to /\ r.body = m.body
      BY DEF Relay
    <3> HIDE DEF r
    <3>4. m.to \in Clients
      <4>1. FitsFrom(c, m)
        BY <1>4 DEF MsgInv
      <4> QED
        BY <3>1, <4>1, LayerRead DEF FitsFrom, Layer, Trade
    <3>5. r \in In(m.to)'
      BY <1>1, <3>2, <3>4, Delivers
    <3>6. Bears(r, t)
      BY <3>1, <3>3 DEF Bears
    <3> QED
      BY <3>4, <3>5, <3>6 DEF Kept, Coming
  <2> QED
    BY <1>4, <2>1, <2>2, <2>3
<1> QED
  BY <1>2, <1>3, <1>4 DEF Coming

LEMMA SafeStep == SafeInv /\ [TraceNext]_mcvars => SafeInv'
<1> SUFFICES ASSUME SafeInv, [TraceNext]_mcvars PROVE SafeInv'
  OBVIOUS
<1>1. MsgInv /\ TypeOK /\ Boxes
  BY DEF SafeInv, MsgInv, IInv
<1>2. [Next]_vars
  BY TraceIsNext
<1>3. MsgInv'
  BY <1>1, <1>2, MsgNext
<1>4. CASE UNCHANGED mcvars
  <2>1. UNCHANGED vars /\ UNCHANGED broken
    BY <1>4 DEF mcvars
  <2>2. UNCHANGED <<online, held, inbox, outbox, issued, ledger>>
    BY <2>1 DEF vars, client, server
  <2>3. (\A t : Kept(t) => Kept(t)') /\ Alive' = Alive
    BY <2>2 DEF Kept, Coming, In, Out, Alive
  <2> QED
    BY <1>3, <2>1, <2>2, <2>3 DEF SafeInv
<1>5. CASE TraceNext
  <2>1. broken' = (broken \/ online' # Clients)
    BY <1>5 DEF TraceNext, Remembered
  <2>2. SUFFICES ASSUME ~broken', NEW t \in Alive' PROVE online' = Clients /\ Kept(t)'
    BY <1>3, <2>1 DEF SafeInv
  <2>3. ~broken /\ online' = Clients /\ online = Clients
    BY <2>1, <2>2 DEF SafeInv
  <2>4. t \in issued' /\ t \notin ledger /\ issued \subseteq issued'
    BY <1>1, <1>2, <2>2, ServerTypes DEF Alive
  <2>5. Next
    BY <1>5 DEF TraceNext
  <2>6. CASE t \in issued
    <3>1. Kept(t)
      BY <2>3, <2>4, <2>6 DEF SafeInv, Alive
    <3>2. CASE Coming(t)
      BY <1>1, <2>3, <2>5, <2>6, <3>2, ComingKept
    <3>3. ASSUME NEW c \in Clients, t \in held[c] PROVE Kept(t)'
      <4>1. t \in held'[c] \/ \E m \in Out(c)' : Bears(m, t)
        BY <1>1, <2>4, <2>5, <3>3, HeldKept
      <4> QED
        BY <4>1 DEF Kept, Coming
    <3> QED
      BY <2>3, <3>1, <3>2, <3>3 DEF Kept
  <2>7. CASE t \notin issued
    <3>1. PICK c \in Clients : IssueToken(c, t)
      <4>1. issued' # issued
        BY <2>4, <2>7
      <4>2. ~TradeStep /\ ~VoteStep
        BY <4>1
        DEF TradeStep, VoteStep, Toggle, AutoReal, AutoChaff, OfferReal, OfferChaff, CastVote, server
      <4>3. ~MessageStep
        BY <4>1
        DEF MessageStep, Handle, HandleIssued, HandleOnion, HandlePropose, HandleAccept, HandleResponse,
            HandleInvalidated, Serve, ServeRelay, ServeVote, ServeReissue, server
      <4>4. ~ConnectionStep
        BY <4>1 DEF ConnectionStep, GoOffline, ComeBack, server
      <4>5. IssueStep
        BY <2>5, <4>2, <4>3, <4>4 DEF Next
      <4>6. PICK c \in Clients, u \in Tokens : IssueToken(c, u)
        BY <4>5 DEF IssueStep
      <4>7. u = t
        BY <2>4, <2>7, <4>6 DEF IssueToken
      <4> QED
        BY <4>6, <4>7
    <3> DEFINE m == Issued(t)
    <3>2. inbox' = Deliver(inbox, {c}, <<m>>)
      BY <3>1 DEF IssueToken
    <3> HIDE DEF m
    <3>3. m \in In(c)'
      BY <1>1, <2>3, <3>2, Delivers
    <3> QED
      BY <2>3, <3>3 DEF Kept, Coming, m
  <2> QED
    BY <2>3, <2>6, <2>7
<1> QED
  BY <1>4, <1>5

LEMMA SafeAlways == TraceSpec => []SafeInv
<1>1. TraceInit => SafeInv
  <2> SUFFICES ASSUME TraceInit PROVE SafeInv
    OBVIOUS
  <2>1. Init /\ MsgInv
    BY MsgInit DEF TraceInit
  <2>2. online = Clients /\ Alive = {}
    BY <2>1 DEF Init, Alive
  <2> QED
    BY <2>1, <2>2 DEF SafeInv
<1> QED
  BY <1>1, SafeStep, PTL DEF TraceSpec

\* Tokens are issued, offered, swapped, cast through any onions, answered and
\* invalidated, by any number of clients, while the switches change: as long as no
\* connection is lost, a token that can still be spent is held by somebody or on
\* its way to somebody (client/controller.py).
THEOREM TokenNeverLost == TraceSpec => []TokenNotLost
<1>1. SafeInv => TokenNotLost
  BY ComingIsArriving DEF SafeInv, TokenNotLost, Kept
<1> QED
  BY <1>1, SafeAlways, PTL

(***************************************************************************)
(* Onions tell each hop no more than the next.                             *)
(***************************************************************************)
LEMMA MsgAlways == Spec => []MsgInv
<1>1. MsgInv /\ [Next]_vars => MsgInv'
  BY MsgNext
<1> QED
  BY <1>1, MsgInit, PTL DEF Spec

\* However clients, trades, votes and lost connections interleave, a hop of a vote
\* reads its own layer and cannot open the one below, and no client is handed what
\* it handed on (build_onion, peel_layer, pick_path).
THEOREM HopsReadOneLayer == Spec => []OneLayerEach
<1>1. MsgInv => OneLayerEach
  <2> SUFFICES ASSUME MsgInv, NEW c \in Clients, NEW msg \in In(c) \cup Out(c),
                      msg.type = "RELAY", Peels(msg.to, msg.body)
               PROVE  /\ msg \in Out(c) => msg.to # c
                      /\ IsExit(Plain(msg.body)) \/ ~Opens(msg.to, Plain(msg.body).blob)
    BY DEF OneLayerEach, In, Out
  <2>1. ~Trade(msg)
    BY TradeRead
  <2>2. Fits(msg) /\ (msg \in Out(c) => FitsFrom(c, msg))
    BY DEF MsgInv, Fits, FitsFrom
  <2>3. PICK t \in Tokens : Carries(msg, t)
    BY <2>1, <2>2 DEF Fits, Layer
  <2>4. msg \in Out(c) => msg.to # c
    BY <2>1, <2>2 DEF FitsFrom
  <2>5. CASE ~IsExit(Plain(msg.body))
    <3> DEFINE layer == Plain(msg.body)
               r == Relay(layer.next, layer.blob)
    <3>1. layer.next # msg.to /\ Carries(r, t)
      BY <2>3, <2>5, LayerRead
    <3>2. r.to = layer.next /\ r.body = layer.blob
      BY DEF Relay
    <3> HIDE DEF layer, r
    <3>3. Opens(msg.to, r.body) => msg.to = r.to
      BY <3>1, LayerRead
    <3> QED
      BY <2>4, <3>1, <3>2, <3>3 DEF layer
  <2> QED
    BY <2>4, <2>5
<1> QED
  BY <1>1, MsgAlways, PTL

(***************************************************************************)
(* Whom a token can reach.  Until the client that a token was issued to    *)
(* has handled that, nobody else has it and nothing that is under way      *)
(* names it; after that the token is known.                                *)
(***************************************************************************)
Known == {t \in issued : \A c \in Clients : Issued(t) \notin In(c)}

\* The tokens in the message are among s.
Names(m, s) ==
    /\ m.type = "SUBMIT_VOTE" => m.token \in s
    /\ m.type = "RELAY" =>
          \/ Trade(m) /\ Plain(m.body).token \in s \cup {NoToken}
          \/ \E t \in s : Carries(m, t)

\* The message announces one of the tokens s.
IsIssue(m, s) == \E t \in s : m = Issued(t)

IssuedOnce ==
    /\ \A c \in Clients : \A i \in 1..Len(inbox[c]) :
          inbox[c][i].type = "TOKEN_ISSUED" => IsIssue(inbox[c][i], issued)
    /\ \A c, d \in Clients : \A i \in 1..Len(inbox[c]), j \in 1..Len(inbox[d]) :
          inbox[c][i].type = "TOKEN_ISSUED" /\ inbox[d][j] = inbox[c][i] => c = d /\ i = j

KnownInv ==
    /\ MsgInv /\ IssuedOnce
    /\ ledger \subseteq Known
    /\ \A c \in Clients : held[c] \subseteq Known
    /\ \A c \in Clients : \A m \in In(c) \cup Out(c) : Names(m, Known)

\* While connections last, who holds a dead token and was not late is about to be
\* told.
TellInv == KnownInv /\ (~broken => online = Clients) /\ DeadTokensDoomed

LEMMA NamesMore ==
    ASSUME NEW m, NEW s, NEW u, s \subseteq u, Names(m, s)
    PROVE  Names(m, u)
BY DEF Names

LEMMA RangeAt ==
    ASSUME NEW S, NEW q \in Seq(S)
    PROVE  Len(q) \in Nat /\ \A m : m \in Range(q) <=> \E i \in 1..Len(q) : q[i] = m
<1>1. Len(q) \in Nat /\ DOMAIN q = 1..Len(q)
  OBVIOUS
<1> QED
  BY <1>1 DEF Range

\* What new announces as issued was in old before, k places behind.
Places(new, old, k) ==
    \A i \in 1..Len(new) : new[i].type = "TOKEN_ISSUED" => i + k \in 1..Len(old) /\ new[i] = old[i + k]

LEMMA PlacesTwice ==
    ASSUME NEW x, NEW y, NEW z, Places(x, y, 0), Places(y, z, 0), Len(y) \in Nat
    PROVE  Places(x, z, 0)
<1>1. SUFFICES ASSUME NEW i \in 1..Len(x), x[i].type = "TOKEN_ISSUED"
               PROVE  i + 0 \in 1..Len(z) /\ x[i] = z[i + 0]
  BY DEF Places
<1>2. i + 0 \in 1..Len(y) /\ x[i] = y[i + 0]
  BY <1>1 DEF Places
<1>3. i + 0 = i
  BY <1>2
<1> QED
  BY <1>1, <1>2, <1>3 DEF Places

\* Deliver writes at the end.
LEMMA DeliverPlaces ==
    ASSUME NEW S, NEW box \in [Clients -> Seq(S)], NEW ds, NEW msgs \in Seq(S), NEW c \in Clients,
           \A j \in 1..Len(msgs) : msgs[j].type # "TOKEN_ISSUED"
    PROVE  Places(Deliver(box, ds, msgs)[c], box[c], 0)
<1> DEFINE new == Deliver(box, ds, msgs)[c]
<1>1. new = IF c \in ds \cap online THEN box[c] \o msgs ELSE box[c]
  BY DEF Deliver
<1> HIDE DEF new
<1>2. box[c] \in Seq(S) /\ Len(box[c]) \in Nat /\ Len(msgs) \in Nat
  OBVIOUS
<1>3. CASE new = box[c]
  <2>1. \A i \in 1..Len(new) : i + 0 = i
    BY <1>2, <1>3
  <2> QED
    BY <1>3, <2>1 DEF Places, new
<1>4. CASE new = box[c] \o msgs
  <2>1. SUFFICES ASSUME NEW i \in 1..Len(new), new[i].type = "TOKEN_ISSUED"
                 PROVE  i + 0 \in 1..Len(box[c]) /\ new[i] = box[c][i + 0]
    BY DEF Places, new
  <2>2. Len(new) = Len(box[c]) + Len(msgs) /\ i + 0 = i
    BY <1>2, <1>4
  <2>3. CASE i \in 1..Len(box[c])
    BY <1>2, <1>4, <2>2, <2>3
  <2>4. CASE i \notin 1..Len(box[c])
    <3>1. i - Len(box[c]) \in 1..Len(msgs) /\ new[i] = msgs[i - Len(box[c])]
      BY <1>2, <1>4, <2>2, <2>4
    <3> QED
      BY <2>1, <3>1
  <2> QED
    BY <2>3, <2>4
<1> QED
  BY <1>1, <1>3, <1>4 DEF new

LEMMA PlacesKept ==
    ASSUME MsgInv, Next, NEW c \in Clients
    PROVE  \/ IssueStep \/ Places(inbox'[c], inbox[c], 0)
           \/ Handle(c) /\ Places(inbox'[c], inbox[c], 1)
<1> DEFINE Stay == Places(inbox'[c], inbox[c], 0)
<1>1. PICK S : inbox \in [Clients -> Seq(S)]
  BY DEF MsgInv, IInv, Boxes
<1>2. inbox[c] \in Seq(S) /\ Len(inbox[c]) \in Nat
  BY <1>1
<1>3. ASSUME inbox'[c] = inbox[c] PROVE Stay
  <2>1. \A i \in 1..Len(inbox[c]) : i + 0 = i
    BY <1>2
  <2> QED
    BY <1>3, <2>1 DEF Places
<1>4. \A t, st : Response(st, t).type # "TOKEN_ISSUED" /\ Invalidated(t).type # "TOKEN_ISSUED"
  BY DEF Response, Invalidated
<1>5. ASSUME NEW ds, NEW m, m.type # "TOKEN_ISSUED", inbox' = Deliver(inbox, ds, <<m>>) PROVE Stay
  <2> DEFINE one == <<m>>
             T == S \cup {m}
  <2>1. inbox \in [Clients -> Seq(T)] /\ one \in Seq(T) /\ \A j \in 1..Len(one) : one[j].type # "TOKEN_ISSUED"
    BY <1>1, <1>5
  <2>2. inbox' = Deliver(inbox, ds, one)
    BY <1>5
  <2> HIDE DEF one, T
  <2>3. Places(Deliver(inbox, ds, one)[c], inbox[c], 0)
    BY <2>1, DeliverPlaces
  <2> QED
    BY <2>2, <2>3
<1>6. ASSUME NEW a \in Clients, NEW t, inbox' = Cascade(a, t) PROVE Stay
  <2> DEFINE two == <<Response("REJECTED", t), Invalidated(t)>>
             one == <<Invalidated(t)>>
             mid == Deliver(inbox, {a}, two)
             T == S \cup {Response("REJECTED", t), Invalidated(t)}
  <2>1. inbox \in [Clients -> Seq(T)] /\ two \in Seq(T) /\ one \in Seq(T)
    BY <1>1
  <2>2. /\ \A j \in 1..Len(two) : two[j].type # "TOKEN_ISSUED"
        /\ \A j \in 1..Len(one) : one[j].type # "TOKEN_ISSUED"
    BY <1>4
  <2>3. inbox' = Deliver(mid, Clients, one)
    BY <1>6 DEF Cascade
  <2> HIDE DEF one, two, T
  <2>4. mid \in [Clients -> Seq(T)]
    BY <2>1 DEF Deliver
  <2>5. Places(mid[c], inbox[c], 0)
    BY <2>1, <2>2, DeliverPlaces
  <2> HIDE DEF mid
  <2>6. Places(Deliver(mid, Clients, one)[c], mid[c], 0)
    BY <2>1, <2>2, <2>4, DeliverPlaces
  <2>7. Len(mid[c]) \in Nat
    BY <2>4
  <2> QED
    BY <2>3, <2>5, <2>6, <2>7, PlacesTwice
<1>8. ASSUME NEW a \in Clients, Handle(a) PROVE Stay \/ (Handle(c) /\ Places(inbox'[c], inbox[c], 1))
  <2>1. inbox[a] # <<>> /\ inbox' = [inbox EXCEPT ![a] = Tail(@)]
    BY <1>8
    DEF Handle, HandleIssued, HandleOnion, HandlePropose, HandleAccept, HandleResponse,
        HandleInvalidated, First, FirstLayer, FirstTrade, Taken
  <2>2. CASE c # a
    BY <1>1, <1>3, <2>1, <2>2
  <2>3. CASE c = a
    <3>1. inbox'[c] = Tail(inbox[c]) /\ inbox[c] # <<>>
      BY <1>1, <2>1, <2>3
    <3>2. Len(Tail(inbox[c])) = Len(inbox[c]) - 1
      BY <1>2, <3>1
    <3>3. \A i \in 1..Len(Tail(inbox[c])) :
              i + 1 \in 1..Len(inbox[c]) /\ Tail(inbox[c])[i] = inbox[c][i + 1]
      BY <1>2, <3>1, <3>2
    <3> QED
      BY <1>8, <2>3, <3>1, <3>3 DEF Places
  <2> QED
    BY <2>2, <2>3
<1>9. ASSUME NEW a \in Clients, Serve(a) PROVE Stay
  <2>1. CASE ServeRelay(a)
    <3> DEFINE m == Relay(Head(outbox[a]).to, Head(outbox[a]).body)
    <3>1. m.type # "TOKEN_ISSUED"
      BY DEF Relay
    <3>2. inbox' = Deliver(inbox, {Head(outbox[a]).to}, <<m>>)
      BY <2>1 DEF ServeRelay
    <3> HIDE DEF m, Stay
    <3> QED
      BY <1>5, <3>1, <3>2
  <2>2. CASE ServeVote(a)
    <3>1. PICK t : (\E st : inbox' = Deliver(inbox, {a}, <<Response(st, t)>>)) \/ inbox' = Cascade(a, t)
      BY <2>2 DEF ServeVote
    <3>2. ASSUME NEW st, inbox' = Deliver(inbox, {a}, <<Response(st, t)>>) PROVE Stay
      <4> DEFINE m == Response(st, t)
      <4>1. m.type # "TOKEN_ISSUED" /\ inbox' = Deliver(inbox, {a}, <<m>>)
        BY <1>4, <3>2
      <4> HIDE DEF m, Stay
      <4> QED
        BY <1>5, <4>1
    <3> HIDE DEF Stay
    <3> QED
      BY <1>6, <3>1, <3>2
  <2>3. CASE ServeReissue(a)
    BY <1>3, <2>3 DEF ServeReissue
  <2> QED
    BY <1>9, <2>1, <2>2, <2>3 DEF Serve
<1>10. ASSUME NEW a \in Clients, GoOffline(a) PROVE Stay
  <2>1. PICK n \in 0..Len(inbox[a]) : inbox' = [inbox EXCEPT ![a] = SubSeq(@, 1, n)]
    BY <1>10 DEF GoOffline
  <2>2. CASE c # a
    BY <1>1, <1>3, <2>1, <2>2
  <2>3. CASE c = a
    <3>1. inbox'[c] = SubSeq(inbox[c], 1, n) /\ n \in 0..Len(inbox[c])
      BY <1>1, <2>1, <2>3
    <3>2. /\ Len(SubSeq(inbox[c], 1, n)) = n
          /\ \A i \in 1..n : SubSeq(inbox[c], 1, n)[i] = inbox[c][i] /\ i \in 1..Len(inbox[c]) /\ i + 0 = i
      BY <1>2, <3>1
    <3> QED
      BY <3>1, <3>2 DEF Places
  <2> QED
    BY <2>2, <2>3
<1>11. ASSUME TradeStep \/ VoteStep PROVE Stay
  <2>1. UNCHANGED inbox
    BY <1>11 DEF TradeStep, VoteStep, Toggle, AutoReal, AutoChaff, OfferReal, OfferChaff, CastVote
  <2> QED
    BY <1>3, <2>1
<1>12. ASSUME NEW a \in Clients, ComeBack(a) PROVE Stay
  BY <1>3, <1>12 DEF ComeBack
<1> DEFINE Goal == Stay \/ (Handle(c) /\ Places(inbox'[c], inbox[c], 1))
<1>13. (\E a \in Clients : Handle(a)) => Goal
  BY <1>8
<1>14. (\E a \in Clients : Serve(a) \/ GoOffline(a) \/ ComeBack(a)) => Stay
  BY <1>9, <1>10, <1>12
<1> HIDE DEF Stay
<1>15. Goal \/ IssueStep
  BY <1>11, <1>13, <1>14 DEF Next, MessageStep, ConnectionStep
<1> QED
  BY <1>15 DEF Stay

LEMMA OnceStep ==
    ASSUME MsgInv, IssuedOnce, Next
    PROVE  IssuedOnce' /\ Known \subseteq Known'
<1>1. TypeOK /\ Boxes /\ Boxes'
  BY MsgNext DEF MsgInv, IInv
<1>2. issued \subseteq issued'
  BY <1>1, ServerTypes
<1>3. PICK S : inbox \in [Clients -> Seq(S)]
  BY <1>1 DEF Boxes
<1>4. PICK T : inbox' \in [Clients -> Seq(T)]
  BY <1>1 DEF Boxes
<1>5. \A c \in Clients : Len(inbox[c]) \in Nat /\ Len(inbox'[c]) \in Nat
  BY <1>3, <1>4
<1>6. /\ \A c \in Clients : \A m : m \in In(c) <=> \E i \in 1..Len(inbox[c]) : inbox[c][i] = m
      /\ \A c \in Clients : \A m : m \in In(c)' <=> \E i \in 1..Len(inbox'[c]) : inbox'[c][i] = m
  <2>1. ASSUME NEW c \in Clients
        PROVE  \A m : m \in In(c) <=> \E i \in 1..Len(inbox[c]) : inbox[c][i] = m
    BY <1>3, RangeAt DEF In
  <2>2. ASSUME NEW c \in Clients
        PROVE  \A m : m \in In(c)' <=> \E i \in 1..Len(inbox'[c]) : inbox'[c][i] = m
    BY <1>4, RangeAt DEF In
  <2> QED
    BY <2>1, <2>2
<1>7. \A t : Issued(t).type = "TOKEN_ISSUED" /\ Issued(t).token = t
  BY DEF Issued
\* Nothing is issued: of the announcements at most one is taken, by its reader.
<1>8. CASE ~IssueStep
  <2>1. \A c \in Clients : \E k \in {0, 1} : Places(inbox'[c], inbox[c], k)
    BY <1>8, PlacesKept
  <2>2. ASSUME NEW c \in Clients, NEW i \in 1..Len(inbox'[c]), inbox'[c][i].type = "TOKEN_ISSUED"
        PROVE  IsIssue(inbox'[c][i], issued') /\ inbox'[c][i] \in In(c)
    <3>1. PICK k \in {0, 1} : Places(inbox'[c], inbox[c], k)
      BY <2>1
    <3>2. i + k \in 1..Len(inbox[c]) /\ inbox'[c][i] = inbox[c][i + k]
      BY <2>2, <3>1 DEF Places
    <3>3. IsIssue(inbox[c][i + k], issued)
      BY <2>2, <3>2 DEF IssuedOnce
    <3> QED
      BY <1>2, <1>6, <3>2, <3>3 DEF IsIssue
  <2>3. ASSUME NEW c \in Clients, NEW d \in Clients, NEW i \in 1..Len(inbox'[c]), NEW j \in 1..Len(inbox'[d]),
               inbox'[c][i].type = "TOKEN_ISSUED", inbox'[d][j] = inbox'[c][i]
        PROVE  c = d /\ i = j
    <3>1. PICK k \in {0, 1} : Places(inbox'[c], inbox[c], k)
      BY <2>1
    <3>2. PICK l \in {0, 1} : Places(inbox'[d], inbox[d], l)
      BY <2>1
    <3>3. i + k \in 1..Len(inbox[c]) /\ inbox'[c][i] = inbox[c][i + k]
      BY <2>3, <3>1 DEF Places
    <3>4. j + l \in 1..Len(inbox[d]) /\ inbox'[d][j] = inbox[d][j + l]
      BY <2>3, <3>2 DEF Places
    <3>5. c = d
      BY <2>3, <3>3, <3>4 DEF IssuedOnce
    <3>6. j + k \in 1..Len(inbox[c]) /\ inbox'[d][j] = inbox[c][j + k]
      BY <2>3, <3>1, <3>5 DEF Places
    <3>7. i + k = j + k
      BY <2>3, <3>3, <3>6 DEF IssuedOnce
    <3>8. i = j
      BY <1>5, <3>7
    <3> QED
      BY <3>5, <3>8
  <2>4. IssuedOnce'
    BY <2>2, <2>3 DEF IssuedOnce
  <2>5. ASSUME NEW t \in Known, NEW c \in Clients PROVE Issued(t) \notin In(c)'
    BY <1>6, <1>7, <2>2, <2>5 DEF Known
  <2> QED
    BY <1>2, <2>4, <2>5 DEF Known
\* A token is issued that never was.
<1>9. CASE IssueStep
  <2>1. PICK a \in Clients, u \in Tokens : IssueToken(a, u)
    BY <1>9 DEF IssueStep
  <2>2. u \notin issued /\ issued' = issued \cup {u} /\ inbox' = Deliver(inbox, {a}, <<Issued(u)>>)
    BY <2>1 DEF IssueToken
  <2>3. \A c \in Clients : inbox'[c] = IF c \in {a} \cap online THEN inbox[c] \o <<Issued(u)>> ELSE inbox[c]
    BY <2>2 DEF Deliver
  <2>4. ASSUME NEW c \in Clients, NEW i \in 1..Len(inbox'[c])
        PROVE  \/ i \in 1..Len(inbox[c]) /\ inbox'[c][i] = inbox[c][i]
               \/ c = a /\ i = Len(inbox[c]) + 1 /\ inbox'[c][i] = Issued(u)
    <3>1. CASE c \in {a} \cap online
      <4> DEFINE one == <<Issued(u)>>
      <4>1. inbox'[c] = inbox[c] \o one /\ Len(one) = 1 /\ one[1] = Issued(u)
        BY <2>3, <3>1
      <4>2. one \in Seq({Issued(u)})
        OBVIOUS
      <4> HIDE DEF one
      <4>3. inbox[c] \in Seq(S \cup {Issued(u)}) /\ one \in Seq(S \cup {Issued(u)})
        BY <1>3, <4>2
      <4>4. Len(inbox'[c]) = Len(inbox[c]) + 1
        <5>1. Len(inbox[c] \o one) = Len(inbox[c]) + Len(one)
          BY <4>3
        <5> QED
          BY <4>1, <5>1
      <4>5. CASE i \in 1..Len(inbox[c])
        BY <4>1, <4>3, <4>5
      <4>6. CASE i \notin 1..Len(inbox[c])
        <5>1. i = Len(inbox[c]) + 1
          BY <1>5, <2>4, <4>4, <4>6
        <5>2. inbox'[c][i] = one[1]
          BY <1>5, <4>1, <4>3, <5>1
        <5> QED
          BY <3>1, <4>1, <5>1, <5>2
      <4> QED
        BY <4>5, <4>6
    <3>2. CASE c \notin {a} \cap online
      BY <2>3, <2>4, <3>2
    <3> QED
      BY <3>1, <3>2
  <2>5. ASSUME NEW c \in Clients, NEW i \in 1..Len(inbox[c]), inbox[c][i].type = "TOKEN_ISSUED"
        PROVE  inbox[c][i] # Issued(u) /\ IsIssue(inbox[c][i], issued')
    <3>1. PICK t \in issued : inbox[c][i] = Issued(t)
      BY <2>5 DEF IssuedOnce, IsIssue
    <3> QED
      BY <1>2, <1>7, <2>2, <3>1 DEF IsIssue
  <2>6. IsIssue(Issued(u), issued')
    BY <2>2 DEF IsIssue
  <2>7. ASSUME NEW c \in Clients, NEW i \in 1..Len(inbox'[c]), inbox'[c][i].type = "TOKEN_ISSUED"
        PROVE  IsIssue(inbox'[c][i], issued')
    BY <2>4, <2>5, <2>6, <2>7
  <2>8. ASSUME NEW c \in Clients, NEW i \in 1..Len(inbox'[c]), inbox'[c][i] = Issued(u)
         PROVE  c = a /\ i = Len(inbox[c]) + 1
    <3>1. inbox'[c][i].type = "TOKEN_ISSUED"
      BY <1>7, <2>8
    <3>2. ASSUME i \in 1..Len(inbox[c]), inbox'[c][i] = inbox[c][i] PROVE FALSE
      <4>1. inbox[c][i].type = "TOKEN_ISSUED" /\ inbox[c][i] = Issued(u)
        BY <2>8, <3>1, <3>2
      <4> QED
        BY <2>5, <3>2, <4>1
    <3> QED
      BY <2>4, <3>2
  <2>9. ASSUME NEW c \in Clients, NEW d \in Clients, NEW i \in 1..Len(inbox'[c]), NEW j \in 1..Len(inbox'[d]),
               inbox'[c][i].type = "TOKEN_ISSUED", inbox'[d][j] = inbox'[c][i]
        PROVE  c = d /\ i = j
    <3>1. CASE inbox'[c][i] = Issued(u)
      <4>1. c = a /\ i = Len(inbox[c]) + 1
        BY <2>8, <3>1
      <4>2. d = a /\ j = Len(inbox[d]) + 1
        BY <2>9, <2>8, <3>1
      <4> QED
        BY <4>1, <4>2
    <3>2. CASE inbox'[c][i] # Issued(u)
      <4>1. i \in 1..Len(inbox[c]) /\ inbox'[c][i] = inbox[c][i]
        BY <2>4, <3>2
      <4>2. j \in 1..Len(inbox[d]) /\ inbox'[d][j] = inbox[d][j]
        BY <2>4, <2>9, <3>2
      <4> QED
        BY <2>9, <4>1, <4>2 DEF IssuedOnce
    <3> QED
      BY <3>1, <3>2
  <2>10. IssuedOnce'
    BY <2>7, <2>9 DEF IssuedOnce
  <2>11. ASSUME NEW t \in Known, NEW c \in Clients PROVE Issued(t) \notin In(c)'
    <3>1. t \in issued /\ Issued(t) \notin In(c)
      BY <2>11 DEF Known
    <3>2. Issued(t) # Issued(u)
      BY <1>7, <2>2, <3>1
    <3> QED
      BY <1>6, <2>4, <3>1, <3>2
  <2> QED
    BY <1>2, <2>10, <2>11 DEF Known
<1> QED
  BY <1>8, <1>9

\* A token is known when the announcement of its issue is handled.
LEMMA IssuedKnown ==
    ASSUME MsgInv, IssuedOnce, Next, NEW c \in Clients, HandleIssued(c)
    PROVE  /\ Head(inbox[c]) = Issued(Head(inbox[c]).token) /\ Head(inbox[c]) \in In(c)
           /\ Head(inbox[c]).token \in Known'
<1>1. TypeOK /\ Boxes /\ Boxes'
  BY MsgNext DEF MsgInv, IInv
<1>2. PICK S : inbox \in [Clients -> Seq(S)]
  BY <1>1 DEF Boxes
<1>3. inbox[c] # <<>> /\ Head(inbox[c]).type = "TOKEN_ISSUED" /\ Taken(c) /\ issued' = issued
  BY DEF HandleIssued, First, server
<1>4. inbox[c] \in Seq(S) /\ Len(inbox[c]) \in Nat /\ 1 \in 1..Len(inbox[c]) /\ Head(inbox[c]) = inbox[c][1]
  BY <1>2, <1>3
<1>5. PICK t \in issued : inbox[c][1] = Issued(t)
  BY <1>3, <1>4 DEF IssuedOnce, IsIssue
<1>6. inbox[c][1].token = t
  BY <1>5 DEF Issued
<1>7. inbox' = [inbox EXCEPT ![c] = Tail(@)]
  BY <1>3 DEF Taken
<1>8. inbox' \in [Clients -> Seq(S)]
  BY <1>2, <1>3, <1>7
<1>9. ASSUME NEW d \in Clients PROVE Issued(t) \notin In(d)'
  <2>1. SUFFICES ASSUME NEW j \in 1..Len(inbox'[d]), inbox'[d][j] = Issued(t) PROVE FALSE
    BY <1>8, RangeAt DEF In
  <2>2. CASE d = c
    <3>1. j + 1 \in 1..Len(inbox[c]) /\ inbox[c][j + 1] = inbox'[d][j] /\ j + 1 # 1
      BY <1>2, <1>3, <1>4, <1>7, <2>1, <2>2
    <3> QED
      BY <1>3, <1>4, <1>5, <2>1, <3>1 DEF IssuedOnce
  <2>3. CASE d # c
    <3>1. inbox'[d] = inbox[d]
      BY <1>2, <1>7, <2>3
    <3> QED
      BY <1>3, <1>4, <1>5, <2>1, <2>3, <3>1 DEF IssuedOnce
  <2> QED
    BY <2>2, <2>3
<1>10. Head(inbox[c]) \in In(c)
  BY <1>2, <1>3, RangeTaken DEF In
<1> QED
  BY <1>3, <1>4, <1>5, <1>6, <1>9, <1>10 DEF Known

(***************************************************************************)
(* What a client comes to hold it was issued, or read in a trade message.  *)
(***************************************************************************)
LEMMA Gains ==
    ASSUME MsgInv, Next, NEW c \in Clients, NEW t \in held'[c] \ held[c]
    PROVE  \/ HandleIssued(c) /\ t = Head(inbox[c]).token
           \/ /\ HandlePropose(c) \/ HandleAccept(c)
              /\ t = Plain(Head(inbox[c]).body).token /\ Verifies(t)
<1> DEFINE Goal == \/ HandleIssued(c) /\ t = Head(inbox[c]).token
                   \/ /\ HandlePropose(c) \/ HandleAccept(c)
                      /\ t = Plain(Head(inbox[c]).body).token /\ Verifies(t)
<1> SUFFICES Goal
  OBVIOUS
<1>1. held \in [Clients -> SUBSET issued]
  BY DEF MsgInv, IInv, TypeOK
<1>2. held' # held
  OBVIOUS
<1>3. ASSUME NEW a \in Clients, HandleIssued(a) PROVE Goal
  BY <1>1, <1>3 DEF HandleIssued
<1>4. ASSUME NEW a \in Clients, HandlePropose(a) PROVE Goal
  <2> DEFINE b == Plain(Head(inbox[a]).body)
             adopted == IF b.kind = "REAL" THEN held[a] \cup {b.token} ELSE held[a]
  <2>1. /\ Genuine(b)
        /\ \/ held' = [held EXCEPT ![a] = adopted]
           \/ \E u : held' = [held EXCEPT ![a] = IF b.kind = "REAL" THEN adopted \ {u} ELSE @]
    BY <1>2, <1>4 DEF HandlePropose
  <2>2. \A s : held' = [held EXCEPT ![a] = s] => held'[a] = s /\ (c # a => held'[c] = held[c])
    BY <1>1
  <2>3. held'[a] \subseteq adopted \/ held'[a] = held[a]
    BY <1>1, <2>1
  <2>4. c = a
    BY <1>1, <2>1
  <2>5. b.kind = "REAL" /\ t = b.token
    BY <2>3, <2>4
  <2>6. Verifies(t)
    BY <2>1, <2>5 DEF Genuine
  <2> QED
    BY <1>4, <2>4, <2>5, <2>6
<1>5. ASSUME NEW a \in Clients, HandleAccept(a) PROVE Goal
  <2> DEFINE b == Plain(Head(inbox[a]).body)
  <2>1. held' = [held EXCEPT ![a] = IF b.kind = "REAL" /\ Genuine(b) THEN @ \cup {b.token} ELSE @]
    BY <1>5 DEF HandleAccept
  <2> HIDE DEF b
  <2>2. c = a /\ b.kind = "REAL" /\ Genuine(b) /\ t = b.token
    BY <1>1, <2>1
  <2>3. Verifies(t)
    BY <2>2 DEF Genuine
  <2> QED
    BY <1>5, <2>2, <2>3 DEF b
<1>6. ASSUME NEW a \in Clients, HandleResponse(a) \/ HandleInvalidated(a) PROVE FALSE
  BY <1>1, <1>6 DEF HandleResponse, HandleInvalidated
<1>7. ~\E a \in Clients : HandleOnion(a) \/ Serve(a) \/ GoOffline(a) \/ ComeBack(a)
  BY <1>2 DEF HandleOnion, Serve, ServeRelay, ServeVote, ServeReissue, GoOffline, ComeBack, client
<1>8. ~IssueStep /\ ~TradeStep /\ ~VoteStep
  BY <1>2
  DEF IssueStep, IssueToken, TradeStep, VoteStep, Toggle, AutoReal, AutoChaff, OfferReal, OfferChaff,
      CastVote, client
<1> HIDE DEF Goal
<1> QED
  BY <1>3, <1>4, <1>5, <1>6, <1>7, <1>8 DEF Next, MessageStep, Handle, ConnectionStep

\* A trade message that is read is one, and the token in it is known.
LEMMA TradeNames ==
    ASSUME KnownInv, NEW c \in Clients, NEW action, FirstTrade(c, action)
    PROVE  /\ Trade(Head(inbox[c]))
           /\ Plain(Head(inbox[c]).body).token \in Known \cup {NoToken}
<1> DEFINE m == Head(inbox[c])
<1>1. m.type = "RELAY" /\ ~Peels(c, m.body) /\ Opens(c, m.body) /\ inbox[c] # <<>>
  BY DEF FirstTrade, First, OpensTrade
<1>2. m \in In(c)
  <2>1. PICK S : inbox \in [Clients -> Seq(S)]
    BY DEF KnownInv, MsgInv, IInv, Boxes
  <2>2. inbox[c] \in Seq(S)
    BY <2>1
  <2> QED
    BY <1>1, <2>2, RangeTaken DEF In
<1> HIDE DEF m
<1>3. \A t : ~Carries(m, t)
  BY <1>1, LayerRead
<1>4. Names(m, Known)
  BY <1>2 DEF KnownInv
<1> QED
  BY <1>1, <1>3, <1>4 DEF Names, m

LEMMA OutNames ==
    ASSUME KnownInv, Next, NEW c \in Clients, NEW m \in Out(c)'
    PROVE  m \in Out(c) \/ Names(m, Known)
<1> DEFINE Goal == m \in Out(c) \/ Names(m, Known)
<1> SUFFICES Goal
  OBVIOUS
<1>1. MsgInv /\ TypeOK /\ Boxes /\ OutBoxes /\ \A a \in Clients : held[a] \subseteq Known
  BY DEF KnownInv, MsgInv, IInv
<1>2. UNCHANGED outbox => Goal
  BY DEF Out
<1>3. ASSUME NEW a \in Clients, NEW n, Send(a, n), Names(n, Known) PROVE Goal
  BY <1>1, <1>3, Sends
<1>4. ASSUME NEW n, n.type = "RELAY",
             (Trade(n) /\ Plain(n.body).token \in Known \cup {NoToken}) \/ \E t \in Known : Carries(n, t)
      PROVE  Names(n, Known)
  BY <1>4 DEF Names
<1>5. \A t : SubmitVote(t).type = "SUBMIT_VOTE" /\ SubmitVote(t).token = t
             /\ Reissue(t, FALSE).type = "REISSUE_REQUEST"
  BY DEF SubmitVote, Reissue
<1>6. ASSUME NEW a \in Clients, NEW d \in Clients, OfferChaff(a, d) \/ \E t : OfferReal(a, d, t) PROVE Goal
  <2>1. PICK n : /\ Send(a, n) /\ n.type = "RELAY" /\ Trade(n)
                 /\ Plain(n.body).token \in held[a] \cup {NoToken}
    BY <1>1, <1>6, Proposes
  <2> QED
    BY <1>1, <1>3, <1>4, <2>1
<1>7. ASSUME TradeStep PROVE Goal
  <2>1. CASE \E a \in Clients : Toggle(a)
    BY <1>2, <2>1 DEF Toggle
  <2>2. CASE \E a, d \in Clients : AutoReal(a, d) \/ AutoChaff(a, d) \/ OfferChaff(a, d)
    <3>1. PICK a \in Clients, d \in Clients : OfferChaff(a, d) \/ \E t : OfferReal(a, d, t)
      BY <2>2 DEF AutoReal, AutoChaff
    <3> QED
      BY <1>6, <3>1
  <2>3. CASE \E a, d \in Clients, t \in Tokens : OfferReal(a, d, t)
    BY <1>6, <2>3
  <2> QED
    BY <1>7, <2>1, <2>2, <2>3 DEF TradeStep
<1>8. ASSUME NEW a \in Clients, NEW t, NEW p \in Paths(a), CastVote(a, t, p) PROVE Goal
  <2>1. PICK n : Send(a, n) /\ n.type = "RELAY" /\ Carries(n, t) /\ n.to \in Clients \ {a}
    BY <1>1, <1>8, Casts
  <2>2. t \in Known
    BY <1>1, <1>8 DEF CastVote
  <2> QED
    BY <1>3, <1>4, <2>1, <2>2
<1>9. ASSUME NEW a \in Clients, HandleOnion(a) PROVE Goal
  <2>1. Head(inbox[a]).type = "RELAY" /\ Peels(a, Head(inbox[a]).body) /\ inbox[a] # <<>> /\ Taken(a)
    BY <1>9 DEF HandleOnion, FirstLayer, First
  <2>2. ~Trade(Head(inbox[a])) /\ Head(inbox[a]) \in In(a)
    BY <1>1, <2>1, TradeRead, Takes
  <2>3. PICK t \in Known : Carries(Head(inbox[a]), t)
    BY <2>1, <2>2 DEF KnownInv, Names
  <2>4. PICK n : /\ Send(a, n)
                 /\ \/ n = SubmitVote(t)
                    \/ n.type = "RELAY" /\ Carries(n, t) /\ n.to \in Clients \ {a}
    BY <1>9, <2>3, HandsOn
  <2>5. n = SubmitVote(t) => Names(n, Known)
    BY <1>5, <2>3 DEF Names
  <2> QED
    BY <1>3, <1>4, <2>3, <2>4, <2>5
<1>10. ASSUME NEW a \in Clients, HandlePropose(a) PROVE Goal
  <2>1. /\ Trade(Head(inbox[a]))
        /\ Plain(Head(inbox[a]).body).token \in Known \cup {NoToken}
    BY <1>10, TradeNames DEF HandlePropose
  <2>2. \/ outbox' = outbox
        \/ \E n : /\ Send(a, n) /\ n.type = "RELAY" /\ Trade(n)
                  /\ \/ Plain(n.body).token \in held[a] \cup {NoToken}
                     \/ Plain(n.body).token = Plain(Head(inbox[a]).body).token
    BY <1>1, <1>10, <2>1, Counters
  <2>3. ASSUME NEW n, Send(a, n), n.type = "RELAY", Trade(n),
               \/ Plain(n.body).token \in held[a] \cup {NoToken}
               \/ Plain(n.body).token = Plain(Head(inbox[a]).body).token
        PROVE  Goal
    BY <1>1, <1>3, <1>4, <2>1, <2>3
  <2> HIDE DEF Goal
  <2> QED
    BY <1>2, <2>2, <2>3
<1>11. ASSUME NEW a \in Clients, HandleResponse(a) \/ HandleInvalidated(a) PROVE Goal
  <2>1. UNCHANGED outbox \/ \E t : Send(a, Reissue(t, FALSE))
    BY <1>11 DEF HandleResponse, HandleInvalidated
  <2>2. \A t : Names(Reissue(t, FALSE), Known)
    BY <1>5 DEF Names
  <2> QED
    BY <1>2, <1>3, <2>1, <2>2
<1>12. ASSUME NEW a \in Clients, HandleIssued(a) \/ HandleAccept(a) PROVE Goal
  BY <1>2, <1>12 DEF HandleIssued, HandleAccept
<1>13. ASSUME NEW a \in Clients, Serve(a) PROVE Goal
  <2>1. outbox[a] # <<>> /\ TakenOut(a)
    BY <1>13 DEF Serve, ServeRelay, ServeVote, ServeReissue, FirstOut
  <2> QED
    BY <1>1, <2>1, TakesOut
<1>14. ASSUME NEW a \in Clients, GoOffline(a) PROVE Goal
  <2>1. PICK n \in 0..Len(outbox[a]) : outbox' = [outbox EXCEPT ![a] = SubSeq(@, 1, n)]
    BY <1>14 DEF GoOffline
  <2>2. PICK S : outbox \in [Clients -> Seq(S)]
    BY <1>1 DEF OutBoxes
  <2>3. outbox[a] \in Seq(S)
    BY <2>2
  <2>4. Range(SubSeq(outbox[a], 1, n)) \subseteq Range(outbox[a])
    BY <2>3, RangeCut
  <2> QED
    BY <2>1, <2>2, <2>4 DEF Out
<1>15. ASSUME NEW a \in Clients, ComeBack(a) PROVE Goal
  BY <1>2, <1>15 DEF ComeBack
<1>16. IssueStep => Goal
  BY <1>2 DEF IssueStep, IssueToken
<1>17. VoteStep => Goal
  BY <1>8 DEF VoteStep
<1>18. (\E a \in Clients : Handle(a)) => Goal
  BY <1>9, <1>10, <1>11, <1>12 DEF Handle
<1> HIDE DEF Goal
<1> QED
  BY <1>7, <1>13, <1>14, <1>15, <1>16, <1>17, <1>18 DEF Next, MessageStep, ConnectionStep

LEMMA KnownNext ==
    ASSUME KnownInv, Next
    PROVE  KnownInv'
<1>1. MsgInv /\ IssuedOnce /\ TypeOK /\ Boxes /\ OutBoxes
  BY DEF KnownInv, MsgInv, IInv
<1>2. MsgInv' /\ IssuedOnce' /\ Known \subseteq Known'
  BY <1>1, MsgNext, OnceStep
<1>3. ledger' \subseteq Known'
  <2>1. ASSUME NEW a \in Clients, ServeVote(a) PROVE ledger' \subseteq Known
    <3> DEFINE m == Head(outbox[a])
    <3>1. outbox[a] # <<>> /\ m.type = "SUBMIT_VOTE" /\ TakenOut(a)
      BY <2>1 DEF ServeVote, FirstOut
    <3>2. m \in Out(a)
      BY <1>1, <3>1, TakesOut
    <3>3. m.token \in Known
      BY <3>1, <3>2 DEF KnownInv, Names
    <3>4. ledger' \subseteq ledger \cup {m.token}
      BY <2>1 DEF ServeVote
    <3> QED
      BY <3>3, <3>4 DEF KnownInv
  <2>2. (\E a \in Clients : ServeVote(a)) \/ ledger' = ledger
    BY DEF Next, IssueStep, IssueToken, TradeStep, VoteStep, Toggle, AutoReal, AutoChaff, OfferReal,
           OfferChaff, CastVote, MessageStep, Handle, HandleIssued, HandleOnion, HandlePropose,
           HandleAccept, HandleResponse, HandleInvalidated, Serve, ServeRelay, ServeReissue,
           ConnectionStep, GoOffline, ComeBack, server
  <2> QED
    BY <1>2, <2>1, <2>2 DEF KnownInv
<1>4. ASSUME NEW c \in Clients, NEW t \in held'[c] PROVE t \in Known'
  <2>1. CASE t \in held[c]
    BY <1>2, <2>1 DEF KnownInv
  <2>2. CASE t \notin held[c]
    <3>1. CASE HandleIssued(c) /\ t = Head(inbox[c]).token
      BY <1>1, <3>1, IssuedKnown
    <3>2. ASSUME HandlePropose(c) \/ HandleAccept(c), t = Plain(Head(inbox[c]).body).token, Verifies(t)
          PROVE  t \in Known'
      <4>1. t \in Known \cup {NoToken}
        BY <3>2, TradeNames DEF HandlePropose, HandleAccept
      <4>2. t # NoToken
        BY <1>1, <3>2, CustodyAssumption DEF Verifies, TypeOK
      <4> QED
        BY <1>2, <4>1, <4>2
    <3> QED
      BY <1>1, <1>4, <2>2, <3>1, <3>2, Gains
  <2> QED
    BY <2>1, <2>2
<1>5. ASSUME NEW c \in Clients, NEW m \in Out(c)' PROVE Names(m, Known')
  <2>1. Names(m, Known)
    BY <1>5, OutNames DEF KnownInv
  <2> QED
    BY <1>2, <2>1, NamesMore
<1>6. ASSUME NEW c \in Clients, NEW m \in In(c)' PROVE Names(m, Known')
  <2>1. PICK by \in {"issuer", "trader", "voter", "nobody"} : Grows(by)
    BY <1>1, MsgStep DEF Next
  <2>2. m \in In(c) => Names(m, Known)
    BY DEF KnownInv
  <2>3. ASSUME NEW d \in Clients, NEW r \in Out(d), r.type = "RELAY", m = Relay(r.to, r.body)
        PROVE  Names(m, Known)
    <3>1. Names(r, Known)
      BY <2>3 DEF KnownInv
    <3>2. m.type = "RELAY" /\ m.body = r.body /\ (Trade(r) => Trade(m))
      BY <2>3, Passes
    <3>3. \A t : Carries(r, t) => Carries(m, t)
      BY <2>3, Passes
    <3> QED
      BY <2>3, <3>1, <3>2, <3>3 DEF Names
  <2>4. MayGet(by, m) => Names(m, Known)
    BY <2>3 DEF MayGet, Names
  <2>5. Names(m, Known)
    BY <1>6, <2>1, <2>2, <2>4 DEF Grows, InGrows
  <2> QED
    BY <1>2, <2>5, NamesMore
<1> QED
  BY <1>2, <1>3, <1>4, <1>5, <1>6 DEF KnownInv

\* The notice stays in the inbox until it is handled, and then the token is dropped.
LEMMA NoticeStays ==
    ASSUME MsgInv, Next, online \subseteq online',
           NEW c \in Clients, NEW t \in held'[c], Invalidated(t) \in In(c)
    PROVE  Invalidated(t) \in In(c)'
<1>1. held \in [Clients -> SUBSET issued]
  BY DEF MsgInv, IInv, TypeOK
<1>2. CASE Handle(c) /\ Head(inbox[c]) = Invalidated(t)
  <2>1. Head(inbox[c]).type = "TOKEN_INVALIDATED" /\ Head(inbox[c]).token = t
    BY <1>2 DEF Invalidated
  <2>2. HandleInvalidated(c)
    BY <1>2, <2>1
    DEF Handle, HandleIssued, HandleOnion, HandlePropose, HandleAccept, HandleResponse,
        FirstLayer, FirstTrade, First
  <2>3. t \notin held'[c]
    BY <1>1, <2>1, <2>2 DEF HandleInvalidated
  <2> QED
    BY <2>3
<1>3. In(c) \subseteq In(c)' \/ (Handle(c) /\ In(c) \subseteq In(c)' \cup {Head(inbox[c])})
  BY QueuesKeep
<1> QED
  BY <1>2, <1>3

\* Everybody is told of a token as it is invalidated.
LEMMA AllTold ==
    ASSUME MsgInv, Next, online = Clients, NEW c \in Clients, NEW t \in invalidated' \ invalidated
    PROVE  Invalidated(t) \in In(c)'
<1>1. PICK a \in Clients : ServeVote(a)
  BY DEF Next, IssueStep, IssueToken, TradeStep, VoteStep, Toggle, AutoReal, AutoChaff, OfferReal,
         OfferChaff, CastVote, MessageStep, Handle, HandleIssued, HandleOnion, HandlePropose,
         HandleAccept, HandleResponse, HandleInvalidated, Serve, ServeRelay, ServeReissue,
         ConnectionStep, GoOffline, ComeBack, server
<1>2. inbox' = Cascade(a, t)
  BY <1>1 DEF ServeVote
<1> QED
  BY <1>2, Cascades DEF MsgInv, IInv

LEMMA TellStep == TellInv /\ [TraceNext]_mcvars => TellInv'
<1> SUFFICES ASSUME TellInv, [TraceNext]_mcvars PROVE TellInv'
  OBVIOUS
<1>1. KnownInv /\ MsgInv /\ TypeOK
  BY DEF TellInv, KnownInv, MsgInv, IInv
<1>2. CASE UNCHANGED mcvars
  <2>1. UNCHANGED vars /\ UNCHANGED <<broken, late>>
    BY <1>2 DEF mcvars
  <2>2. UNCHANGED <<online, held, inbox, outbox, issued, ledger, invalidated>>
    BY <2>1 DEF vars, client, server
  <2>3. MsgInv'
    BY <1>1, <2>1, MsgNext
  <2>4. Known' = Known /\ (IssuedOnce => IssuedOnce')
    BY <2>2 DEF Known, IssuedOnce, In
  <2>5. \A c \in Clients : In(c)' = In(c) /\ Out(c)' = Out(c)
    BY <2>2 DEF In, Out
  <2>6. KnownInv'
    BY <1>1, <2>2, <2>3, <2>4, <2>5 DEF KnownInv
  <2>7. DeadTokensDoomed'
    BY <2>1, <2>2 DEF TellInv, DeadTokensDoomed
  <2> QED
    BY <2>1, <2>2, <2>6, <2>7 DEF TellInv
<1>3. CASE TraceNext
  <2>1. Next /\ broken' = (broken \/ online' # Clients)
        /\ late' = [c \in Clients |-> late[c] \cup TakenLate(c)]
    BY <1>3 DEF TraceNext, Remembered
  <2>2. KnownInv'
    BY <1>1, <2>1, KnownNext
  <2>3. ~broken' => ~broken /\ online = Clients /\ online' = Clients
    BY <2>1 DEF TellInv
  <2>4. ASSUME ~broken', NEW c \in Clients, NEW t \in held'[c] \cap invalidated', t \notin late'[c]
        PROVE  Invalidated(t) \in In(c)'
    <3>1. ~broken /\ online = Clients /\ online' = Clients
      BY <2>3, <2>4
    <3>2. late'[c] = late[c] \cup TakenLate(c)
      BY <2>1
    <3>3. CASE t \notin invalidated
      BY <1>1, <2>1, <2>4, <3>1, <3>3, AllTold
    <3>4. CASE t \in invalidated /\ t \in held[c]
      <4>1. Invalidated(t) \in In(c)
        BY <2>4, <3>1, <3>2, <3>4 DEF TellInv, DeadTokensDoomed, In
      <4> QED
        BY <1>1, <2>1, <2>4, <3>1, <4>1, NoticeStays
    \* A token that was invalidated is known, so that it is not issued now.
    <3>5. CASE t \in invalidated /\ t \notin held[c]
      <4>1. CASE HandleIssued(c) /\ t = Head(inbox[c]).token
        <5>1. Issued(t) \in In(c)
          BY <1>1, <2>1, <4>1, IssuedKnown DEF KnownInv
        <5>2. t \in Known
          BY <1>1, <3>5 DEF KnownInv, TypeOK
        <5> QED
          BY <5>1, <5>2 DEF Known
      <4>2. CASE HandlePropose(c) \/ HandleAccept(c)
        <5>1. First(c, "RELAY")
          BY <4>2 DEF HandlePropose, HandleAccept, FirstTrade
        <5> QED
          BY <2>4, <3>2, <3>5, <5>1 DEF TakenLate, In
      <4> QED
        BY <1>1, <2>1, <2>4, <3>5, <4>1, <4>2, Gains
    <3> QED
      BY <3>3, <3>4, <3>5
  <2>5. DeadTokensDoomed'
    BY <2>4 DEF DeadTokensDoomed, In
  <2> QED
    BY <2>2, <2>3, <2>5 DEF TellInv
<1> QED
  BY <1>2, <1>3

\* Tokens are issued, traded, cast again and again and invalidated, by any number of
\* clients: while connections last, whoever holds a token that was invalidated has
\* the message that says so in its inbox, unless it took the token in a trade after
\* it had handled that message (handle_submit_vote, _on_token_invalidated).
THEOREM HoldersAreTold == TraceSpec => []DeadTokensDoomed
<1>1. TraceInit => TellInv
  <2> SUFFICES ASSUME TraceInit PROVE TellInv
    OBVIOUS
  <2>1. Init /\ MsgInv
    BY MsgInit DEF TraceInit
  <2>2. \A c \in Clients : inbox[c] = <<>> /\ outbox[c] = <<>> /\ held[c] = {}
    BY <2>1 DEF Init
  <2>3. \A c \in Clients : In(c) = {} /\ Out(c) = {} /\ Len(inbox[c]) = 0
    BY <2>2 DEF In, Out, Range
  <2>4. IssuedOnce
    BY <2>3 DEF IssuedOnce
  <2>5. KnownInv
    BY <2>1, <2>2, <2>3, <2>4 DEF KnownInv, Init
  <2> QED
    BY <2>1, <2>2, <2>5 DEF TellInv, DeadTokensDoomed, Init
<1>2. TellInv => DeadTokensDoomed
  BY DEF TellInv
<1> QED
  BY <1>1, <1>2, TellStep, PTL DEF TraceSpec
=============================================================================
