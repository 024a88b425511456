---------------------------- MODULE TokenCustody ----------------------------
(***************************************************************************)
(* What the clients do with bearer tokens: they are issued them, swap them *)
(* with other clients, cast them through an onion of other clients, and    *)
(* drop them when the server invalidates them.                             *)
(*                                                                         *)
(* Everything between two clients passes through the server, which relays  *)
(* blobs without reading them (Blobs).  A client's connection is two       *)
(* queues; the controller handles one message at a time, in order.  One    *)
(* window is open throughout (VoteServer has its life cycle), every client *)
(* knows every other (PeerDirectory has what can go wrong there), and an   *)
(* entry of held_tokens is one copy of a token: the copies of one token    *)
(* are alike, so held is a set.  _pending_votes and _pending_trades are    *)
(* written and never read to decide anything, and are left out.            *)
(***************************************************************************)
EXTENDS Integers, Sequences, SequencesExt, FiniteSets, Blobs

CONSTANTS
    Clients,
    Tokens,
    MaxHops,     \* MAX_ONION_HOPS
    MaxFlight,   \* bounds the messages under way when something is begun
    NoToken

ASSUME CustodyAssumption ==
    /\ IsFiniteSet(Clients) /\ SERVER \notin Clients
    /\ NoToken \notin Tokens /\ MaxHops \in Nat \ {0} /\ MaxFlight \in Nat

VARIABLES
    \* Of each client's controller.
    held,         \* held_tokens
    original,     \* original_token_ids
    spent,        \* spent_tokens
    awaiting,     \* awaiting_reissue
    auto,         \* the auto-trade switch (enabled, auto_accept_trades)
    \* Of the connections.
    online,       \* the clients in the peer directory
    outbox,       \* client -> messages under way to the server
    inbox,        \* client -> messages under way to the client
    \* Of the server.
    issued,       \* tokens issued
    ledger,       \* spend_ledger
    invalidated,  \* invalidated
    pending       \* pending_reissue of the window

client == <<held, original, spent, awaiting, auto>>
server == <<issued, ledger, invalidated, pending>>
vars == <<client, online, outbox, inbox, server>>

Relay(d, b)     == [type |-> "RELAY", to |-> d, body |-> b]
SubmitVote(t)   == [type |-> "SUBMIT_VOTE", token |-> t]
\* The request names a token; copy says whether a signed copy of it is enclosed.
Reissue(t, cp)  == [type |-> "REISSUE_REQUEST", token |-> t, copy |-> cp]
Issued(t)       == [type |-> "TOKEN_ISSUED", token |-> t]
Invalidated(t)  == [type |-> "TOKEN_INVALIDATED", token |-> t]
Response(st, t) == [type |-> "VOTE_RESPONSE", status |-> st, token |-> t]

\* What is in a blob: the vote inside an onion, or a trade message.
Vote(t)             == [type |-> "submit_vote", token |-> t]
Propose(kind, c, t) == [action |-> "PROPOSE", kind |-> kind, from |-> c, token |-> t]
Accept(kind, t)     == [action |-> "ACCEPT", kind |-> kind, token |-> t]

\* verify: nobody but the server signs.
Verifies(t) == t \in issued

TypeOK ==
    /\ held \in [Clients -> SUBSET issued]
    /\ original \in [Clients -> SUBSET issued]
    /\ spent \in [Clients -> SUBSET ledger]
    /\ awaiting \in [Clients -> SUBSET issued]
    /\ auto \in [Clients -> BOOLEAN]
    /\ online \subseteq Clients
    /\ issued \subseteq Tokens
    /\ invalidated \subseteq ledger /\ ledger \subseteq issued
    /\ pending \subseteq Clients

Init ==
    /\ held = [c \in Clients |-> {}]
    /\ original = [c \in Clients |-> {}]
    /\ spent = [c \in Clients |-> {}]
    /\ awaiting = [c \in Clients |-> {}]
    /\ auto \in [Clients -> BOOLEAN]
    /\ online = Clients
    /\ outbox = [c \in Clients |-> <<>>]
    /\ inbox = [c \in Clients |-> <<>>]
    /\ issued = {} /\ ledger = {} /\ invalidated = {} /\ pending = {}

InFlight == FoldSet(LAMBDA c, n : n + Len(outbox[c]) + Len(inbox[c]), 0, Clients)

HasRoom == InFlight < MaxFlight

Send(c, msg) == outbox' = [outbox EXCEPT ![c] = Append(@, msg)]

(***************************************************************************)
(* The user and the auto-trader.                                           *)
(***************************************************************************)
Toggle(c) ==
    /\ auto' = [auto EXCEPT ![c] = ~@]
    /\ UNCHANGED <<held, original, spent, awaiting, online, outbox, inbox, server>>

\* Mutant: the client's own key is not left out.
PathsWithOwn(c) ==
    LET n == IF Cardinality(Clients) < MaxHops THEN Cardinality(Clients) ELSE MaxHops
    IN  {p \in [1..n -> Clients] : IsInjective(p)}

\* pick_path: as many of the other clients as there are, at most MaxHops.
Paths(c) ==
    LET peers == Clients \ {c}
        n == IF Cardinality(peers) < MaxHops THEN Cardinality(peers) ELSE MaxHops
    IN  {p \in [1..n -> peers] : IsInjective(p)}

\* Mutant: the vote is taken for cast before anything is answered.
CastVoteMarkingSpent(c, t, path) ==
    /\ HasRoom
    /\ c \in online /\ t \in held[c] /\ path # <<>>
    /\ Send(c, Relay(Head(path), BuildOnion(Vote(t), path)))
    /\ spent' = [spent EXCEPT ![c] = @ \cup {t}]
    /\ UNCHANGED <<held, original, awaiting, auto, online, inbox, server>>

\* cast_vote.  The token stays held until an answer says what became of it.
CastVote(c, t, path) ==
    /\ HasRoom
    /\ c \in online /\ t \in held[c] /\ path # <<>>
    /\ Send(c, Relay(Head(path), BuildOnion(Vote(t), path)))
    /\ UNCHANGED <<client, online, inbox, server>>

\* Mutant: the offered token is dropped when it is offered.
OfferRealAndDrop(c, d, t) ==
    /\ HasRoom
    /\ c \in online /\ t \in held[c]
    /\ Send(c, Relay(d, Seal(d, Propose("REAL", c, t))))
    /\ held' = [held EXCEPT ![c] = @ \ {t}]
    /\ UNCHANGED <<original, spent, awaiting, auto, online, inbox, server>>

\* offer_trade; the offered token stays held.
OfferReal(c, d, t) ==
    /\ HasRoom
    /\ c \in online /\ t \in held[c]
    /\ Send(c, Relay(d, Seal(d, Propose("REAL", c, t))))
    /\ UNCHANGED <<client, online, inbox, server>>

OfferChaff(c, d) ==
    /\ HasRoom
    /\ c \in online
    /\ Send(c, Relay(d, Seal(d, Propose("CHAFF", c, NoToken))))
    /\ UNCHANGED <<client, online, inbox, server>>

HasAnonymized(c) == held[c] # {} /\ ~(held[c] \subseteq original[c])

\* Of the tokens s: the client's originals if it has any there, else all of s.
Preferred(c, s) == IF s \cap original[c] # {} THEN s \cap original[c] ELSE s

\* AutoTrader.tick and _propose_one.
AutoReal(c, d) ==
    /\ auto[c] /\ ~HasAnonymized(c) /\ d # c
    /\ \E t \in Preferred(c, held[c]) : OfferReal(c, d, t)

AutoChaff(c, d) ==
    /\ auto[c] /\ ~HasAnonymized(c) /\ d # c
    /\ OfferChaff(c, d)

(***************************************************************************)
(* The controller's handlers: each takes the first message of its inbox.   *)
(***************************************************************************)
First(c, type) == inbox[c] # <<>> /\ Head(inbox[c]).type = type

Taken(c) == inbox' = [inbox EXCEPT ![c] = Tail(@)]

\* A relay of a layer, and one of a trade message.  No client relays a blob that
\* its addressee cannot open; it would be dropped.
FirstLayer(c) == First(c, "RELAY") /\ Peels(c, Head(inbox[c]).body)
FirstTrade(c, action) ==
    /\ First(c, "RELAY") /\ OpensTrade(c, Head(inbox[c]).body)
    /\ Plain(Head(inbox[c]).body).action = action

\* A trade message with a real token is ignored unless the token verifies.
Genuine(b) == b.kind = "REAL" => Verifies(b.token)

\* _on_token_issued.
HandleIssued(c) ==
    /\ First(c, "TOKEN_ISSUED")
    /\ LET t == Head(inbox[c]).token IN
       /\ Verifies(t)
       /\ held' = [held EXCEPT ![c] = @ \cup {t}]
       /\ original' = [original EXCEPT ![c] = @ \cup {t}]
       /\ awaiting' = [awaiting EXCEPT ![c] = @ \ {t}]
    /\ Taken(c)
    /\ UNCHANGED <<spent, auto, online, outbox, server>>

\* _on_relay for an onion: the last hop submits, the others pass on what is left.
HandleOnion(c) ==
    /\ FirstLayer(c)
    /\ LET layer == Plain(Head(inbox[c]).body) IN
       IF IsExit(layer)
       THEN Send(c, SubmitVote(layer.blob.token))
       ELSE Send(c, Relay(layer.next, layer.blob))
    /\ Taken(c)
    /\ UNCHANGED <<client, online, server>>

\* Mutant: an anonymized client gives nothing in return.
CounterUnlessAnonymized(c, s, t) ==
    IF s \subseteq original[c] THEN Preferred(c, s \ {t}) ELSE {}

\* _pick_counter_token of a client that holds s, the token t excluded.
Counter(c, s, t) == Preferred(c, s \ {t})

\* _handle_propose.  In manual mode the offer is only shown.  Otherwise the
\* offered token is adopted and a counter token returned for it, if there is
\* one; a real counter token is dropped.  A chaff round takes nothing and drops
\* nothing, but its answer carries a counter token all the same.
HandlePropose(c) ==
    /\ FirstTrade(c, "PROPOSE")
    /\ LET b == Plain(Head(inbox[c]).body)
           adopted == IF b.kind = "REAL" THEN held[c] \cup {b.token} ELSE held[c]
           counters == Counter(c, adopted, b.token)
       IN  IF ~auto[c] \/ ~Genuine(b)
           THEN UNCHANGED <<held, outbox>>
           ELSE \/ /\ counters = {}
                   /\ held' = [held EXCEPT ![c] = adopted]
                   /\ IF b.kind = "REAL"
                      THEN UNCHANGED outbox
                      ELSE Send(c, Relay(b.from, Seal(b.from, Accept(b.kind, NoToken))))
                \/ \E t \in counters :
                   /\ Send(c, Relay(b.from, Seal(b.from, Accept(b.kind, t))))
                   /\ held' = [held EXCEPT ![c] = IF b.kind = "REAL" THEN adopted \ {t} ELSE @]
    /\ Taken(c)
    /\ UNCHANGED <<original, spent, awaiting, auto, online, server>>

\* _handle_accept, whatever the switch says and whatever was offered.
HandleAccept(c) ==
    /\ FirstTrade(c, "ACCEPT")
    /\ LET b == Plain(Head(inbox[c]).body) IN
       held' = [held EXCEPT ![c] = IF b.kind = "REAL" /\ Genuine(b) THEN @ \cup {b.token} ELSE @]
    /\ Taken(c)
    /\ UNCHANGED <<original, spent, awaiting, auto, online, outbox, server>>

\* Mutant: a rejection is taken for an acceptance.
HandleResponseBlindly(c) ==
    /\ First(c, "VOTE_RESPONSE")
    /\ LET msg == Head(inbox[c]) IN
       /\ held' = [held EXCEPT ![c] = @ \ {msg.token}]
       /\ spent' = [spent EXCEPT ![c] = @ \cup {msg.token}]
    /\ Taken(c)
    /\ UNCHANGED <<original, awaiting, auto, online, outbox, server>>

\* _on_vote_response, of the client that passed the vote on to the server.
HandleResponse(c) ==
    /\ First(c, "VOTE_RESPONSE")
    /\ LET msg == Head(inbox[c]) IN
       /\ held' = [held EXCEPT ![c] = @ \ {msg.token}]
       /\ IF msg.status = "ACCEPTED"
          THEN /\ spent' = [spent EXCEPT ![c] = @ \cup {msg.token}]
               /\ UNCHANGED <<awaiting, outbox>>
          ELSE /\ awaiting' = [awaiting EXCEPT ![c] = @ \cup {msg.token}]
               /\ Send(c, Reissue(msg.token, FALSE))
               /\ UNCHANGED spent
    /\ Taken(c)
    /\ UNCHANGED <<original, auto, online, server>>

\* _on_token_invalidated.
HandleInvalidated(c) ==
    /\ First(c, "TOKEN_INVALIDATED")
    /\ LET t == Head(inbox[c]).token IN
       /\ held' = [held EXCEPT ![c] = @ \ {t}]
       /\ spent' = [spent EXCEPT ![c] = @ \ {t}]
       /\ original' = [original EXCEPT ![c] = @ \ {t}]
       /\ IF t \in held[c] \cup spent[c]
          THEN /\ awaiting' = [awaiting EXCEPT ![c] = @ \cup {t}]
               /\ Send(c, Reissue(t, FALSE))
          ELSE UNCHANGED <<awaiting, outbox>>
    /\ Taken(c)
    /\ UNCHANGED <<auto, online, server>>

Handle(c) ==
    \/ HandleIssued(c) \/ HandleOnion(c) \/ HandlePropose(c) \/ HandleAccept(c)
    \/ HandleResponse(c) \/ HandleInvalidated(c)

(***************************************************************************)
(* The server: it takes the first message of an outbox.                    *)
(***************************************************************************)
FirstOut(c, type) == outbox[c] # <<>> /\ Head(outbox[c]).type = type

TakenOut(c) == outbox' = [outbox EXCEPT ![c] = Tail(@)]

\* The boxes after msgs are written to those of the clients ds that are there.
Deliver(box, ds, msgs) ==
    [d \in Clients |-> IF d \in ds \cap online THEN box[d] \o msgs ELSE box[d]]

\* issue_token and the TOKEN_ISSUED that carries it; VoteServer says when.
IssueToken(c, t) ==
    /\ HasRoom
    /\ c \in online /\ t \notin issued
    /\ issued' = issued \cup {t}
    /\ inbox' = Deliver(inbox, {c}, <<Issued(t)>>)
    /\ UNCHANGED <<client, online, outbox, ledger, invalidated, pending>>

\* handle_relay.  To a client that is not there nothing is sent; the ERROR its
\* sender gets changes nothing.
ServeRelay(c) ==
    /\ FirstOut(c, "RELAY")
    /\ inbox' = Deliver(inbox, {Head(outbox[c]).to}, <<Relay(Head(outbox[c]).to, Head(outbox[c]).body)>>)
    /\ TakenOut(c)
    /\ UNCHANGED <<client, online, server>>

\* Mutant: the invalidation is sent to the connection of the vote alone.
AnswerDoubleSpend(c, t) ==
    Deliver(inbox, {c}, <<Response("REJECTED", t), Invalidated(t)>>)

\* A double spend is answered and its broadcast message sent to the connection
\* of the vote, and then to everybody.
Cascade(c, t) ==
    Deliver(Deliver(inbox, {c}, <<Response("REJECTED", t), Invalidated(t)>>),
            Clients, <<Invalidated(t)>>)

\* handle_submit_vote of a token of the open window.
ServeVote(c) ==
    /\ FirstOut(c, "SUBMIT_VOTE") /\ Verifies(Head(outbox[c]).token)
    /\ LET t == Head(outbox[c]).token IN
       \/ /\ t \in invalidated
          /\ inbox' = Deliver(inbox, {c}, <<Response("REJECTED", t)>>)
          /\ UNCHANGED <<ledger, invalidated>>
       \/ /\ t \in ledger \ invalidated
          /\ invalidated' = invalidated \cup {t}
          /\ inbox' = Cascade(c, t)
          /\ UNCHANGED ledger
       \/ /\ t \notin ledger
          /\ ledger' = ledger \cup {t}
          /\ inbox' = Deliver(inbox, {c}, <<Response("ACCEPTED", t)>>)
          /\ UNCHANGED invalidated
    /\ TakenOut(c)
    /\ UNCHANGED <<client, online, issued, pending>>

\* handle_reissue_request: without a signed copy of the token it is an ERROR.
ServeReissue(c) ==
    /\ FirstOut(c, "REISSUE_REQUEST")
    /\ LET msg == Head(outbox[c]) IN
       pending' = IF msg.copy /\ msg.token \in invalidated THEN pending \cup {c} ELSE pending
    /\ TakenOut(c)
    /\ UNCHANGED <<client, online, inbox, issued, ledger, invalidated>>

Serve(c) == ServeRelay(c) \/ ServeVote(c) \/ ServeReissue(c)

(***************************************************************************)
(* A connection is lost, and with it the ends of both its queues; later    *)
(* the client logs in again with the controller it had.                    *)
(***************************************************************************)
GoOffline(c) ==
    /\ c \in online
    /\ online' = online \ {c}
    /\ \E n \in 0..Len(outbox[c]) : outbox' = [outbox EXCEPT ![c] = SubSeq(@, 1, n)]
    /\ \E n \in 0..Len(inbox[c]) : inbox' = [inbox EXCEPT ![c] = SubSeq(@, 1, n)]
    /\ UNCHANGED <<client, server>>

ComeBack(c) ==
    /\ c \in Clients \ online
    /\ online' = online \cup {c}
    /\ UNCHANGED <<client, outbox, inbox, server>>

IssueStep == \E c \in Clients, t \in Tokens : IssueToken(c, t)

TradeStep ==
    \/ \E c \in Clients : Toggle(c)
    \/ \E c, d \in Clients : AutoReal(c, d) \/ AutoChaff(c, d) \/ OfferChaff(c, d)
    \/ \E c, d \in Clients, t \in Tokens : OfferReal(c, d, t)

VoteStep == \E c \in Clients, t \in Tokens : \E p \in Paths(c) : CastVote(c, t, p)

MessageStep == \E c \in Clients : Handle(c) \/ Serve(c)

ConnectionStep == \E c \in Clients : GoOffline(c) \/ ComeBack(c)

Next == IssueStep \/ TradeStep \/ VoteStep \/ MessageStep \/ ConnectionStep

Spec == Init /\ [][Next]_vars

\* Connections deliver and both ends handle what arrives.  The auto-trader draws
\* its peer, here one of ds, and the kind of its offer at random at every
\* interval, so an offer that is possible again and again is made.
Fairness(ds) ==
    /\ \A c \in Clients : WF_vars(Handle(c)) /\ WF_vars(Serve(c))
    /\ \A c, d \in ds : SF_vars(AutoReal(c, d))
-----------------------------------------------------------------------------
(***************************************************************************)
(* Safety.                                                                 *)
(***************************************************************************)
Alive == issued \ ledger

\* A real token under way to a client that will adopt it.
Arriving(t) ==
    \E c \in Clients :
        \/ Issued(t) \in Range(inbox[c])
        \/ \E msg \in Range(inbox[c]) \cup Range(outbox[c]) :
              msg.type = "RELAY" /\ msg.body = Seal(msg.to, Accept("REAL", t))

\* However often a token is cast and through whichever exits, at most one client
\* comes to believe that it spent it.
SpentOnce ==
    \A c, d \in Clients : \A t \in Tokens :
        /\ t \in spent[c] \/ Response("ACCEPTED", t) \in Range(inbox[c])
        /\ t \in spent[d] \/ Response("ACCEPTED", t) \in Range(inbox[d])
        => c = d

(***************************************************************************)
(* Liveness.                                                               *)
(***************************************************************************)
OnionUnderWay(t) ==
    \E c \in Clients : \E msg \in Range(inbox[c]) \cup Range(outbox[c]) :
        /\ msg.type = "RELAY"
        /\ \E d \in Clients : \E p \in Paths(d) : \E i \in DOMAIN p :
              msg.to = p[i] /\ msg.body = BuildOnion(Vote(t), SubSeq(p, i, Len(p)))

\* A vote that has been cast is counted, whichever hops it takes.
VotesArrive == \A t \in Tokens : OnionUnderWay(t) ~> t \in ledger

(***************************************************************************)
(* What the repository says and the code does not do.                      *)
(***************************************************************************)
Quiet == \A c \in Clients : inbox[c] = <<>> /\ outbox[c] = <<>>

\* README.md:190: the holders of an invalidated token are given a fresh one.
ReissueQueued == Quiet => \A c \in Clients : awaiting[c] # {} => c \in pending
=============================================================================
