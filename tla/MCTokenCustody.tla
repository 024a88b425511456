--------------------------- MODULE MCTokenCustody ---------------------------
(* Small instances of TokenCustody for TLC. *)
EXTENDS TokenCustody, TLC

\* It takes two to trade.
ASSUME TwoClients == \E s \in SUBSET Clients : Cardinality(s) = 2

\* broken: whether a connection has been lost in this behaviour.
\* late: client -> the tokens that it took in a trade after it had handled the
\* invalidation of that token.
\* world: what a behaviour is about.
VARIABLES broken, late, world

mcvars == <<vars, broken, late, world>>

TakenLate(c) ==
    {t \in invalidated :
        First(c, "RELAY") /\ t \in held'[c] \ held[c] /\ Invalidated(t) \notin Range(inbox'[c])}

Remembered ==
    /\ UNCHANGED world
    /\ broken' = (broken \/ online' # Clients)
    /\ late' = [c \in Clients |-> late[c] \cup TakenLate(c)]

\* Every behaviour, with its history.
TraceInit == Init /\ broken = FALSE /\ late = [c \in Clients |-> {}]
TraceNext == Next /\ Remembered
TraceSpec == TraceInit /\ [][TraceNext]_mcvars

(***************************************************************************)
(* Safety: everything at once, in one of three worlds.  In "two" there may *)
(* be two tokens, and somebody auto-trades, always; in "lost" there is one *)
(* token and connections break; in "self" there is one, and a client may   *)
(* trade with itself when nothing else is under way.  In the last two the  *)
(* auto-trade switches change at any time.                                 *)
(***************************************************************************)
SafeOffer ==
    \E c, d \in Clients :
        /\ c = d => world = "self" /\ InFlight = 0
        /\ OfferChaff(c, d) \/ \E t \in Tokens : OfferReal(c, d, t)

SafeNext ==
    /\ \/ IssueStep \/ VoteStep \/ MessageStep \/ SafeOffer
       \/ world = "lost" /\ ConnectionStep
       \/ world # "two" /\ \E c \in Clients : Toggle(c)
       \/ \E c, d \in Clients : AutoReal(c, d) \/ AutoChaff(c, d)
    /\ Remembered
    /\ world # "two" => Cardinality(issued') <= 1

SafeInit ==
    /\ TraceInit
    /\ \/ world \in {"lost", "self"}
       \/ world = "two" /\ \E c \in Clients : auto[c]
SafeSpec == SafeInit /\ [][SafeNext]_mcvars

\* While connections last, a token that can still be spent is held by somebody
\* or on its way to somebody: no trade, vote or answer loses it, whoever has
\* switched auto-trading off in the meantime.
TokenNotLost ==
    ~broken => \A t \in Alive : (\E c \in Clients : t \in held[c]) \/ Arriving(t)

\* While connections last, a client that holds an invalidated token is about to
\* be told, unless it took the token in a trade after it was told.
DeadTokensDoomed ==
    ~broken => \A c \in Clients : \A t \in (held[c] \cap invalidated) \ late[c] :
                  Invalidated(t) \in Range(inbox[c])

(***************************************************************************)
(* Liveness, over connections that last, in one of two worlds.  In "votes" *)
(* all clients cast one token, again and again, two casts at a time; in    *)
(* "trades" two of them auto-trade, and nobody votes.                      *)
(***************************************************************************)
LiveInit ==
    /\ TraceInit
    /\ \/ world = "votes" /\ \A c \in Clients : ~auto[c]
       \/ world = "trades" /\ \A c \in Clients : auto[c]

Traders == CHOOSE s \in SUBSET Clients : Cardinality(s) = 2

LiveNext ==
    /\ UNCHANGED <<broken, late, world>>
    /\ \/ MessageStep
       \/ world = "votes" /\ issued = {} /\ IssueStep
       \/ world = "votes" /\ InFlight < 2 /\ VoteStep
       \/ world = "trades" /\ \E c \in Traders, t \in Tokens : IssueToken(c, t)
       \/ world = "trades" /\ \E c, d \in Traders : AutoReal(c, d) \/ AutoChaff(c, d)

\* In "votes" the auto-trader is off, so that its part of Fairness asks nothing.
LiveSpec == LiveInit /\ [][LiveNext]_mcvars /\ Fairness(Traders)

\* What makes a vote anonymous: every hop reads its own layer and nothing below,
\* and nobody is handed on what it handed on itself, the voter included.
OneLayerEach ==
    \A c \in Clients : \A msg \in Range(inbox[c]) \cup Range(outbox[c]) :
        msg.type = "RELAY" /\ Peels(msg.to, msg.body) =>
            /\ msg \in Range(outbox[c]) => msg.to # c
            /\ IsExit(Plain(msg.body)) \/ ~Opens(msg.to, Plain(msg.body).blob)

\* Auto-traders with a token each all come to hold a token of somebody else.
Anonymizes ==
    (\A c \in Traders : original[c] # {}) ~> (\A c \in Traders : HasAnonymized(c))

Symmetry == Permutations(Clients) \cup Permutations(Tokens)
=============================================================================
