# Votenet: specification and verification

Votenet is an anonymous voting demo: an asyncio server keeps polls, voting
windows, bearer tokens and votes in memory; tkinter clients log in, are issued
signed tokens, swap tokens with each other, and cast votes through an onion of
other clients, all relayed by the server. This directory holds TLA+ modules of
that program, TLC configurations that check them on small instances, and proofs
checked by TLAPS. Paths below are relative to the repository (`src/`), and
`handlers.py`, `store.py`, `server.py` are those of `src/votenet/server/`.

Contents: [the system](#the-system), [modules](#modules-and-their-code),
[runs](#what-the-runs-check), [bounds](#bounds-and-environments),
[fairness](#fairness), [proofs](#proofs), [findings](#findings),
[limits](#not-modelled), [plan](#plan).

## The system

| Component | State | Operations | Talks to |
|---|---|---|---|
| Vote server core: `handlers.py`, `store.py`, `server.py` | polls, windows (round, interested, voted_ok, pending_reissue, issued tokens), issuance and spend ledgers, invalidated ids, votes per token | create, release, close poll; submit vote; reissue request; the window loop that advances sub-rounds and closes windows | clients: replies, targeted TOKEN_ISSUED, broadcasts |
| Connections and directory: `server.py`, `store.py`, `handle_login`, `handle_list_peers` | connections, `peer_directory` (key to connection) | accept, login, list peers, relay, cleanup after a read loop ends | announces and departures to everybody listed |
| Client controller: `client/controller.py` | `online_peers`, held, original, spent tokens, awaiting_reissue, poll and result caches | one handler per message type, on the GUI thread | server through the network thread; other clients through relays |
| Client actions: `client/api.py`, `client/autotrader.py` | the auto-trade switch and its timer | login, cast vote, offer trade, create and release polls; a tick every 50 ms | the network layer |
| Onion and trade blobs: `onion.py`, `trade.py` | none | build and peel layers, seal and open trade messages | carried by RELAY |
| Client network layer: `client/net.py` | `_pending` futures, write queue, reader and writer | blocking calls from the GUI thread, writes, read loop | the socket |
| Framing: `messages.py` | the buffer of each read loop | encode, `decode_frames` | both read loops |
| Screens: `client/ui/` | the view shown, the chosen option | open a poll, choose, vote, the administrator's buttons; a refresh after every message | the controller's caches, `api.py` |
| Tokens, crypto, config, entry points | none | | |

What makes it hard, and what each part has to guarantee:

* **Server core.** One event loop: a handler without an await is atomic, but
  the window loop awaits between issuing the tokens of a sub-round and clearing
  the reissue requests, and handlers run in between. Votes, double spends,
  reissue requests, closing by the loop and closing by an administrator come in
  any order. Needed: the ledgers agree; no vote is lost, changed or added after
  the window closed; published totals are the tally; tokens go to the people
  turnout counts, at most one a sub-round; sub-rounds keep their time; every
  window closes.
* **Directory.** A connection may be broken long before the server notices, and
  the same key may be back on another connection by then; announcements and
  departures are written to one recipient after the other and overlap. Needed:
  entries are live; a late cleanup takes nothing from a newer login; what clients
  know comes to be what the server knows.
* **Custody.** A token is a bearer instrument copied over one-way relays with no
  acknowledgement, while it may be spent, double spent and invalidated. Needed:
  no spendable token disappears; one accepted vote a token; holders of a dead
  token learn of it; votes arrive; auto-traders anonymize.
* **Polls at the clients.** A broadcast is one write a recipient and each may
  wait for it to read, so the broadcasts of the window loop and of administrators
  overlap; lists are answers of their own. Every client keeps three caches that
  each message overwrites a part of. Needed: results shown are final and the
  tally; what is known of a poll does not turn back; a window shown as open is
  open or about to be corrected; whoever stays comes to see the results; a vote
  on record is one that its voter could see chosen in the view of that poll.
* **Network layer.** Two threads, nested timeouts, late replies, half-closed
  sockets, logins given up half-way. Needed: replies reach the call they answer,
  the reader survives a late one, the GUI is never stuck, client and server
  agree who is signed in, a client gets back in.
* **Framing.** Bytes are cut anywhere. Needed: the cut does not show.

## Modules and their code

| Module | Models | Role |
|---|---|---|
| `Election` | what the server promises of a poll | abstract specification |
| `VoteServer` | `handlers.py`, `store.py`, the window loop of `server.py` | implements `Election` |
| `PeerDirectory` | connections, login, directory, broadcasts, `online_peers` | |
| `TokenCustody` | controller, auto-trader, votes and trades of all clients, with the server as relay and ledger | extends `Blobs` |
| `Blobs` | layers of `onion.py`, sealed messages of `trade.py`, what of `crypto.py` they use | terms, no state |
| `PollScreens` | administrators' requests, the window's end, `_dispatch` and `_broadcast` write by write, the controller's poll caches, the poll view | |
| `ClientNet` | `client/net.py` and the blocking calls of `api.py` | |
| `FrameCodec` | `decode_frames` in the two read loops | |
| `*Proofs` | theorems of `Election`, `VoteServer`, `PeerDirectory`, `TokenCustody`, `ClientNet`, `PollScreens`, `FrameCodec` | TLAPS |
| `SeqFolds` | folds over sequences, for any operator: the lemmas that `PeerDirectoryProofs` and `TokenCustodyProofs` share | TLAPS |
| `MC*` | instances, environments and symmetry | TLC |

Definitions keep the names of the code where they can: an action is the handler
it stands for (`SubmitVote` is `handle_submit_vote`, `ReleasePoll` is
`handle_release_poll`, `HandlePropose` is `_handle_propose`), a variable the
field (`voted_ok`, `pending_reissue`, `votes_by_token`, `held` for
`held_tokens`). A definition whose comment begins with *Mutant* is a plausible
bug in the definition after it. It is used by no specification; it records what
the properties are able to notice.

**VoteServer.** `Polls` names windows too, because a poll is released at most
once. A signature is modelled by its effect: a token verifies for the window it
was issued for. `Verdict` is the order of checks in `handle_submit_vote`;
`AcceptVote`, `DoubleSpend` and `RejectVote` are its outcomes. `CloseAndPublish`
is `_close_window_and_publish`, used by `ClosePoll` (administrator) and
`LoopClose`. The sweep of the loop over one window is `LoopClose` or
`LoopAdvance`; `FinishSending` is what follows the awaits of the sends
(`server.py:195-200`). `age` counts time since the window opened. `link` is all
this module keeps of connections: no session, a session, a directory entry.

**PeerDirectory.** `socket` is "broken" between the loss of a connection and the
server's `_cleanup`. A login and a departure change the directory at once and
leave their sends to the `task` of their connection: `Broadcast` is the beginning
of the loop of `_broadcast`, which takes its recipients from the directory, and
`Write` is one send of it, to any recipient that has fewer than `MaxInbox`
messages unread. `_dispatch` and `_cleanup` of different connections overlap; the
next message of a connection, and its end, are noticed when its task is done. A
task may take as long as it likes anyway, so `MaxInbox` excludes no order in which
clients are told. `view` is `online_peers`, `inbox` what is under way or
read and not yet handled; `Connect` carries the unhandled rest over, since both
connections of a client feed the same queue. `LIST_PEERS` is asked once a login
has been answered; `LoginComesFirst` of `ClientNet` is why.

**TokenCustody.** Messages between two clients take two steps, out of an
`outbox` at the server and out of an `inbox` at the client. A relay's body is a
term of `Blobs`: what is encrypted is a pair of a key and a plain text, a key the
unordered pair that both sides derive, and a client finds out what a blob is by
trying, as `_on_relay` does. One window is open throughout and everybody knows everybody, as `VoteServer` and
`PeerDirectory` say what happens otherwise.

**PollScreens.** `task` holds the sends that an administrator's dispatch, or the
window loop, has left; `Step` is one of them to one recipient, and waits when
that has `MaxInbox` messages unread. `poll` has the flags a list tells of, and
"open", which is the server's own. `cache`, `windows` and `results` are the
controller's `polls`, `open_windows` and `results`; `Status` is what the
dashboard and the poll view make of them. `Refresh` is `PollView.refresh`, which
`_pump` calls after every message. `ballot` is the set of options a client has
submitted in a poll: the token stays held after a vote, so the button casts again,
and any one of the submissions may be the first that reaches the server.

**ClientNet.** `ready` is the FIFO of the asyncio loop, filled by both threads:
a coroutine to start, a message to write. `coro` is the state of each request's
coroutine: "cancelled" is the moment between the cancellation of its future and
the removal of its entry from `_pending`. `loop` says for which connection each
read loop waits, for a loop reads whatever `_reader` is at the time. The server
is external here but for login and answering.

**FrameCodec.** `buf` is the read loop's buffer and `remaining` the one inside
the generator; the first is given the second only together with a message.

## What the runs check

Ten runs pass:

| Run | Config | Properties and what they exclude |
|---|---|---|
| `server_one_poll` | `MCVoteServer` | `TypeOK`, `PublishedIsFinal`, `RoundsPaced`, `OneTokenPerRound`, `TurnoutSound`, `VotesPermanent` |
| `server_two_polls` | `MCVoteServerTwoPolls` | `LedgersAgree`, `IssuedToInterested`, `ClosedTogether`, `ImplementsElection` with two windows at once |
| `server_fair` | `MCVoteServerFair` | `WindowsClose`, `ImplementsFairElection` |
| `peer_directory` | `MCPeerDirectory` | `TypeOK`, `EntriesLive`, `EntryKept`; `ViewsCoverDirectory` and `FirstViewsExact` but for crossed keys |
| `custody` | `MCTokenCustody` | `TypeOK`, `SpentOnce`, with connections that break and lose the ends of their queues; `TokenNotLost` until one does, and `DeadTokensDoomed` but for what was taken late |
| `custody_live` | `MCTokenCustodyLive` | `OneLayerEach` and `VotesArrive` with three clients that vote; `Anonymizes` with two that auto-trade |
| `poll_screens` | `MCPollScreens` | `TypeOK`, `ResultsTrue`, `FlagsKept`; `OpenDoomed` and `EveryoneLearns` but for what a client missed; `VotesPicked` |
| `requests` | `MCClientNet` | `TypeOK`, `ToldTruth`, `PendingAwaited`, `NotDeaf`, abandoned logins included; `SameUser`, `LoginComesFirst` until one overtakes |
| `requests_live` | `MCClientNetLive` | `CallsReturn`, and `LoginSucceeds` for a user who tries again |
| `frame_codec` | `MCFrameCodec` | `ChunkingInvisible`, `AllDispatched` |

Two more configurations each check one statement that the repository makes
and the code does not keep; see [Findings](#findings).

Some properties hold only with an exception, and the MC module has a variable
that remembers when it applies: `crossed`, the keys for which an older connection
had still something to announce when a newer one was listed, until the key logs in
again (`MCPeerDirectory`); `broken`, that a connection was ever lost, and
`late`, the tokens that a client took in a trade after it had handled their
invalidation (`MCTokenCustody`); `overtaken`, that a login which the GUI had given up while
it was connecting has connected since (`MCClientNet`); `missed`, the polls that
were released or closed while a client was away (`MCPollScreens`, where `picked`
also keeps what a user ever picked in the view of a poll, for `VotesPicked`). None
of them restricts a step except where [Bounds](#bounds-and-environments) says so:
`TraceSpec` in these modules, `MCSpec` in `MCPeerDirectory`, is every behaviour
with its history, the specification of a run is part of it, and the theorems are
about `TraceSpec` and `MCSpec`.

`ImplementsElection` is a refinement: with `phase` computed from `released` and
`pollClosed`, `ballots` being `votes_by_token` and `result` the published
totals, every step of the server is a step of `Election` or a stutter, and under
the loop's fairness every open poll is closed. A poll that was closed in draft
and then released stays "closed" under the mapping: its window gives out tokens
that can never vote (`ClosedTogether`).

## Bounds and environments

* **VoteServer**: two voters and one administrator, one or two polls, three
  tokens (four where a run needs two per voter), two options and one string that
  is none, `RoundTicks` 1, `MaxRounds` 2 or 3, `Grace` 1. Two voters are needed
  for one to ask for a reissue while the other has not voted, two polls for leaks
  between windows; three rounds give a first, a middle and a last. Only
  comparisons of `age` with the deadlines matter, so the 20 seconds and eight
  rounds of `config.py` change nothing but the count; `age` stops at the
  lifetime for that reason. The theorems hold for all values.
  `Tokens` bounds how many tokens are ever issued: an advance with too few fresh
  tokens cannot be taken. In the fair run three tokens are enough for two voters
  and at most one advance.
* **Environments of VoteServer**: `CalmNext` keeps every session listed in the
  directory, `SteadyNext` lets nobody who logged in leave. They keep the fair
  run and the run on two polls small; the run on one poll is without them.
* **PeerDirectory**: two clients with a key each, two names, three connections,
  and a write that waits when one message is unread. Three connections give one
  client an old one that is reaped late, a new one, and an observer: two broadcasts
  about the first client and one about the other overlap. In `SmallSpec` a
  connection logs in and asks for the list once, only one of the clients connects
  again, and one connection is not lost; the theorems are about `MCSpec`, without
  these bounds. Two clients of one key differ from a client that is back before it
  was reaped only in that both connections are open; the theorems on the directory
  cover any keys.
* **TokenCustody**: two clients. In the safety run a behaviour is in one of three
  worlds (`SafeNext`): in "two" two tokens are traded and cast, somebody
  auto-trades throughout, and connections last; in "lost" there is one token and
  connections break and come back; in "self" there is one, and a client may trade
  with itself while nothing else is under way. In the last two the switches
  change at any time, so a trade may be answered by a client that has stopped
  accepting since it was offered. Two tokens are the fewest that can cross.
  `MaxFlight` bounds the messages under way when something new is begun; answers
  may exceed it. In the live run a behaviour is in
  one of two worlds. In "votes" three clients, so that an onion has two hops,
  the fewest the code aims for, cast one token again and again, begun when fewer
  than two messages are under way. In "trades" two clients auto-trade two tokens;
  three crossing messages are enough for both offers and an answer. In that world
  the third client is absent: it is neither given a token nor offered one.
* **PollScreens**: an administrator, a voter, one poll with two options, and
  `MaxInbox` 2. One poll has two overlapping tasks already: the loop closes the
  window while the administrator's release is still being sent, and the
  administrator closes the poll once more while the loop is still telling of it
  (`MCNext` allows a second closing then). Two messages unread make the next one
  wait. In the world "vote" the voter looks, chooses and votes on a connection
  that lasts; in "roam" it comes and goes and does not vote, since a vote needs
  nothing of what was missed. A voter who has voted in a poll stays in its view, and
  may press the button again. The administrator does not ask for lists. The
  theorems on this module cover any number of clients, polls and options.
* **ClientNet**: two requests at a time, for one may be abandoned while another
  is made; ids are used again once nothing refers to them, so the number of
  requests is not bounded; two connections, three where the server closes them.
  `FewPosts` keeps one unawaited message under way. In the safety run two users
  take turns in behaviours without overtaking, one user signs in in the others
  (`SafeNext`). In the live run a
  behaviour is patient or not from the start: the impatient one has all steps on
  one connection, the patient one a server that answers what reaches it, a
  network that does not break, and at least one connection that is not closed.
* **FrameCodec**: every stream of up to six bytes over two letters, a blank, a
  newline and a byte that does not parse, read in chunks of up to three.

Symmetry is used where no liveness property is checked, over sets whose members
no definition names. `CHECK_DEADLOCK FALSE` is set where the system may stop:
nobody has to connect, trade or call, and a stream ends. The server's own runs
keep the deadlock check.

## Fairness

* `VoteServer`: the clock runs (`Tick`); the loop sweeps all open windows every
  second (`LoopClose`, `LoopAdvance`); a send returns because a client's read
  loop always reads (`FinishSending`). Nothing is assumed of users.
* `TokenCustody`: connections deliver and both ends handle what arrives (weak
  fairness of `Serve` and `Handle`). `AutoReal` has strong fairness for each
  pair that is there: the auto-trader draws its peer and the kind of its offer at random at
  every interval, so an offer possible again and again is made.
* `ClientNet`: the loop runs what is ready, timers fire, a woken GUI thread
  runs; nothing is assumed of connecting or of the server. A patient behaviour
  assumes more: connecting succeeds, the server answers what reaches it, the user
  tries again, and a write to a connection that the peer has given up is refused
  sooner or later (strong fairness of `WriteRefused`).
* `PollScreens`: a window comes to be due (`LoopClose`), and a client reads what
  is written to it and its GUI handles it (`Handle`). `Step` has strong fairness:
  when a client has read, every task that waits in `drain` for it is woken,
  however fast other messages fill the buffer again, so a write that can go on
  again and again goes on. Nothing is assumed of users or of who is connected.
* `FrameCodec`: bytes that were sent arrive and the loop runs.
* `Election`: an open poll is closed; a draft may stay one.

## Proofs

Proved with TLAPS for every value of the constants that satisfies the named
assumptions: `NumbersAssumption` (rounds and ticks are positive),
`FinitenessAssumption` (a set of tokens that is finite, as a dict is), and that
absent values (`NoUser`, `NoPoll`, `NoConn`, `NoToken`, ...) differ from present
ones and bytes of different kinds from each other (`NamesAssumption`,
`ConnectionAssumption`, `ClientAssumption`, `CodecAssumption`). `CustodyAssumption`
and `ScreensAssumption` also say that there are finitely many clients and that the
server and its loop are none of them. `TwoClients`, that there are at least two
clients, matters to TLC's live run only. `Election` is only ever instantiated, so
what its theorems need is their hypothesis `Meaningful`.

Every invariant and action property that a passing run checks is the statement
of a theorem, except `TurnoutSound`. The bounds and worlds of the runs are not in
the theorems: those about history variables are about `TraceSpec` (`MCSpec` of
`MCPeerDirectory`), and `BoundedIsTrace` shows that the behaviours of the runs are
among its behaviours. `MaxFlight` and `MaxInbox` are constants of the modules, and
any number.

* **`VoteServerProofs`**: `IInv` is inductive (`Invariance`), one lemma an
  action. It is the conjunction of `TypeOK`, `LedgersAgree`,
  `IssuedToInterested`, `PublishedIsFinal`, `ClosedTogether`, `RoundsPaced`, and
  none of its parts is inductive alone. That a recorded voter is a user needs to
  know that only issued tokens are spent; that totals are final needs to know
  that a closed poll takes no vote; that a closed poll with an open window has no
  votes needs to know that votes are recorded in released, open polls only.
  `TypeCorrect`, `LedgersAlwaysAgree`, `TokensOfInterested`, `ResultsAreFinal`,
  `ClosingIsConsistent`, `RoundsArePaced` follow; the action property
  `VotesArePermanent` uses it for a single step.
  `TokensPerRound` adds one conjunct to it: the cardinality of the tokens issued
  to one user grows by at most one when the round does, since the tokens of one
  issue go to different users (`IssueTokensFacts`).
  `RefinesElection` maps initial states to initial states and each action to
  `Open`, `Cast`, `Close` or a stutter. `Cast` asks that a token has no ballot in
  any poll: that is `LedgersAgree`.
* **`ElectionProofs`**: `ResultAlwaysTally` and `TokenCountsOnce`, so the server
  inherits both through the refinement, for constants that are `Meaningful`.
* **`PeerDirectoryProofs`**: the inductive invariant is `TypeOK`, that a used
  connection has an owner, and `EntriesLive` (`DirectoryInvariance`); from it
  `DirectoryTypes`, `EntriesAlwaysLive`, and the action property `EntriesKept`.
  What a client will know is the fold of its inbox over its view. `ViewInv`
  (`ViewInvariance`) says of every client that asked for the list and of every key
  that is not crossed that this fold agrees with the directory, or that a task
  still owes the client the message that makes it agree (`Covered`). It is inductive because what tasks have left to
  say of a key that is not crossed is true of the directory (`TasksTrue`): two tasks
  that contradict each other are of two connections of one key, one of them not the
  entry, and that makes the key crossed. `ViewsAlwaysCover` and
  `FirstViewsAlwaysExact` are what it says at the end.
* **`TokenCustodyProofs`** has three inductive invariants, each on top of the one
  before.
  * `IInv`: `SpentOnce` is not inductive, since a second acceptance of a token
    must be excluded, so `IInv` adds that every answer in an inbox is about a token
    in the ledger (`Answered`). Then a token outside the ledger is claimed by
    nobody, and the server accepts no other (`ClaimedStep`). What blobs contain is
    left open: `CustodyTypes` and `OneSpender` hold for whatever a trade message
    carries, because its token is adopted only when it verifies.
  * `MsgInv` says what blobs contain: all that is relayed is a trade message
    sealed to its addressee, or what is left of an onion, addressed to the first
    of the hops that are left and never to its sender. `OnionLayer` is the fact
    about `BuildOnion` that this needs, an instance of `SeqFolds`.
    `HopsReadOneLayer` follows at once. For `TokenNeverLost` (`SafeInv`) one more
    step is needed per message: whatever drops a token either has a successor for
    it in an outbox (`HeldKept`) or the token is in the ledger, and what is on its
    way is adopted (`ComingKept`).
  * `KnownInv`: until the client that a token was issued to has handled the
    announcement, no client holds the token and no message names it (`Known`). It
    needs that every token is announced once (`IssuedOnce`), the positions in the
    queues included (`PlacesKept`). Without it a dead token might be issued to a
    client, which would hold it with no notice to come. `HoldersAreTold` follows
    with `AllTold` (the cascade reaches every client that is there) and
    `NoticeStays`.
* **`ClientNetProofs`**: `RequestTypes`, `PendingAlwaysAwaited`, `NeverDeaf`,
  `ToldTheTruth`. Ids are used again, so that a reply says what was done of *this*
  request has to be derived: the invariant is that there is one copy of a request,
  queued or on its way (`SentOnce`), that it has no verdict before it is served,
  and that replies, finished coroutines and what the GUI was told agree with the
  verdict (`Served`). `FreshFacts` is why a reused id starts clean. `NeverDeaf`
  needs only that read loops are started once the writer is set. `LoginInv` is
  about the order of three queues: what an earlier login, one that was given up,
  has still to start, to write or to be served is in front of the login the GUI
  waits for (`Signing`), so it has had its effect when that one is answered, and no
  login is on its way afterwards (`Signed`). Hence `LoginInvariance`,
  `SameUserAlways` and `LoginAlwaysFirst`.
* **`PollScreensProofs`**: `TypesKept`, `ResultsAlwaysTrue`, `FlagsNeverTurnBack`.
  What is under way to a client is true of the polls now and stays true, since
  flags only grow and a closed poll takes no vote (`UnderWayTrue`, `Growing`); and
  a list under way says no less than the client knows and than the lists before
  it (`ListsInOrder`), which is why overwriting turns nothing back. `DoomInv`
  adds that a client which missed nothing of a closed poll shows its results, has
  them in its inbox, or is among those a task has still to send them to, however
  many tasks overlap (`ResultsComing`); a window shown as open is one of a released
  poll, so `OpenAlwaysDoomed` follows. For `VotesAlwaysPicked` the same is said of
  what a view holds while it shows the poll and of every ballot under way
  (`ChoicesPicked`, `BallotsPicked`).
* **`FrameCodecProofs`**: `CodecInv` says that what was dispatched is the frames
  of a part of the stream, that the generator's buffer is the rest of what was read,
  and that the loop's buffer begins behind a part with the same frames;
  `ChunkingAlwaysInvisible` holds for streams of any length cut anywhere.
* **`SeqFolds`**: what `FoldLeft` and `FoldRight` do with one element more, and what
  they keep. An induction rule over data takes an operator as a parameter, which the
  provers cannot instantiate; the operator is a constant of this module instead, and
  the induction is over the lengths of sequences.

Only model-checked: the liveness properties (`WindowsClose`,
`ImplementsFairElection`, `VotesArrive`, `Anonymizes`, `AllDispatched`,
`CallsReturn`, `LoginSucceeds`, `EveryoneLearns`), for which the prover has no
rules about fairness here; and `TurnoutSound`, whose sum over the options would
need an induction over data.

## Findings

Where the code does not do what a comment, a docstring or the README says. Two
have a configuration whose counterexample shows them:

| Config | Property | What happens |
|---|---|---|
| `MCVoteServerVoid` | `VoidNotCounted` | a double spend invalidates the token and its vote stays in the published totals (`store.py:108-109`, `controller.py:28-30`, `226-227`) |
| `MCTokenCustodyReissue` | `ReissueQueued` | the client's reissue request has no copy of the token and is always refused (`README.md:190-192`) |

Others that the models contain as the code has them, and that no configuration
is spent on:

* An advance gives a second live token to everybody who has not voted, who can
  then vote twice (`server.py:8-10`): see `Recipients` and `IssueTokens`. The
  published turnout can then be more than 100% (`handlers.py:399-401`,
  `ui/poll_view.py:117`); `TurnoutSound` says how far "voted" can be from the number
  of voters.
* The loop closes a window, on unanimity or after the last round, with reissue
  requests pending (`server.py:176-183`); the README has it close when no pending
  reissues remain (`README.md:193`), and `handlers.py:303-306` entitles the holder
  to a replacement.
* The proposer of a real trade keeps the token it gave, so both parties hold it
  (`trade.py:13-14` has them swap tokens): see `OfferReal` and `HandleAccept`.
* Every message that the GUI handles, an announcement or an answer, sets the
  choice of an open poll back to its first option (`ui/poll_view.py:88-95`): a
  vote cast after it is for that option. So does a vote itself (`ui/poll_view.py:150`),
  and the token stays held (`api.py:112-116`): pressing the button again submits the
  first option with the same token, and if that submission overtakes the other it is
  the vote. `VotesPicked` is what is left: an option that was picked, or the first.
* A WINDOW_OPENED that waits for a slow client can reach one that reconnected
  after the WINDOW_CLOSED (`server.py:123-127`); it shows the poll as open for
  good, because a list clears neither `open_windows` nor `results`
  (`controller.py:168-170`). A client that logs in late never sees a window that
  is open, nor results: that is `missed`.
* A draft that is closed publishes results (`handlers.py:174-182`); released after
  that, every client goes on showing "Results" for it while its window is open.
* `close_poll` of the API returns False although the poll was closed, for none of
  the replies has a `reply_to` (`api.py:62-65`).
* `cast_vote` raises `ValueError` rather than the `RuntimeError` of its docstring
  when the client is alone in its own view (`api.py:81-82`, `onion.py:234`).
* The vote button is never disabled without a token (`ui/poll_view.py:3-4`).
* Nothing removes the issuer of an invalidated token from `voted_ok`, so a queued
  request of theirs is cleared unserved (`server.py:195-200`, `handlers.py:303-305`).
* A voter who logs in after the release gets no token (`handlers.py:151`).
* A second login of a key leaves an open, authenticated connection that no
  broadcast and no relay reaches (`server.py:12-13`).
* A late cleanup announces the departure of a key that is online, and since every
  send is awaited that departure, like an announcement of an older login, may reach
  a client after the announcement of the newer one (`server.py:122-138`): a listed
  peer is then missing from a view, or has its earlier name there, until it logs in
  again. Those keys are `crossed`.
* Peers that left while a client was away stay in its view (`controller.py:163`):
  `FirstViewsExact` speaks of a client's first connection only.
* The answer to a chaff offer carries a genuine token (`controller.py:432`,
  `trade.py:16-17`); see `HandlePropose`.
* The result of a vote goes to the exit, and the voter keeps a spent token
  (`handlers.py:294`, `onion.py:22-24`); see `HandleResponse`.
* An offer relayed after the invalidation of its token leaves a dead token with
  its recipient, who is not told again (`controller.py:405`, `README.md:177-178`):
  that is `late`, the one exception of `DeadTokensDoomed`.
* A counter token sent to a client that has gone is nobody's
  (`controller.py:440`): `TokenNotLost` ends when a connection breaks.
* A login without a reply raises the exception for bad credentials
  (`net.py:128-129`), and a request carried out after its timeout is reported as
  rejected (`admin_view.py:96`); see `Told`.
* A login that was given up while connecting takes the place of the connection in
  use and logs it in as the earlier user (`net.py:138-150`): that is `overtaken`.

## Not modelled

* **Screens** (`client/ui/`) other than those of polls: they display, and what
  their buttons call are the user's actions of `TokenCustody` and `ClientNet`.
* **Cryptography** (`crypto.py`) is symbolic: a blob is opened with an equal key,
  a signature verifies for what was signed. The curve arithmetic, the conversion
  of keys and the encodings are data, and inverted exactly.
* **`expires_at` of tokens**: signed, and compared nowhere. A window's is.
* **Persistence**: there is none; a restarted server is the initial state.
* **`CHECK_SPENDABLE`**: a query that changes nothing. No trade makes it, though
  `trade.py:10-13` says so. **`_internal` of CLOSE_POLL** is sent by nobody.
  `_pending_votes` and `_pending_trades` of the controller decide nothing.
* **Write back-pressure** outside `PollScreens` and `PeerDirectory`: messages
  between two clients, and the cascade, are written at once in `TokenCustody`.
* **Percentages**, which follow from the totals (of the turnout `TurnoutSound` speaks); passwords; entry
  points; stopping a client; a closing window in `TokenCustody`.

## Plan

Order of the work, the most important behaviour first. Done: `Election`,
`VoteServer` and their proofs; `PeerDirectory`, with proofs of the directory and
of the clients' views; `TokenCustody` with `Blobs`, and the proofs of its types,
of `SpentOnce`, `TokenNotLost`, `OneLayerEach` and `DeadTokensDoomed`; `FrameCodec`
and its proof; `ClientNet` and its proofs, logins included; `PollScreens`, with
broadcasts under back-pressure and the published results at every client, and its
proofs.

Next:

1. *Composition of custody and windows*: issue, votes, double spends, reissue and
   closing over clients that hold tokens, so that the cascade is checked from
   the double spend to the fresh token.
2. *An abstract specification of custody* (a token is held, under way or gone)
   that `TokenCustody` implements, by a proof that rests on `SafeInv`.
