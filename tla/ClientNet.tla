------------------------------ MODULE ClientNet ------------------------------
(***************************************************************************)
(* The request layer of one client: blocking calls of the GUI thread that  *)
(* run as coroutines on the network thread, replies matched by reply_to,   *)
(* two nested timeouts, and a connection that the server may close.        *)
(*                                                                         *)
(* The network thread is one asyncio loop.  What the GUI thread, or a      *)
(* coroutine, hands to it runs in the order it was handed over: that is    *)
(* the queue ready.  The GUI thread waits for one call at a time, but a    *)
(* call it gives up waiting for goes on as a coroutine.                    *)
(*                                                                         *)
(* A message is its id.  Of the messages that nobody awaits a reply to, the *)
(* LIST_PEERS of a login is ListPeers and any other is NoId.  Messages     *)
(* arrive whole: FrameCodec has the bytes.                                 *)
(***************************************************************************)
EXTENDS Naturals, Sequences, SequencesExt

CONSTANTS
    Ids,         \* ids of requests; a finished one may be used again
    Users,
    Conns,       \* connections (bounds how many are ever opened)
    NoId, ListPeers, NoUser, NoConn, Call

ASSUME ClientAssumption ==
    /\ {NoId, ListPeers} \cap Ids = {} /\ NoId # ListPeers
    /\ NoConn \notin Conns /\ {"none", "new", "ended"} \cap Conns = {}
    /\ NoUser \notin Users /\ Call \notin Users

VARIABLES
    \* The GUI thread.
    gui,         \* the request it is blocked in, or NoId
    logged,      \* whether it has left the login screen
    me,          \* ClientController.username
    outcome,     \* id -> what the GUI was told of the request
    \* The network thread.
    ready,       \* what is still to run: a coroutine to start, a message to write
    ask,         \* id -> the user to log in as, or Call for any other request
    coro,        \* id -> the state of its coroutine
    pending,     \* the keys of _pending
    writer,      \* _writer, and _reader
    loop,        \* conn -> the connection its read loop waits for
    \* The connections, and the server behind them.
    socket,      \* conn -> "unused", "open", closed by the server, or "closing"
    toServer, toClient,
    who,         \* conn -> ClientConnection.username
    verdict      \* id -> what the server did with the request

guiVars  == <<gui, logged, me, outcome>>
connVars == <<socket, toServer, toClient>>
serverVars == <<who, verdict>>
vars == <<guiVars, ready, ask, coro, pending, writer, loop, connVars, serverVars>>

Start(r) == [do |-> "start", id |-> r]
Write(m) == [do |-> "write", id |-> m]
Reply(r, ok) == [id |-> r, ok |-> ok]

Messages == Ids \cup {NoId, ListPeers}
Jobs     == [do : {"start", "write"}, id : Messages]
Replies  == [id : Ids, ok : BOOLEAN]

Finished == {"ok", "bad", "no_reply", "failed"}

TypeOK ==
    /\ gui \in Ids \cup {NoId} /\ logged \in BOOLEAN
    /\ me \in Users \cup {NoUser}
    /\ outcome \in [Ids -> {"none", "ok", "None", "ValueError", "ConnectionError", "TimeoutError"}]
    /\ ready \in Seq(Jobs)
    /\ ask \in [Ids -> Users \cup {Call}]
    /\ coro \in [Ids -> {"none", "scheduled", "opening", "waiting", "cancelled"} \cup Finished]
    /\ pending \subseteq Ids
    /\ writer \in Conns \cup {NoConn}
    /\ loop \in [Conns -> Conns \cup {"none", "new", "ended"}]
    /\ socket \in [Conns -> {"unused", "open", "eof", "probed", "closing"}]
    /\ toServer \in [Conns -> Seq(Messages)]
    /\ toClient \in [Conns -> Seq(Replies)]
    /\ who \in [Conns -> Users \cup {NoUser}]
    /\ verdict \in [Ids -> {"none", "ok", "bad"}]

Init ==
    /\ gui = NoId /\ logged = FALSE /\ me = NoUser
    /\ outcome = [r \in Ids |-> "none"]
    /\ ready = <<>>
    /\ ask = [r \in Ids |-> Call]
    /\ coro = [r \in Ids |-> "none"]
    /\ pending = {}
    /\ writer = NoConn
    /\ loop = [c \in Conns |-> "none"]
    /\ socket = [c \in Conns |-> "unused"]
    /\ toServer = [c \in Conns |-> <<>>] /\ toClient = [c \in Conns |-> <<>>]
    /\ who = [c \in Conns |-> NoUser]
    /\ verdict = [r \in Ids |-> "none"]

(***************************************************************************)
(* The GUI thread.                                                         *)
(***************************************************************************)
UnderWay(r) ==
    \E c \in Conns :
        r \in Range(toServer[c]) \/ \E ok \in BOOLEAN : Reply(r, ok) \in Range(toClient[c])

\* Message ids are random: one that names nothing any more is as good as new.
Fresh(r) == coro[r] = "none" /\ Write(r) \notin Range(ready) /\ ~UnderWay(r)

\* connect_and_login and _request hand a coroutine to the loop and block.  What
\* the GUI was told before, and what is left of finished requests, is forgotten.
Begin(r, what) ==
    /\ gui = NoId /\ Fresh(r)
    /\ gui' = r
    /\ ask' = [q \in Ids |-> IF q = r THEN what ELSE IF Fresh(q) THEN Call ELSE ask[q]]
    /\ coro' = [coro EXCEPT ![r] = "scheduled"]
    /\ outcome' = [q \in Ids |-> "none"]
    /\ verdict' = [q \in Ids |-> IF Fresh(q) THEN "none" ELSE verdict[q]]
    /\ ready' = Append(ready, Start(r))
    /\ UNCHANGED <<me, pending, writer, loop, connVars, who>>

\* The login screen: at the start and after signing out, which leaves the
\* connection and the controller as they are.
BeginLogin(r, u) == Begin(r, u) /\ logged' = FALSE

BeginCall(r) == logged /\ Begin(r, Call) /\ UNCHANGED logged

\* Bounds the messages of Post.
FewPosts ==
    Write(NoId) \notin Range(ready) /\ \A c \in Conns : NoId \notin Range(toServer[c])

\* send: a message nobody awaits a reply to.  The auto-trader and the controller
\* go on sending when the user has signed out.
Post ==
    /\ me # NoUser /\ gui = NoId /\ FewPosts
    /\ ready' = Append(ready, Write(NoId))
    /\ UNCHANGED <<guiVars, ask, coro, pending, writer, loop, connVars, serverVars>>

\* Mutant: the GUI is told how the coroutine ended.
ToldRaw(r) == coro[r]

\* What a finished coroutine makes of a login, and of any other request.
Told(r) ==
    CASE coro[r] = "ok" -> "ok"
      [] coro[r] = "failed" -> "ConnectionError"
      [] OTHER -> IF ask[r] = Call THEN "None" ELSE "ValueError"

\* Mutant: the snapshots are asked for whatever came of the login.
AfterLoginAlways(r) == IF ask[r] = Call THEN ready ELSE Append(ready, Write(ListPeers))

\* login asks for the peers, and for the polls, when it has succeeded.
AfterLogin(r) ==
    IF ask[r] # Call /\ coro[r] = "ok" THEN Append(ready, Write(ListPeers)) ELSE ready

Return(r) ==
    /\ gui = r /\ coro[r] \in Finished
    /\ gui' = NoId
    /\ coro' = [coro EXCEPT ![r] = "none"]
    /\ outcome' = [outcome EXCEPT ![r] = Told(r)]
    /\ ready' = AfterLogin(r)
    /\ IF ask[r] # Call /\ coro[r] = "ok"
       THEN me' = ask[r] /\ logged' = TRUE
       ELSE UNCHANGED <<me, logged>>
    /\ UNCHANGED <<ask, pending, writer, loop, connVars, serverVars>>

\* Mutant: a login that is still connecting is waited for.
GiveUpConnected(r) ==
    /\ gui = r /\ coro[r] = "waiting" /\ ask[r] # Call
    /\ gui' = NoId
    /\ outcome' = [outcome EXCEPT ![r] = "TimeoutError"]
    /\ UNCHANGED <<logged, me, ready, ask, coro, pending, writer, loop, connVars, serverVars>>

\* fut.result(timeout=10) of a login, whose coroutine may take longer: connecting
\* has no limit.  Other requests end before the GUI stops waiting (6 s and 8 s).
GiveUp(r) ==
    /\ gui = r /\ coro[r] \notin Finished /\ ask[r] # Call
    /\ gui' = NoId
    /\ outcome' = [outcome EXCEPT ![r] = "TimeoutError"]
    /\ UNCHANGED <<logged, me, ready, ask, coro, pending, writer, loop, connVars, serverVars>>

\* The coroutine of a call that was given up ends, and nobody looks.
Discard(r) ==
    /\ gui # r /\ coro[r] \in Finished
    /\ coro' = [coro EXCEPT ![r] = "none"]
    /\ UNCHANGED <<guiVars, ready, ask, pending, writer, loop, connVars, serverVars>>

(***************************************************************************)
(* The network thread: coroutines.                                         *)
(***************************************************************************)
Next1(do) == ready # <<>> /\ Head(ready).do = do

\* Mutant: a writer that is closing is taken for usable.
UnusableNone == writer = NoConn

Unusable == writer # NoConn => socket[writer] = "closing"

\* _request_reply up to its await: registered, and queued to be written.
Awaiting(r, q) ==
    /\ coro' = [coro EXCEPT ![r] = "waiting"]
    /\ pending' = pending \cup {r}
    /\ ready' = Append(q, Write(r))

\* The first step of a coroutine.
StartCoroutine ==
    /\ Next1("start")
    /\ LET r == Head(ready).id IN
       IF ask[r] # Call /\ Unusable
       THEN /\ coro' = [coro EXCEPT ![r] = "opening"]
            /\ ready' = Tail(ready)
            /\ UNCHANGED pending
       ELSE Awaiting(r, Tail(ready))
    /\ UNCHANGED <<guiVars, ask, writer, loop, connVars, serverVars>>

\* open_connection returned: the new connection takes the place of the old one,
\* a read loop is started, and the login is sent.
Opened(r, c) ==
    /\ coro[r] = "opening" /\ socket[c] = "unused"
    /\ socket' = [socket EXCEPT ![c] = "open"]
    /\ writer' = c
    /\ loop' = [loop EXCEPT ![c] = "new"]
    /\ Awaiting(r, ready)
    /\ UNCHANGED <<guiVars, ask, toServer, toClient, serverVars>>

OpenFails(r) ==
    /\ coro[r] = "opening"
    /\ coro' = [coro EXCEPT ![r] = "failed"]
    /\ UNCHANGED <<guiVars, ready, ask, pending, writer, loop, connVars, serverVars>>

\* wait_for cancels the future and waits for it to end; until it runs again the
\* entry is still in _pending.
Timer(r) ==
    /\ coro[r] = "waiting"
    /\ coro' = [coro EXCEPT ![r] = "cancelled"]
    /\ UNCHANGED <<guiVars, ready, ask, pending, writer, loop, connVars, serverVars>>

\* Mutant: the entry of a request that timed out is left behind.
ExpireKeeping(r) ==
    /\ coro[r] = "cancelled"
    /\ coro' = [coro EXCEPT ![r] = "no_reply"]
    /\ UNCHANGED <<guiVars, ready, ask, pending, writer, loop, connVars, serverVars>>

Expire(r) ==
    /\ coro[r] = "cancelled"
    /\ coro' = [coro EXCEPT ![r] = "no_reply"]
    /\ pending' = pending \ {r}
    /\ UNCHANGED <<guiVars, ready, ask, writer, loop, connVars, serverVars>>

(***************************************************************************)
(* The network thread: writing.                                            *)
(***************************************************************************)
Written == ready' = Tail(ready) /\ UNCHANGED <<guiVars, ask, coro, pending, writer, loop, toClient, serverVars>>

WriteOpen ==
    /\ Next1("write") /\ writer # NoConn /\ socket[writer] = "open"
    /\ toServer' = [toServer EXCEPT ![writer] = Append(@, Head(ready).id)]
    /\ Written /\ UNCHANGED socket

\* Without a usable writer the message is dropped.
WriteDropped ==
    /\ Next1("write") /\ Unusable
    /\ Written /\ UNCHANGED <<socket, toServer>>

\* After the server closed its end the transport stays open for writing.  The
\* first write is accepted and lost; a later one is refused, which closes it.
WriteLost ==
    /\ Next1("write") /\ writer # NoConn /\ socket[writer] \in {"eof", "probed"}
    /\ socket' = [socket EXCEPT ![writer] = "probed"]
    /\ Written /\ UNCHANGED toServer

WriteRefused ==
    /\ Next1("write") /\ writer # NoConn /\ socket[writer] = "probed"
    /\ socket' = [socket EXCEPT ![writer] = "closing"]
    /\ Written /\ UNCHANGED toServer

(***************************************************************************)
(* The network thread: reading.                                            *)
(***************************************************************************)
\* Another read loop waits for data of the connection.
Awaited(l) == \E k \in Conns \ {l} : loop[k] = writer

\* A loop reads whatever _reader is now.  A second loop on one reader fails, or,
\* when there is data that the first has not been woken for, reads it; the first
\* then finds nothing and takes that for the end.
ReadNext(l) ==
    \/ /\ ~Awaited(l)
       /\ loop' = [loop EXCEPT ![l] = writer]
    \/ /\ Awaited(l)
       /\ loop' = [loop EXCEPT ![l] = "ended"]
    \/ /\ Awaited(l) /\ toClient[writer] # <<>>
       /\ loop' = [k \in Conns |-> IF k = l THEN writer
                                   ELSE IF loop[k] = writer THEN "ended" ELSE loop[k]]

StartLoop(l) ==
    /\ loop[l] = "new"
    /\ ReadNext(l)
    /\ UNCHANGED <<guiVars, ready, ask, coro, pending, writer, connVars, serverVars>>

Answer(ok) == IF ok THEN "ok" ELSE "bad"

\* Mutants: the result is set without looking whether the future is done, which
\* raises an exception that ends the loop; a reply goes to whoever is waiting.
DispatchBlindly(l, msg) ==
    /\ pending' = pending \ {msg.id}
    /\ IF msg.id \in pending /\ coro[msg.id] = "cancelled"
       THEN loop' = [loop EXCEPT ![l] = "ended"] /\ UNCHANGED coro
       ELSE /\ ReadNext(l)
            /\ coro' = IF msg.id \in pending THEN [coro EXCEPT ![msg.id] = Answer(msg.ok)] ELSE coro
DispatchToAny(l, msg) ==
    /\ IF pending = {} THEN UNCHANGED <<pending, coro>>
       ELSE \E r \in pending :
                /\ pending' = pending \ {r}
                /\ coro' = IF coro[r] = "waiting" THEN [coro EXCEPT ![r] = Answer(msg.ok)] ELSE coro
    /\ ReadNext(l)

\* _dispatch_inbound: a reply that is awaited resolves its future; whatever is
\* left goes to the GUI's queue.
Dispatch(l, msg) ==
    /\ pending' = pending \ {msg.id}
    /\ coro' = IF msg.id \in pending /\ coro[msg.id] = "waiting"
               THEN [coro EXCEPT ![msg.id] = Answer(msg.ok)] ELSE coro
    /\ ReadNext(l)

Read(l) ==
    /\ loop[l] \in Conns
    /\ toClient[loop[l]] # <<>>
    /\ toClient' = [toClient EXCEPT ![loop[l]] = Tail(@)]
    /\ Dispatch(l, Head(toClient[loop[l]]))
    /\ UNCHANGED <<guiVars, ready, ask, writer, socket, toServer, serverVars>>

\* The end of the stream, or an error, ends the loop and leaves the writer.
ReadEnd(l) ==
    /\ loop[l] \in Conns
    /\ toClient[loop[l]] = <<>> /\ socket[loop[l]] # "open"
    /\ loop' = [loop EXCEPT ![l] = "ended"]
    /\ UNCHANGED <<guiVars, ready, ask, coro, pending, writer, connVars, serverVars>>

(***************************************************************************)
(* The server, and what happens to connections.                            *)
(***************************************************************************)
Taken(c) == toServer' = [toServer EXCEPT ![c] = Tail(@)]

\* Mutant: a second login on a connection does not change its user.
BoundOnce(c, u) == IF who[c] = NoUser THEN u ELSE who[c]

Bound(c, u) == u

\* A request is carried out or refused, and answered.
Serve(c, ok) ==
    /\ socket[c] = "open" /\ toServer[c] # <<>> /\ Head(toServer[c]) \in Ids
    /\ LET r == Head(toServer[c]) IN
       /\ toClient' = [toClient EXCEPT ![c] = Append(@, Reply(r, ok))]
       /\ verdict' = [verdict EXCEPT ![r] = Answer(ok)]
       /\ who' = [who EXCEPT ![c] = IF ok /\ ask[r] # Call THEN Bound(c, ask[r]) ELSE @]
    /\ Taken(c)
    /\ UNCHANGED <<guiVars, ready, ask, coro, pending, writer, loop, socket>>

\* Any other message: what comes of it goes to the GUI's queue.
ServePost(c) ==
    /\ socket[c] = "open" /\ toServer[c] # <<>> /\ Head(toServer[c]) \notin Ids
    /\ Taken(c)
    /\ UNCHANGED <<guiVars, ready, ask, coro, pending, writer, loop, socket, toClient, serverVars>>

\* The server ends its read loop, or itself, and closes its end; what it knew of
\* the connection goes with it.
ServerCloses(c) ==
    /\ socket[c] = "open"
    /\ socket' = [socket EXCEPT ![c] = "eof"]
    /\ toServer' = [toServer EXCEPT ![c] = <<>>]
    /\ who' = [who EXCEPT ![c] = NoUser]
    /\ UNCHANGED <<guiVars, ready, ask, coro, pending, writer, loop, toClient, verdict>>

\* The network breaks the connection: what has not been read is lost.
Reset(c) ==
    /\ socket[c] \in {"open", "eof", "probed"}
    /\ socket' = [socket EXCEPT ![c] = "closing"]
    /\ toServer' = [toServer EXCEPT ![c] = <<>>]
    /\ toClient' = [toClient EXCEPT ![c] = <<>>]
    /\ who' = [who EXCEPT ![c] = NoUser]
    /\ UNCHANGED <<guiVars, ready, ask, coro, pending, writer, loop, verdict>>

GuiStep ==
    \/ \E r \in Ids, u \in Users : BeginLogin(r, u)
    \/ \E r \in Ids : BeginCall(r) \/ Return(r) \/ GiveUp(r) \/ Discard(r)
    \/ Post

WriteStep == WriteOpen \/ WriteDropped \/ WriteLost \/ WriteRefused

CoroutineStep ==
    \/ StartCoroutine
    \/ \E r \in Ids, c \in Conns : Opened(r, c)
    \/ \E r \in Ids : OpenFails(r) \/ Timer(r) \/ Expire(r)

ReadStep == \E l \in Conns : StartLoop(l) \/ Read(l) \/ ReadEnd(l)

ServerStep == \E c \in Conns : ServePost(c) \/ ServerCloses(c) \/ Reset(c) \/ \E ok \in BOOLEAN : Serve(c, ok)

Next == GuiStep \/ WriteStep \/ CoroutineStep \/ ReadStep \/ ServerStep

Spec == Init /\ [][Next]_vars

\* The GUI thread runs when it is woken, the loop runs what is ready, and timers
\* fire.  Nothing is assumed of the server or of connecting.
Fairness ==
    /\ \A r \in Ids : WF_vars(Return(r)) /\ WF_vars(GiveUp(r)) /\ WF_vars(Timer(r)) /\ WF_vars(Expire(r))
    /\ WF_vars(StartCoroutine) /\ WF_vars(WriteStep)

FairSpec == Spec /\ Fairness
-----------------------------------------------------------------------------
(***************************************************************************)
(* Safety.                                                                 *)
(***************************************************************************)
\* A request the GUI was told succeeded was carried out by the server, and one
\* it was told failed to connect was never received.
ToldTruth ==
    \A r \in Ids :
        /\ outcome[r] = "ok" => verdict[r] = "ok"
        /\ outcome[r] = "ConnectionError" => verdict[r] = "none"

\* A future is in _pending exactly while its coroutine waits for it, but for the
\* moment between its cancellation and the coroutine's last step.
PendingAwaited ==
    \A r \in Ids :
        /\ coro[r] = "waiting" => r \in pending
        /\ r \in pending => coro[r] \in {"waiting", "cancelled"}

\* The open connection that is written to is being read, whatever replies came
\* late and however many logins connected at once.
NotDeaf ==
    writer # NoConn /\ socket[writer] = "open" =>
        \E l \in Conns : loop[l] \in {"new", writer}

(***************************************************************************)
(* Liveness.                                                               *)
(***************************************************************************)
\* The GUI is never blocked for good, though connecting may hang and the server
\* may never answer.
CallsReturn == \A r \in Ids : gui = r ~> gui # r

SignedIn == logged /\ writer # NoConn /\ socket[writer] = "open"
=============================================================================
