-------------------------- MODULE ClientNetProofs --------------------------
(***************************************************************************)
(* Proofs about ClientNet, for any ids, users and number of connections.   *)
(***************************************************************************)
EXTENDS MCClientNet, TLAPS

(***************************************************************************)
(* The inductive invariant: of what is ready to run, of the readers, and   *)
(* of where the one copy of a request is.                                  *)
(***************************************************************************)
\* What waits to be started is scheduled.
Scheduled ==
    \A i \in 1..Len(ready) : ready[i].do = "start" =>
        ready[i].id \in Ids /\ coro[ready[i].id] = "scheduled"

\* Read loops are started by a login that has set the writer.
ReadersHaveWriter == \A l \in Conns : loop[l] # "none" => writer \in Conns

Queued(r) == \E i \in 1..Len(ready) : ready[i] = Write(r)
Arrived(r) == \E c \in Conns : \E i \in 1..Len(toServer[c]) : toServer[c][i] = r
ToServe(r) == Queued(r) \/ Arrived(r)

\* A request is queued, or written and not yet served, in one place.
Once(q) == \A i, j \in 1..Len(q) : q[i] = q[j] /\ q[i].id \in Ids => i = j
QueuedOnce == Once(ready)
ArrivedOnce ==
    \A c, d \in Conns : \A i \in 1..Len(toServer[c]), j \in 1..Len(toServer[d]) :
        toServer[c][i] = toServer[d][j] /\ toServer[c][i] \in Ids => c = d /\ i = j
SentOnce == QueuedOnce /\ ArrivedOnce /\ \A r \in Ids : ~ (Queued(r) /\ Arrived(r))

\* The verdict of a request is what its reply says, and what its coroutine and
\* the GUI make of that; before it is served there is none.
Served ==
    /\ \A r \in Ids : ToServe(r) => verdict[r] = "none"
    /\ \A r \in Ids : coro[r] \in {"scheduled", "opening", "failed"} =>
          verdict[r] = "none" /\ ~ToServe(r)
    /\ \A c \in Conns : \A i \in 1..Len(toClient[c]) :
          verdict[toClient[c][i].id] = Answer(toClient[c][i].ok)
    /\ \A r \in Ids : coro[r] = "ok" => verdict[r] = "ok"
    /\ \A r \in Ids : outcome[r] = "ok" => verdict[r] = "ok"
    /\ \A r \in Ids : outcome[r] = "ConnectionError" =>
          verdict[r] = "none" /\ ~ToServe(r) /\ coro[r] = "none"

IInv ==
    /\ TypeOK /\ Scheduled /\ PendingAwaited
    /\ ReadersHaveWriter /\ NotDeaf
    /\ SentOnce /\ Served

(***************************************************************************)
(* Types.                                                                  *)
(***************************************************************************)
LEMMA Kinds ==
    /\ \A r \in Ids : Start(r) \in Jobs
    /\ \A m \in Messages : Write(m) \in Jobs
    /\ \A j \in Jobs : j.do \in {"start", "write"} /\ j.id \in Messages
    /\ \A r \in Ids, ok \in BOOLEAN : Reply(r, ok) \in Replies
    /\ \A p \in Replies : p.id \in Ids /\ p.ok \in BOOLEAN
    /\ NoId \in Messages /\ ListPeers \in Messages /\ Ids \subseteq Messages
  BY DEF Jobs, Messages, Replies, Start, Write, Reply

LEMMA InitInv == Init => IInv
<1> SUFFICES ASSUME Init PROVE IInv
  OBVIOUS
<1>1. TypeOK
  <2>1. logged \in BOOLEAN
    BY DEF Init
  <2> QED
    BY <2>1 DEF Init, TypeOK
<1>2. Scheduled /\ PendingAwaited /\ ReadersHaveWriter /\ NotDeaf
  BY DEF Init, Scheduled, PendingAwaited, ReadersHaveWriter, NotDeaf
<1>3. \A r \in Ids : ~ToServe(r)
  BY DEF Init, ToServe, Queued, Arrived
<1>4. SentOnce
  BY <1>3 DEF Init, SentOnce, QueuedOnce, Once, ArrivedOnce, ToServe
<1>5. Served
  BY <1>3 DEF Init, Served
<1> QED
  BY <1>1, <1>2, <1>4, <1>5 DEF IInv

LEMMA GuiTypes == ASSUME TypeOK, GuiStep PROVE TypeOK'
<1> USE DEF TypeOK, Finished
<1>1. ASSUME NEW r \in Ids, NEW what \in Users \cup {Call}, Begin(r, what), logged' \in BOOLEAN
      PROVE  TypeOK'
  BY <1>1, Kinds DEF Begin, connVars
<1>2. ASSUME NEW r \in Ids, NEW u \in Users, BeginLogin(r, u) PROVE TypeOK'
  BY <1>1, <1>2 DEF BeginLogin
<1>3. ASSUME NEW r \in Ids, BeginCall(r) PROVE TypeOK'
  BY <1>1, <1>3 DEF BeginCall
<1>4. ASSUME NEW r \in Ids, Return(r) PROVE TypeOK'
  <2>1. Told(r) \in {"none", "ok", "None", "ValueError", "ConnectionError", "TimeoutError"}
    BY DEF Told
  <2>2. AfterLogin(r) \in Seq(Jobs)
    BY Kinds DEF AfterLogin
  <2>3. me' \in Users \cup {NoUser}
    BY <1>4 DEF Return
  <2>5. logged' \in BOOLEAN
    BY <1>4, Zenon DEF Return
  <2>4. outcome' \in [Ids -> {"none", "ok", "None", "ValueError", "ConnectionError", "TimeoutError"}]
    BY <1>4, <2>1 DEF Return
  <2> QED
    BY <1>4, <2>2, <2>3, <2>4, <2>5 DEF Return, connVars, serverVars
<1>5. ASSUME NEW r \in Ids, GiveUp(r) \/ Discard(r) PROVE TypeOK'
  BY SMTT(20), <1>5 DEF GiveUp, Discard, guiVars, connVars, serverVars
<1>6. CASE Post
  BY <1>6, Kinds DEF Post, guiVars, connVars, serverVars
<1> QED
  BY <1>2, <1>3, <1>4, <1>5, <1>6 DEF GuiStep

LEMMA LoopTypes == ASSUME TypeOK, Scheduled, WriteStep \/ CoroutineStep PROVE TypeOK'
<1> USE DEF TypeOK, Finished
<1>1. CASE WriteStep
  <2>1. ready # <<>> /\ ready' = Tail(ready)
    BY <1>1 DEF WriteStep, WriteOpen, WriteDropped, WriteLost, WriteRefused, Next1, Written
  <2>2. Head(ready).id \in Messages /\ Tail(ready) \in Seq(Jobs)
    <3>1. Head(ready) \in Jobs
      BY <2>1
    <3> QED
      BY <2>1, <3>1, Kinds
  <2>3. toServer' \in [Conns -> Seq(Messages)]
    <3>1. CASE WriteOpen
      BY <2>2, <3>1 DEF WriteOpen
    <3>2. CASE UNCHANGED toServer
      BY <3>2
    <3> QED
      BY <1>1, <3>1, <3>2 DEF WriteStep, WriteDropped, WriteLost, WriteRefused
  <2>4. socket' \in [Conns -> {"unused", "open", "eof", "probed", "closing"}]
    <3>1. CASE WriteLost
      BY <3>1 DEF WriteLost
    <3>2. CASE WriteRefused
      BY <3>2 DEF WriteRefused
    <3>3. CASE UNCHANGED socket
      BY <3>3
    <3> QED
      BY <1>1, <3>1, <3>2, <3>3 DEF WriteStep, WriteOpen, WriteDropped
  <2>5. UNCHANGED <<guiVars, ask, coro, pending, writer, loop, toClient, serverVars>>
    BY <1>1 DEF WriteStep, WriteOpen, WriteDropped, WriteLost, WriteRefused, Written
  <2> QED
    BY <2>1, <2>2, <2>3, <2>4, <2>5 DEF guiVars, serverVars
<1>2. CASE StartCoroutine
  <2>1. ready # <<>> /\ Head(ready).id \in Ids /\ Tail(ready) \in Seq(Jobs)
    BY <1>2 DEF StartCoroutine, Next1, Scheduled
  <2> DEFINE r == Head(ready).id
  <2>2. CASE ask[r] # Call /\ Unusable
    BY <1>2, <2>1, <2>2 DEF StartCoroutine, guiVars, connVars, serverVars
  <2>3. CASE ~ (ask[r] # Call /\ Unusable)
    <3>1. Append(Tail(ready), Write(r)) \in Seq(Jobs)
      BY <2>1, Kinds
    <3>2. Awaiting(r, Tail(ready))
      BY <1>2, <2>3 DEF StartCoroutine
    <3> QED
      BY <1>2, <2>1, <3>1, <3>2 DEF StartCoroutine, Awaiting, guiVars, connVars, serverVars
  <2> QED
    BY <2>2, <2>3
<1>3. ASSUME NEW r \in Ids, NEW c \in Conns, Opened(r, c) PROVE TypeOK'
  BY <1>3, Kinds DEF Opened, Awaiting, guiVars, serverVars
<1>4. ASSUME NEW r \in Ids, OpenFails(r) \/ Timer(r) \/ Expire(r) PROVE TypeOK'
  BY ZenonT(40), <1>4 DEF OpenFails, Timer, Expire, guiVars, connVars, serverVars
<1> QED
  BY <1>1, <1>2, <1>3, <1>4 DEF CoroutineStep

LEMMA ReadTypes ==
    ASSUME TypeOK, ReadersHaveWriter, ReadStep \/ ServerStep PROVE TypeOK'
<1> USE DEF TypeOK
<1>1. ASSUME NEW l \in Conns, loop[l] # "none", ReadNext(l)
      PROVE  loop' \in [Conns -> Conns \cup {"none", "new", "ended"}]
  BY ZenonT(40), <1>1 DEF ReadNext, ReadersHaveWriter
<1>2. ASSUME NEW l \in Conns, StartLoop(l) PROVE TypeOK'
  BY <1>1, <1>2 DEF StartLoop, guiVars, connVars, serverVars
<1>3. ASSUME NEW l \in Conns, Read(l) PROVE TypeOK'
  <2>1. toClient' \in [Conns -> Seq(Replies)]
    BY <1>3 DEF Read
  <2>2. loop' \in [Conns -> Conns \cup {"none", "new", "ended"}]
    BY <1>1, <1>3, ClientAssumption DEF Read, Dispatch
  <2>3. pending' \subseteq Ids
    BY <1>3 DEF Read, Dispatch
  <2>4. coro' \in [Ids -> {"none", "scheduled", "opening", "waiting", "cancelled"} \cup Finished]
    BY <1>3 DEF Read, Dispatch, Answer, Finished
  <2> QED
    BY <1>3, <2>1, <2>2, <2>3, <2>4 DEF Read, Dispatch, guiVars, serverVars
<1>4. ASSUME NEW l \in Conns, ReadEnd(l) PROVE TypeOK'
  BY <1>4 DEF ReadEnd, guiVars, connVars, serverVars
<1>5. ASSUME NEW c \in Conns, ServerCloses(c) PROVE TypeOK'
  BY <1>5 DEF ServerCloses, guiVars
<1>8. ASSUME NEW c \in Conns, Reset(c) PROVE TypeOK'
  BY <1>8 DEF Reset, guiVars
<1>7. ASSUME NEW c \in Conns, ServePost(c) PROVE TypeOK'
  BY <1>7 DEF ServePost, Taken, guiVars, serverVars
<1>6. ASSUME NEW c \in Conns, NEW ok \in BOOLEAN, Serve(c, ok) PROVE TypeOK'
  <2>1. Head(toServer[c]) \in Ids /\ toServer[c] # <<>>
    BY <1>6 DEF Serve
  <2>2. toServer' \in [Conns -> Seq(Messages)]
    BY <1>6, <2>1 DEF Serve, Taken
  <2>3. toClient' \in [Conns -> Seq(Replies)]
    BY <1>6, <2>1, Kinds DEF Serve
  <2>4. verdict' \in [Ids -> {"none", "ok", "bad"}]
    BY <1>6, <2>1 DEF Serve, Answer
  <2>5. who' \in [Conns -> Users \cup {NoUser}]
    BY <1>6, <2>1 DEF Serve, Bound
  <2> QED
    BY <1>6, <2>2, <2>3, <2>4, <2>5 DEF Serve, guiVars
<1> QED
  BY <1>2, <1>3, <1>4, <1>5, <1>6, <1>7, <1>8 DEF ReadStep, ServerStep

LEMMA TypeStep == ASSUME IInv, [Next]_vars PROVE TypeOK'
<1>1. TypeOK /\ Scheduled /\ ReadersHaveWriter
  BY DEF IInv
<1>2. CASE UNCHANGED vars
  BY <1>1, <1>2 DEF TypeOK, vars, guiVars, connVars, serverVars
<1> QED
  BY <1>1, <1>2, GuiTypes, LoopTypes, ReadTypes DEF Next

(***************************************************************************)
(* The readers.                                                            *)
(***************************************************************************)
LEMMA ReaderStep == ASSUME IInv, [Next]_vars PROVE ReadersHaveWriter' /\ NotDeaf'
<1>1. TypeOK /\ ReadersHaveWriter /\ NotDeaf
  BY DEF IInv
<1> USE DEF TypeOK, ReadersHaveWriter, NotDeaf
<1>2. CASE /\ UNCHANGED <<writer, loop>>
           /\ \A c \in Conns : socket'[c] = "open" => socket[c] = "open"
  BY <1>1, <1>2
<1>3. CASE GuiStep \/ ServerStep \/ UNCHANGED vars
  <2>1. UNCHANGED <<writer, loop>>
    BY <1>3
    DEF GuiStep, BeginLogin, BeginCall, Begin, Return, GiveUp, Discard, Post, ServerStep, Serve,
        ServePost, ServerCloses, Reset, vars
  <2>2. UNCHANGED socket \/ \E c \in Conns : ServerCloses(c) \/ Reset(c)
    BY <1>3
    DEF GuiStep, BeginLogin, BeginCall, Begin, Return, GiveUp, Discard, Post, ServerStep, Serve,
        ServePost, vars, connVars
  <2>3. \A c \in Conns : socket'[c] = "open" => socket[c] = "open"
    BY <1>1, <2>2 DEF ServerCloses, Reset
  <2> QED
    BY <1>2, <2>1, <2>3
<1>4. CASE WriteStep
  <2>1. UNCHANGED <<writer, loop>>
    BY <1>4 DEF WriteStep, WriteOpen, WriteDropped, WriteLost, WriteRefused, Written
  <2>2. UNCHANGED socket \/ WriteLost \/ WriteRefused
    BY <1>4 DEF WriteStep, WriteOpen, WriteDropped
  <2>3. \A c \in Conns : socket'[c] = "open" => socket[c] = "open"
    BY <1>1, <2>2 DEF WriteLost, WriteRefused
  <2> QED
    BY <1>2, <2>1, <2>3
<1>5. ASSUME NEW r \in Ids, NEW c \in Conns, Opened(r, c)
      PROVE  ReadersHaveWriter' /\ NotDeaf'
  BY <1>1, <1>5 DEF Opened
<1>6. CASE StartCoroutine \/ \E r \in Ids : OpenFails(r) \/ Timer(r) \/ Expire(r)
  BY <1>2, <1>6 DEF StartCoroutine, OpenFails, Timer, Expire, connVars
\* Whichever way a loop goes on, it or another one reads the writer's connection.
<1>7. ASSUME NEW l \in Conns, loop[l] # "none", ReadNext(l), UNCHANGED <<writer, socket>>
      PROVE  ReadersHaveWriter' /\ NotDeaf'
  <2>1. writer \in Conns
    BY <1>1, <1>7
  <2>2. \E k \in Conns : loop'[k] = writer
    BY <1>1, <1>7 DEF ReadNext, Awaited
  <2> QED
    BY <1>7, <2>1, <2>2
<1>8. ASSUME NEW l \in Conns, StartLoop(l) \/ Read(l) PROVE ReadersHaveWriter' /\ NotDeaf'
  BY <1>7, <1>8, ClientAssumption DEF StartLoop, Read, Dispatch, connVars
<1>9. ASSUME NEW l \in Conns, ReadEnd(l) PROVE ReadersHaveWriter' /\ NotDeaf'
  <2>1. loop' = [loop EXCEPT ![l] = "ended"] /\ UNCHANGED <<writer, socket>>
    BY <1>9 DEF ReadEnd, connVars
  <2>2. loop[l] \in Conns /\ socket[loop[l]] # "open"
    BY <1>9 DEF ReadEnd
  <2>3. ReadersHaveWriter'
    BY <1>1, <2>1, <2>2, ClientAssumption
  <2>4. NotDeaf'
    BY <1>1, <2>1, <2>2, ClientAssumption
  <2> QED
    BY <2>3, <2>4
<1> QED
  BY <1>3, <1>4, <1>5, <1>6, <1>8, <1>9 DEF Next, CoroutineStep, ReadStep

(***************************************************************************)
(* The requests that are pending.                                          *)
(***************************************************************************)
\* An id that is fresh is nowhere.
LEMMA FreshFacts ==
    ASSUME TypeOK, NEW r \in Ids, Fresh(r)
    PROVE  /\ coro[r] = "none" /\ ~ToServe(r)
           /\ \A c \in Conns : \A i \in 1..Len(toClient[c]) : toClient[c][i].id # r
<1>1. coro[r] = "none" /\ Write(r) \notin Range(ready) /\ ~UnderWay(r)
  BY DEF Fresh
<1>2. ~Queued(r)
  BY <1>1 DEF Queued, Range, TypeOK
<1>3. ~Arrived(r)
  BY <1>1 DEF Arrived, UnderWay, Range, TypeOK
<1>4. ASSUME NEW c \in Conns, NEW i \in 1..Len(toClient[c]), toClient[c][i].id = r PROVE FALSE
  <2>1. toClient[c][i] \in Replies /\ toClient[c][i] \in Range(toClient[c])
    BY DEF TypeOK, Range
  <2>2. toClient[c][i] = Reply(r, toClient[c][i].ok) /\ toClient[c][i].ok \in BOOLEAN
    BY <1>4, <2>1 DEF Replies, Reply
  <2> QED
    BY <1>1, <2>1, <2>2 DEF UnderWay
<1> QED
  BY <1>1, <1>2, <1>3, <1>4 DEF ToServe

\* The coroutines that a step changes, and the queue.
LEMMA PendingStep == ASSUME IInv, [Next]_vars PROVE Scheduled' /\ PendingAwaited'
<1>1. TypeOK /\ Scheduled /\ PendingAwaited /\ QueuedOnce
  BY DEF IInv, SentOnce
<1>2. /\ ready \in Seq(Jobs) /\ Len(ready) \in Nat
      /\ coro \in [Ids -> {"none", "scheduled", "opening", "waiting", "cancelled"} \cup Finished]
  BY <1>1 DEF TypeOK
<1> DEFINE Started(q) == \A i \in 1..Len(q) : q[i].do = "start" =>
                              q[i].id \in Ids /\ coro'[q[i].id] = "scheduled"
           Goal == Started(ready') /\ PendingAwaited'
<1> SUFFICES Goal
  BY DEF Scheduled
<1>3. CASE UNCHANGED <<ready, coro, pending>>
  BY <1>1, <1>3 DEF Scheduled, PendingAwaited
<1>4. ASSUME NEW r \in Ids, NEW what, Begin(r, what) PROVE Goal
  <2>1. coro[r] = "none"
    BY <1>4 DEF Begin, Fresh
  <2>2. coro' = [coro EXCEPT ![r] = "scheduled"] /\ ready' = Append(ready, Start(r)) /\ pending' = pending
    BY <1>4 DEF Begin
  <2>3. Started(ready')
    BY <1>1, <1>2, <2>1, <2>2 DEF Scheduled, Start
  <2> QED
    BY <1>1, <1>2, <2>1, <2>2, <2>3 DEF PendingAwaited
<1>5. ASSUME NEW r \in Ids, coro[r] # "scheduled", NEW st, st # "scheduled",
             coro' = [coro EXCEPT ![r] = st]
      PROVE  Started(ready)
  BY <1>1, <1>2, <1>5 DEF Scheduled
<1>6. ASSUME NEW r \in Ids, Return(r) PROVE Goal
  <2>1. coro[r] \in Finished /\ coro' = [coro EXCEPT ![r] = "none"] /\ pending' = pending
    BY <1>6 DEF Return
  <2>2. Started(ready)
    BY <1>5, <2>1 DEF Finished
  <2>3. Started(ready')
    BY <1>2, <1>6, <2>2 DEF Return, AfterLogin, Write
  <2> QED
    BY <1>1, <1>2, <2>1, <2>3 DEF PendingAwaited, Finished
<1>7. ASSUME NEW r \in Ids, Discard(r) \/ OpenFails(r) \/ Timer(r) \/ Expire(r) PROVE Goal
  <2>1. Started(ready) /\ ready' = ready
    BY <1>5, <1>7 DEF Discard, OpenFails, Timer, Expire, Finished
  <2> QED
    BY <1>1, <1>2, <1>7, <2>1 DEF PendingAwaited, Discard, OpenFails, Timer, Expire, Finished
<1>8. CASE Post
  BY <1>1, <1>2, <1>8 DEF Post, Scheduled, PendingAwaited, Write
<1>9. CASE WriteStep
  <2>1. ready # <<>> /\ ready' = Tail(ready) /\ UNCHANGED <<coro, pending>>
    BY <1>9 DEF WriteStep, WriteOpen, WriteDropped, WriteLost, WriteRefused, Next1, Written
  <2> QED
    BY <1>1, <1>2, <2>1 DEF Scheduled, PendingAwaited
<1>10. CASE StartCoroutine
  <2> DEFINE r == Head(ready).id
  <2>1. ready # <<>> /\ r = ready[1].id /\ ready[1].do = "start" /\ 1 \in 1..Len(ready)
    BY <1>2, <1>10 DEF StartCoroutine, Next1
  <2>2. r \in Ids /\ coro[r] = "scheduled"
    BY <1>1, <2>1 DEF Scheduled
  <2>3. ASSUME NEW i \in 2..Len(ready), ready[i].do = "start"
        PROVE  ready[i].id \in Ids /\ coro[ready[i].id] = "scheduled" /\ ready[i].id # r
    <3>1. i \in 1..Len(ready) /\ ready[i] \in Jobs /\ ready[1] \in Jobs /\ i # 1
      BY <1>2, <2>1
    <3>2. ready[i].id = r => ready[i] = ready[1]
      BY <2>1, <2>3, <3>1 DEF Jobs
    <3> QED
      BY <1>1, <2>1, <2>2, <2>3, <3>1, <3>2 DEF Scheduled, QueuedOnce, Once
  <2> HIDE DEF r
  <2>4. ASSUME NEW st, coro' = [coro EXCEPT ![r] = st] PROVE Started(Tail(ready))
    BY <1>2, <2>1, <2>2, <2>3, <2>4
  <2>5. CASE coro' = [coro EXCEPT ![r] = "opening"] /\ ready' = Tail(ready) /\ pending' = pending
    <3>1. Started(ready')
      BY <2>4, <2>5
    <3>2. PendingAwaited'
      BY <1>1, <1>2, <2>2, <2>5 DEF PendingAwaited
    <3> QED
      BY <3>1, <3>2
  <2>6. CASE Awaiting(r, Tail(ready))
    <3>1. coro' = [coro EXCEPT ![r] = "waiting"]
      BY <2>6 DEF Awaiting
    <3>2. Started(Tail(ready))
      BY <2>4, <3>1
    <3>3. Started(Append(Tail(ready), Write(r)))
      BY <1>2, <2>1, <3>2 DEF Write
    <3>4. PendingAwaited'
      BY <1>1, <1>2, <2>2, <2>6 DEF Awaiting, PendingAwaited
    <3> QED
      BY <2>6, <3>3, <3>4 DEF Awaiting
  <2> QED
    BY <1>10, <2>5, <2>6 DEF StartCoroutine, r
<1>11. ASSUME NEW r \in Ids, NEW c \in Conns, Opened(r, c) PROVE Goal
  <2>1. coro[r] = "opening" /\ Awaiting(r, ready)
    BY <1>11 DEF Opened
  <2>2. Started(ready)
    BY <1>5, <2>1 DEF Awaiting
  <2>3. Started(Append(ready, Write(r)))
    BY <1>2, <2>2 DEF Write
  <2> QED
    BY <1>1, <1>2, <2>1, <2>3 DEF Awaiting, PendingAwaited
<1>12. ASSUME NEW l \in Conns, Read(l) PROVE Goal
  <2> DEFINE msg == Head(toClient[loop[l]])
  <2>1. /\ pending' = pending \ {msg.id} /\ ready' = ready
        /\ coro' = IF msg.id \in pending /\ coro[msg.id] = "waiting"
                   THEN [coro EXCEPT ![msg.id] = Answer(msg.ok)] ELSE coro
    BY <1>12 DEF Read, Dispatch
  <2>2. Answer(msg.ok) \in {"ok", "bad"}
    BY DEF Answer
  <2>3. msg.id \in pending => msg.id \in Ids
    BY <1>1 DEF TypeOK
  <2> HIDE DEF msg
  <2> QED
    BY <1>1, <1>2, <2>1, <2>2, <2>3 DEF Scheduled, PendingAwaited
<1>13. CASE ServerStep \/ UNCHANGED vars \/ \E r \in Ids : GiveUp(r)
  BY <1>3, <1>13 DEF ServerStep, Serve, ServePost, ServerCloses, Reset, vars, GiveUp
<1>14. CASE \E l \in Conns : StartLoop(l) \/ ReadEnd(l)
  BY <1>3, <1>14 DEF StartLoop, ReadEnd
<1> HIDE DEF Goal
<1> QED
  BY <1>4, <1>6, <1>7, <1>8, <1>9, <1>10, <1>11, <1>12, <1>13, <1>14
  DEF Next, GuiStep, BeginLogin, BeginCall, CoroutineStep, ReadStep

(***************************************************************************)
(* Where a request is.                                                     *)
(***************************************************************************)
LEMMA OnceTail ==
    ASSUME NEW q \in Seq(Jobs), q # <<>>, Once(q)
    PROVE  /\ Once(Tail(q)) /\ Tail(q) \in Seq(Jobs)
           /\ \A i \in 1..Len(Tail(q)) :
                 /\ Tail(q)[i] = q[i + 1] /\ i + 1 \in 1..Len(q)
                 /\ Head(q).id \in Ids => Tail(q)[i] # Head(q)
  BY DEF Once

LEMMA OnceAppend ==
    ASSUME NEW q \in Seq(Jobs), Once(q), NEW x \in Jobs,
           x.id \in Ids => \A i \in 1..Len(q) : q[i] # x
    PROVE  Once(Append(q, x))
  BY DEF Once

\* What a step adds to what is to be served: a request whose coroutine sends it.
LEMMA QueueStep ==
    ASSUME IInv, [Next]_vars
    PROVE  /\ QueuedOnce'
           /\ \A r \in Ids : Queued(r)' =>
                 \/ Queued(r) /\ (WriteStep => Head(ready) # Write(r))
                 \/ coro[r] \in {"scheduled", "opening"} /\ coro'[r] = "waiting" /\ ~WriteStep
<1> DEFINE Goal ==
      /\ Once(ready')
      /\ \A r \in Ids : \A i \in 1..Len(ready') : ready'[i] = Write(r) =>
            \/ Queued(r) /\ (WriteStep => Head(ready) # Write(r))
            \/ coro[r] \in {"scheduled", "opening"} /\ coro'[r] = "waiting" /\ ~WriteStep
<1> SUFFICES Goal
  BY DEF Queued, QueuedOnce
<1>1. TypeOK /\ Scheduled /\ Once(ready) /\ Served
  BY DEF IInv, SentOnce, QueuedOnce
<1>2. /\ ready \in Seq(Jobs)
      /\ coro \in [Ids -> {"none", "scheduled", "opening", "waiting", "cancelled"} \cup Finished]
  BY <1>1 DEF TypeOK
<1>3. WriteStep => ready # <<>> /\ ready' = Tail(ready) /\ Head(ready).do = "write"
  BY DEF WriteStep, WriteOpen, WriteDropped, WriteLost, WriteRefused, Next1, Written
<1>4. CASE WriteStep
  <2>1. /\ Once(ready') /\ ready' = Tail(ready)
        /\ \A i \in 1..Len(ready') :
              /\ ready'[i] = ready[i + 1] /\ i + 1 \in 1..Len(ready)
              /\ Head(ready).id \in Ids => ready'[i] # Head(ready)
    BY <1>1, <1>2, <1>3, <1>4, OnceTail
  <2>2. ASSUME NEW r \in Ids, NEW i \in 1..Len(ready'), ready'[i] = Write(r)
        PROVE  Queued(r) /\ Head(ready) # Write(r)
    BY <2>1, <2>2 DEF Queued, Write
  <2> QED
    BY <2>1, <2>2
<1>5. CASE UNCHANGED ready
  <2>1. ~WriteStep
    BY <1>2, <1>3, <1>5
  <2> QED
    BY <1>1, <1>5, <2>1 DEF Queued
<1>6. ASSUME NEW x \in Jobs, ready' = Append(ready, x),
             x.id \in Ids => \A i \in 1..Len(ready) : ready[i] # x,
             \A r \in Ids : x = Write(r) =>
                 coro[r] \in {"scheduled", "opening"} /\ coro'[r] = "waiting"
      PROVE  Goal
  <2>1. Once(ready')
    BY <1>1, <1>2, <1>6, OnceAppend
  <2>2. ~WriteStep
    BY <1>2, <1>3, <1>6
  <2> QED
    BY <1>2, <1>6, <2>1, <2>2 DEF Queued
<1>7. ASSUME NEW r \in Ids, NEW what, Begin(r, what) PROVE Goal
  <2>1. \A i \in 1..Len(ready) : ready[i] # Start(r)
    BY <1>1, <1>7 DEF Begin, Fresh, Scheduled, Start
  <2> QED
    BY <1>6, <1>7, <2>1, Kinds DEF Begin, Start, Write
<1>8. ASSUME NEW m \in {NoId, ListPeers}, ready' = Append(ready, Write(m)) PROVE Goal
  BY <1>6, <1>8, Kinds, ClientAssumption DEF Write
<1>9. ASSUME NEW r \in Ids, Return(r) PROVE Goal
  BY <1>5, <1>8, <1>9 DEF Return, AfterLogin
<1>10. CASE StartCoroutine
  <2> DEFINE r == Head(ready).id
  <2>1. ready # <<>> /\ Head(ready) = ready[1] /\ Head(ready).do = "start" /\ 1 \in 1..Len(ready)
    BY <1>2, <1>10 DEF StartCoroutine, Next1
  <2>2. r \in Ids /\ coro[r] = "scheduled" /\ ~WriteStep
    BY <1>1, <1>3, <2>1 DEF Scheduled
  <2>3. ~Queued(r)
    BY <1>1, <2>2 DEF Served, ToServe
  <2>4. /\ Once(Tail(ready)) /\ Tail(ready) \in Seq(Jobs)
        /\ \A i \in 1..Len(Tail(ready)) : Tail(ready)[i] = ready[i + 1] /\ i + 1 \in 1..Len(ready)
    BY <1>1, <1>2, <2>1, OnceTail
  <2> HIDE DEF r
  <2>5. CASE ready' = Tail(ready)
    BY <2>2, <2>4, <2>5 DEF Queued
  <2>6. CASE Awaiting(r, Tail(ready))
    <3>1. \A i \in 1..Len(Tail(ready)) : Tail(ready)[i] # Write(r)
      BY <2>3, <2>4 DEF Queued
    <3>2. ready' = Append(Tail(ready), Write(r)) /\ coro'[r] = "waiting" /\ Write(r) \in Jobs
      BY <1>2, <2>2, <2>6, Kinds DEF Awaiting
    <3>3. Once(ready')
      BY <2>4, <3>1, <3>2, OnceAppend
    <3>4. ASSUME NEW q \in Ids, NEW i \in 1..Len(ready'), ready'[i] = Write(q)
          PROVE  Queued(q) \/ q = r
      BY <2>4, <3>2, <3>4 DEF Queued, Write
    <3> QED
      BY <2>2, <3>2, <3>3, <3>4
  <2> QED
    BY <1>10, <2>5, <2>6 DEF StartCoroutine, r
<1>11. ASSUME NEW r \in Ids, NEW c \in Conns, Opened(r, c) PROVE Goal
  <2>1. coro[r] = "opening" /\ coro'[r] = "waiting" /\ ready' = Append(ready, Write(r))
    BY <1>2, <1>11 DEF Opened, Awaiting
  <2>2. \A i \in 1..Len(ready) : ready[i] # Write(r)
    BY <1>1, <2>1 DEF Served, ToServe, Queued
  <2>3. \A q \in Ids : Write(q) = Write(r) => q = r
    BY DEF Write
  <2> QED
    BY <1>6, <2>1, <2>2, <2>3, Kinds
<1>12. CASE Post
  BY <1>8, <1>12 DEF Post
<1>13. CASE ReadStep \/ ServerStep \/ UNCHANGED vars
            \/ \E r \in Ids : GiveUp(r) \/ Discard(r) \/ OpenFails(r) \/ Timer(r) \/ Expire(r)
  BY <1>5, <1>13
  DEF ReadStep, StartLoop, Read, ReadEnd, ServerStep, Serve, ServePost, ServerCloses, Reset, vars,
      GiveUp, Discard, OpenFails, Timer, Expire
<1> HIDE DEF Goal
<1> QED
  BY <1>4, <1>7, <1>9, <1>10, <1>11, <1>12, <1>13
  DEF Next, GuiStep, BeginLogin, BeginCall, CoroutineStep

\* A queue to the server that loses its front, or everything.
LEMMA Shrinks ==
    ASSUME TypeOK, ArrivedOnce, NEW c \in Conns,
           \/ toServer' = [toServer EXCEPT ![c] = <<>>]
           \/ toServer[c] # <<>> /\ toServer' = [toServer EXCEPT ![c] = Tail(@)]
    PROVE  /\ ArrivedOnce'
           /\ \A r \in Ids : Arrived(r)' => Arrived(r)
           /\ \A r \in Ids :
                 toServer[c] # <<>> /\ r = Head(toServer[c]) /\ toServer'[c] = Tail(toServer[c])
                 => ~Arrived(r)'
<1>1. toServer \in [Conns -> Seq(Messages)]
  BY DEF TypeOK
<1>2. ASSUME NEW d \in Conns, NEW i \in 1..Len(toServer'[d])
      PROVE  IF d = c THEN i + 1 \in 1..Len(toServer[d]) /\ toServer'[d][i] = toServer[d][i + 1]
             ELSE i \in 1..Len(toServer[d]) /\ toServer'[d][i] = toServer[d][i]
  BY <1>1, <1>2
<1>3. ArrivedOnce'
  <2>1. SUFFICES ASSUME NEW d \in Conns, NEW e \in Conns,
                        NEW i \in 1..Len(toServer'[d]), NEW j \in 1..Len(toServer'[e]),
                        toServer'[d][i] = toServer'[e][j], toServer'[d][i] \in Ids
                 PROVE  d = e /\ i = j
    BY DEF ArrivedOnce
  <2>2. PICK k \in {i, i + 1} : k \in 1..Len(toServer[d]) /\ toServer'[d][i] = toServer[d][k]
                               /\ k = IF d = c THEN i + 1 ELSE i
    BY <1>2
  <2>3. PICK l \in {j, j + 1} : l \in 1..Len(toServer[e]) /\ toServer'[e][j] = toServer[e][l]
                               /\ l = IF e = c THEN j + 1 ELSE j
    BY <1>2
  <2>4. d = e /\ k = l
    <3>1. k \in 1..Len(toServer[d]) /\ l \in 1..Len(toServer[e])
      BY <2>2, <2>3
    <3>2. toServer[d][k] = toServer[e][l] /\ toServer[d][k] \in Ids
      BY <2>1, <2>2, <2>3
    <3> QED
      BY <3>1, <3>2 DEF ArrivedOnce
  <2>5. i \in Int /\ j \in Int
    OBVIOUS
  <2>6. CASE d = c
    BY <2>2, <2>3, <2>4, <2>5, <2>6
  <2>7. CASE d # c
    BY <2>2, <2>3, <2>4, <2>7
  <2> QED
    BY <2>6, <2>7
<1>4. ASSUME NEW r \in Ids, NEW d \in Conns, NEW i \in 1..Len(toServer'[d]), toServer'[d][i] = r
      PROVE  Arrived(r)
  BY <1>2, <1>4 DEF Arrived
<1>5. ASSUME toServer[c] # <<>>, Head(toServer[c]) \in Ids, toServer'[c] = Tail(toServer[c]),
             NEW d \in Conns, NEW i \in 1..Len(toServer'[d])
      PROVE  toServer'[d][i] # Head(toServer[c])
  <2>1. 1 \in 1..Len(toServer[c]) /\ Head(toServer[c]) = toServer[c][1]
    BY <1>1, <1>5
  <2>2. CASE d = c
    BY <1>2, <1>5, <2>1, <2>2 DEF ArrivedOnce
  <2>3. CASE d # c
    BY <1>2, <1>5, <2>1, <2>3 DEF ArrivedOnce
  <2> QED
    BY <2>2, <2>3
<1>6. \A r \in Ids : Arrived(r)' => Arrived(r)
  BY <1>4 DEF Arrived
<1>7. ASSUME NEW r \in Ids, toServer[c] # <<>>, r = Head(toServer[c]), toServer'[c] = Tail(toServer[c])
      PROVE  ~Arrived(r)'
  BY <1>5, <1>7 DEF Arrived
<1> QED
  BY <1>3, <1>6, <1>7 DEF Arrived

\* What the server has still to serve grows only by what is written.
LEMMA ArriveStep ==
    ASSUME IInv, [Next]_vars
    PROVE  /\ ArrivedOnce'
           /\ \A r \in Ids : Arrived(r)' =>
                 Arrived(r) \/ (WriteStep /\ Queued(r) /\ Head(ready) = Write(r))
<1>1. TypeOK /\ ArrivedOnce /\ \A r \in Ids : ~ (Queued(r) /\ Arrived(r))
  BY DEF IInv, SentOnce
<1>2. toServer \in [Conns -> Seq(Messages)] /\ ready \in Seq(Jobs)
  BY <1>1 DEF TypeOK
<1>3. CASE UNCHANGED toServer
  BY <1>1, <1>3 DEF ArrivedOnce, Arrived
<1>4. CASE WriteOpen
  <2>1. ready # <<>> /\ Head(ready).do = "write" /\ Head(ready) \in Jobs
        /\ 1 \in 1..Len(ready) /\ Head(ready) = ready[1]
    BY <1>2, <1>4 DEF WriteOpen, Next1
  <2>2. /\ writer \in Conns /\ Head(ready).id \in Messages /\ WriteStep
        /\ toServer' = [toServer EXCEPT ![writer] = Append(@, Head(ready).id)]
    BY <1>1, <1>4, <2>1, Kinds DEF WriteOpen, WriteStep, TypeOK
  <2>3. Head(ready) = Write(Head(ready).id)
    BY <2>1 DEF Jobs, Write
  <2>4. Head(ready).id \in Ids => Queued(Head(ready).id) /\ ~Arrived(Head(ready).id)
    BY <1>1, <2>1, <2>3 DEF Queued
  <2> DEFINE m == Head(ready).id
  <2>5. ASSUME NEW d \in Conns, NEW i \in 1..Len(toServer'[d])
        PROVE  \/ i \in 1..Len(toServer[d]) /\ toServer'[d][i] = toServer[d][i]
               \/ d = writer /\ i = Len(toServer[d]) + 1 /\ toServer'[d][i] = m
    BY <1>2, <2>2
  <2>6. m \in Ids => \A d \in Conns : \A i \in 1..Len(toServer[d]) : toServer[d][i] # m
    BY <2>4 DEF Arrived
  <2> HIDE DEF m
  <2>7. ArrivedOnce'
    <3>1. SUFFICES ASSUME NEW c \in Conns, NEW d \in Conns,
                          NEW i \in 1..Len(toServer'[c]), NEW j \in 1..Len(toServer'[d]),
                          toServer'[c][i] = toServer'[d][j], toServer'[c][i] \in Ids
                   PROVE  c = d /\ i = j
      BY DEF ArrivedOnce
    <3>2. CASE i \in 1..Len(toServer[c]) /\ toServer'[c][i] = toServer[c][i]
      <4>1. j \in 1..Len(toServer[d]) /\ toServer'[d][j] = toServer[d][j]
        BY <2>5, <2>6, <3>1, <3>2
      <4> QED
        BY <1>1, <3>1, <3>2, <4>1 DEF ArrivedOnce
    <3>3. CASE c = writer /\ i = Len(toServer[c]) + 1 /\ toServer'[c][i] = m
      <4>1. d = writer /\ j = Len(toServer[d]) + 1
        BY SMTT(20), <2>5, <2>6, <3>1, <3>3
      <4> QED
        BY <3>3, <4>1
    <3> QED
      BY <2>5, <3>2, <3>3
  <2>8. ASSUME NEW r \in Ids, Arrived(r)' PROVE Arrived(r) \/ r = m
    BY <2>5, <2>8 DEF Arrived
  <2> QED
    BY <2>2, <2>3, <2>4, <2>7, <2>8 DEF m
<1>5. CASE \E c \in Conns : ServePost(c) \/ ServerCloses(c) \/ Reset(c) \/ \E ok \in BOOLEAN : Serve(c, ok)
  BY <1>1, <1>5, Shrinks DEF ServePost, ServerCloses, Reset, Serve, Taken
<1>6. CASE WriteDropped \/ WriteLost \/ WriteRefused \/ UNCHANGED vars
  BY <1>3, <1>6 DEF WriteDropped, WriteLost, WriteRefused, vars, connVars
<1>7. CASE GuiStep \/ CoroutineStep \/ ReadStep
  BY <1>3, <1>7
  DEF GuiStep, BeginLogin, BeginCall, Begin, Return, GiveUp, Discard, Post, CoroutineStep,
      StartCoroutine, Opened, OpenFails, Timer, Expire, ReadStep, StartLoop, Read, ReadEnd, connVars
<1> QED
  BY <1>4, <1>5, <1>6, <1>7 DEF Next, ServerStep, WriteStep

LEMMA SentStep == ASSUME IInv, [Next]_vars PROVE SentOnce'
<1>1. QueuedOnce' /\ ArrivedOnce'
  BY QueueStep, ArriveStep
<1>2. ASSUME NEW r \in Ids, Queued(r)', Arrived(r)' PROVE FALSE
  <2>1. ~ (Queued(r) /\ Arrived(r)) /\ (coro[r] \in {"scheduled", "opening"} => ~ToServe(r))
    BY DEF IInv, SentOnce, Served
  <2> QED
    BY <1>2, <2>1, QueueStep, ArriveStep DEF ToServe
<1> QED
  BY <1>1, <1>2 DEF SentOnce

(***************************************************************************)
(* What becomes of a request.                                              *)
(***************************************************************************)
\* Nothing is sent but by a coroutine that has not sent it yet.
LEMMA ToServeStep ==
    ASSUME IInv, [Next]_vars, NEW r \in Ids, ToServe(r)'
    PROVE  ToServe(r) \/ (coro[r] \in {"scheduled", "opening"} /\ coro'[r] = "waiting")
<1>1. Queued(r)' \/ Arrived(r)'
  BY DEF ToServe
<1> QED
  BY <1>1, QueueStep, ArriveStep DEF ToServe

LEMMA BeginServed ==
    ASSUME IInv, [Next]_vars, NEW r \in Ids, NEW what, Begin(r, what) PROVE Served'
<1>1. TypeOK /\ Served
  BY DEF IInv
<1>2. coro \in [Ids -> {"none", "scheduled", "opening", "waiting", "cancelled"} \cup Finished]
      /\ verdict \in [Ids -> {"none", "ok", "bad"}]
  BY <1>1 DEF TypeOK
<1>3. /\ Fresh(r) /\ coro' = [coro EXCEPT ![r] = "scheduled"]
      /\ outcome' = [q \in Ids |-> "none"]
      /\ verdict' = [q \in Ids |-> IF Fresh(q) THEN "none" ELSE verdict[q]]
      /\ toClient' = toClient
  BY DEF Begin, connVars
<1>4. ASSUME NEW q \in Ids, ToServe(q)' PROVE ToServe(q)
  BY <1>2, <1>3, <1>4, ToServeStep, FreshFacts, <1>1
<1>5. ASSUME NEW q \in Ids, ToServe(q)' PROVE verdict'[q] = "none"
  BY <1>1, <1>3, <1>4, <1>5 DEF Served
<1>6. ASSUME NEW q \in Ids, coro'[q] \in {"scheduled", "opening", "failed"}
      PROVE  verdict'[q] = "none" /\ ~ToServe(q)'
  <2>1. CASE q = r
    BY <1>1, <1>3, <1>4, <2>1, FreshFacts
  <2>2. CASE q # r
    BY <1>1, <1>2, <1>3, <1>4, <1>6, <2>2 DEF Served
  <2> QED
    BY <2>1, <2>2
<1>7. ASSUME NEW c \in Conns, NEW i \in 1..Len(toClient'[c])
      PROVE  verdict'[toClient'[c][i].id] = Answer(toClient'[c][i].ok)
  <2>1. toClient[c][i] \in Replies
    BY <1>1, <1>3 DEF TypeOK
  <2>2. toClient[c][i].id \in Ids /\ ~Fresh(toClient[c][i].id)
    BY <1>1, <1>3, <2>1, Kinds, FreshFacts
  <2> QED
    BY <1>1, <1>3, <2>2 DEF Served
<1>8. ASSUME NEW q \in Ids, coro'[q] = "ok" PROVE verdict'[q] = "ok"
  BY <1>1, <1>2, <1>3, <1>8 DEF Served, Fresh
<1> QED
  BY <1>3, <1>5, <1>6, <1>7, <1>8 DEF Served

\* A request is served once: what is left of it is its reply.
LEMMA ServeServed ==
    ASSUME IInv, [Next]_vars, NEW c \in Conns, NEW ok \in BOOLEAN, Serve(c, ok) PROVE Served'
<1>1. TypeOK /\ Served /\ SentOnce
  BY DEF IInv
<1> DEFINE r == Head(toServer[c])
<1>2. /\ r \in Ids /\ toServer[c] # <<>> /\ toServer' = [toServer EXCEPT ![c] = Tail(@)]
      /\ toClient' = [toClient EXCEPT ![c] = Append(@, Reply(r, ok))]
      /\ verdict' = [verdict EXCEPT ![r] = Answer(ok)]
      /\ UNCHANGED <<ready, coro, outcome>>
  BY DEF Serve, Taken, guiVars
<1>3. ToServe(r) /\ Arrived(r)
  <2>1. 1 \in 1..Len(toServer[c]) /\ toServer[c][1] = r
    BY <1>1, <1>2 DEF TypeOK
  <2> QED
    BY <2>1 DEF ToServe, Arrived
<1> HIDE DEF r
<1>4. ASSUME NEW q \in Ids, ToServe(q)' PROVE ToServe(q) /\ q # r
  <2>1. Arrived(q)' => Arrived(q) /\ q # r
    BY <1>1, <1>2, Shrinks DEF SentOnce, TypeOK, r
  <2>2. Queued(q)' => Queued(q)
    BY <1>2 DEF Queued
  <2>3. ~Queued(r)
    BY <1>1, <1>2, <1>3 DEF SentOnce
  <2> QED
    BY <1>2, <1>4, <2>1, <2>2, <2>3 DEF ToServe
<1>5. verdict[r] = "none"
  BY <1>1, <1>2, <1>3 DEF Served
<1>6. coro[r] \notin {"scheduled", "opening", "failed", "ok"} /\ outcome[r] \notin {"ok", "ConnectionError"}
  BY <1>1, <1>2, <1>3, <1>5 DEF Served
<1>7. Answer(ok) # "none" /\ \A q \in Ids : q # r => verdict'[q] = verdict[q]
  BY <1>1, <1>2 DEF Answer, TypeOK
<1>8. ASSUME NEW q \in Ids, ToServe(q)' PROVE verdict'[q] = "none"
  BY <1>1, <1>4, <1>7, <1>8 DEF Served
<1>9. ASSUME NEW q \in Ids, coro'[q] \in {"scheduled", "opening", "failed"}
      PROVE  verdict'[q] = "none" /\ ~ToServe(q)'
  <2>1. q # r /\ coro[q] = coro'[q]
    BY <1>2, <1>6, <1>9
  <2> QED
    BY <1>1, <1>4, <1>7, <1>9, <2>1 DEF Served
<1>10. ASSUME NEW d \in Conns, NEW i \in 1..Len(toClient'[d])
       PROVE  verdict'[toClient'[d][i].id] = Answer(toClient'[d][i].ok)
  <2>1. toClient \in [Conns -> Seq(Replies)] /\ verdict \in [Ids -> {"none", "ok", "bad"}]
    BY <1>1 DEF TypeOK
  <2>2. CASE i \in 1..Len(toClient[d]) /\ toClient'[d][i] = toClient[d][i]
    <3>1. toClient[d][i] \in Replies
      BY <2>1, <2>2
    <3>2. verdict[toClient[d][i].id] = Answer(toClient[d][i].ok) /\ toClient[d][i].id \in Ids
      BY <1>1, <2>2, <3>1, Kinds DEF Served
    <3>3. verdict[toClient[d][i].id] # "none"
      BY <3>2 DEF Answer
    <3> QED
      BY <1>5, <1>7, <2>2, <3>2, <3>3
  <2>3. CASE toClient'[d][i] = Reply(r, ok)
    <3>1. toClient'[d][i].id = r /\ toClient'[d][i].ok = ok
      BY <2>3 DEF Reply
    <3>2. verdict'[r] = Answer(ok)
      BY <1>2, <2>1
    <3> QED
      BY <3>1, <3>2
  <2> QED
    BY <1>2, <2>1, <2>2, <2>3
<1>11. ASSUME NEW q \in Ids, coro'[q] = "ok" PROVE verdict'[q] = "ok"
  BY <1>1, <1>2, <1>6, <1>7, <1>11 DEF Served
<1>12. ASSUME NEW q \in Ids, outcome'[q] = "ok" PROVE verdict'[q] = "ok"
  BY <1>1, <1>2, <1>6, <1>7, <1>12 DEF Served
<1>13. ASSUME NEW q \in Ids, outcome'[q] = "ConnectionError"
       PROVE  verdict'[q] = "none" /\ ~ToServe(q)' /\ coro'[q] = "none"
  BY <1>1, <1>2, <1>4, <1>6, <1>7, <1>13 DEF Served
<1> QED
  BY <1>8, <1>9, <1>10, <1>11, <1>12, <1>13 DEF Served

\* Which way coroutines go, and where a good end comes from.
LEMMA CoroStep ==
    ASSUME IInv, [Next]_vars, \A r \in Ids, what \in Users \cup {Call} : ~Begin(r, what),
           NEW r \in Ids
    PROVE  /\ coro'[r] = "scheduled" => coro[r] = "scheduled"
           /\ coro'[r] = "opening" => coro[r] \in {"scheduled", "opening"}
           /\ coro'[r] = "failed" => coro[r] \in {"opening", "failed"}
           /\ coro'[r] = "ok" => coro[r] = "ok" \/ verdict[r] = "ok"
           /\ coro[r] = "none" => coro'[r] = "none"
<1> DEFINE Goal ==
           /\ coro'[r] = "scheduled" => coro[r] = "scheduled"
           /\ coro'[r] = "opening" => coro[r] \in {"scheduled", "opening"}
           /\ coro'[r] = "failed" => coro[r] \in {"opening", "failed"}
           /\ coro'[r] = "ok" => coro[r] = "ok" \/ verdict[r] = "ok"
           /\ coro[r] = "none" => coro'[r] = "none"
<1> SUFFICES Goal
  OBVIOUS
<1>1. TypeOK /\ Scheduled /\ Served
  BY DEF IInv
<1>2. /\ coro \in [Ids -> {"none", "scheduled", "opening", "waiting", "cancelled"} \cup Finished]
      /\ ready \in Seq(Jobs)
  BY <1>1 DEF TypeOK
<1>3. CASE UNCHANGED coro
  BY <1>3
<1>4. ASSUME NEW q \in Ids, NEW st, coro' = [coro EXCEPT ![q] = st],
             \/ coro[q] = "scheduled" /\ st \in {"opening", "waiting"}
             \/ coro[q] = "opening" /\ st \in {"waiting", "failed"}
             \/ coro[q] \notin {"none", "scheduled", "opening"} /\ st \in {"none", "cancelled", "no_reply"}
      PROVE  Goal
  BY <1>2, <1>4
<1>5. CASE StartCoroutine
  <2> DEFINE q == Head(ready).id
  <2>1. 1 \in 1..Len(ready) /\ ready[1].do = "start" /\ q = ready[1].id
    BY <1>2, <1>5 DEF StartCoroutine, Next1
  <2>2. q \in Ids /\ coro[q] = "scheduled"
    BY <1>1, <2>1 DEF Scheduled
  <2>3. \E st \in {"opening", "waiting"} : coro' = [coro EXCEPT ![q] = st]
    BY <1>5 DEF StartCoroutine, Awaiting
  <2> HIDE DEF q, Goal
  <2> QED
    BY <1>4, <2>2, <2>3
<1>6. CASE \E q \in Ids, c \in Conns : Opened(q, c)
  BY <1>4, <1>6 DEF Opened, Awaiting
<1>7. CASE \E q \in Ids : OpenFails(q) \/ Timer(q) \/ Expire(q) \/ Return(q) \/ Discard(q)
  BY <1>4, <1>7 DEF OpenFails, Timer, Expire, Return, Discard, Finished
<1>8. ASSUME NEW l \in Conns, Read(l) PROVE Goal
  <2> DEFINE msg == Head(toClient[loop[l]])
  <2>1. /\ loop[l] \in Conns /\ 1 \in 1..Len(toClient[loop[l]]) /\ msg = toClient[loop[l]][1]
        /\ msg \in Replies
    BY <1>1, <1>8 DEF Read, TypeOK
  <2>2. verdict[msg.id] = Answer(msg.ok) /\ msg.id \in Ids
    BY <1>1, <2>1, Kinds DEF Served
  <2>3. coro' = coro \/ (coro[msg.id] = "waiting" /\ coro' = [coro EXCEPT ![msg.id] = Answer(msg.ok)])
    BY <1>8 DEF Read, Dispatch
  <2>4. Answer(msg.ok) \in {"ok", "bad"}
    BY DEF Answer
  <2> HIDE DEF msg
  <2> QED
    BY <1>2, <2>2, <2>3, <2>4
<1>9. CASE WriteStep \/ ServerStep \/ Post \/ UNCHANGED vars
           \/ (\E q \in Ids : GiveUp(q)) \/ \E l \in Conns : StartLoop(l) \/ ReadEnd(l)
  BY <1>3, <1>9
  DEF WriteStep, WriteOpen, WriteDropped, WriteLost, WriteRefused, Written, ServerStep, Serve,
      ServePost, ServerCloses, Reset, Post, vars, GiveUp, StartLoop, ReadEnd
<1> HIDE DEF Goal
<1> QED
  BY <1>5, <1>6, <1>7, <1>8, <1>9
  DEF Next, GuiStep, BeginLogin, BeginCall, CoroutineStep, ReadStep

\* What the GUI is told comes from a coroutine that has just ended.
LEMMA OutcomeStep ==
    ASSUME IInv, [Next]_vars, \A r \in Ids, what \in Users \cup {Call} : ~Begin(r, what),
           NEW r \in Ids
    PROVE  /\ outcome'[r] = "ok" => outcome[r] = "ok" \/ coro[r] = "ok"
           /\ outcome'[r] = "ConnectionError" =>
                 outcome[r] = "ConnectionError" \/ (coro[r] = "failed" /\ coro'[r] = "none")
<1>1. TypeOK
  BY DEF IInv
<1>2. CASE UNCHANGED outcome
  BY <1>2
<1>3. ASSUME NEW q \in Ids, Return(q)
      PROVE  /\ outcome'[r] = "ok" => outcome[r] = "ok" \/ coro[r] = "ok"
             /\ outcome'[r] = "ConnectionError" =>
                   outcome[r] = "ConnectionError" \/ (coro[r] = "failed" /\ coro'[r] = "none")
  <2>1. outcome' = [outcome EXCEPT ![q] = Told(q)] /\ coro' = [coro EXCEPT ![q] = "none"]
    BY <1>3 DEF Return
  <2>2. /\ Told(q) = "ok" => coro[q] = "ok"
        /\ Told(q) = "ConnectionError" => coro[q] = "failed"
    BY DEF Told
  <2> QED
    BY <1>1, <2>1, <2>2 DEF TypeOK
<1>4. CASE \E q \in Ids : GiveUp(q)
  BY <1>1, <1>4 DEF GiveUp, TypeOK
<1>5. CASE (\E q \in Ids : Discard(q)) \/ Post \/ WriteStep \/ CoroutineStep \/ ReadStep
           \/ ServerStep \/ UNCHANGED vars
  BY <1>2, <1>5
  DEF Discard, Post, WriteStep, WriteOpen, WriteDropped, WriteLost, WriteRefused, Written,
      CoroutineStep, StartCoroutine, Opened, OpenFails, Timer, Expire, ReadStep, StartLoop, Read,
      ReadEnd, ServerStep, Serve, ServePost, ServerCloses, Reset, vars, guiVars
<1> QED
  BY <1>3, <1>4, <1>5 DEF Next, GuiStep, BeginLogin, BeginCall

\* No reply is made up: all but the server's steps leave what is on its way.
LEMMA ReplyStep ==
    ASSUME IInv, [Next]_vars, \A c \in Conns, ok \in BOOLEAN : ~Serve(c, ok),
           NEW c \in Conns, NEW i \in 1..Len(toClient'[c])
    PROVE  \E j \in 1..Len(toClient[c]) : toClient'[c][i] = toClient[c][j]
<1>1. toClient \in [Conns -> Seq(Replies)]
  BY DEF IInv, TypeOK
<1>2. CASE UNCHANGED toClient
  BY <1>2
<1>3. ASSUME NEW l \in Conns, Read(l)
      PROVE  \E j \in 1..Len(toClient[c]) : toClient'[c][i] = toClient[c][j]
  <2>1. /\ loop[l] \in Conns /\ toClient[loop[l]] # <<>>
        /\ toClient' = [toClient EXCEPT ![loop[l]] = Tail(@)]
    BY <1>3 DEF Read
  <2>2. CASE c = loop[l]
    <3>1. i + 1 \in 1..Len(toClient[c]) /\ toClient'[c][i] = toClient[c][i + 1]
      BY <1>1, <2>1, <2>2
    <3> QED
      BY <3>1
  <2>3. CASE c # loop[l]
    BY <1>1, <2>1, <2>3
  <2> QED
    BY <2>2, <2>3
<1>4. ASSUME NEW d \in Conns, Reset(d)
      PROVE  \E j \in 1..Len(toClient[c]) : toClient'[c][i] = toClient[c][j]
  <2>1. toClient' = [toClient EXCEPT ![d] = <<>>]
    BY <1>4 DEF Reset
  <2> QED
    BY <1>1, <2>1
<1>5. CASE GuiStep \/ WriteStep \/ CoroutineStep \/ UNCHANGED vars
           \/ \E l \in Conns : StartLoop(l) \/ ReadEnd(l) \/ ServePost(l) \/ ServerCloses(l)
  BY <1>2, <1>5
  DEF GuiStep, BeginLogin, BeginCall, Begin, Return, GiveUp, Discard, Post, WriteStep, WriteOpen,
      WriteDropped, WriteLost, WriteRefused, Written, CoroutineStep, StartCoroutine, Opened,
      OpenFails, Timer, Expire, StartLoop, ReadEnd, ServePost, ServerCloses, vars, connVars
<1> QED
  BY <1>3, <1>4, <1>5 DEF Next, ReadStep, ServerStep

\* Only a request that begins and the server change a verdict.
LEMMA OtherServed ==
    ASSUME IInv, [Next]_vars,
           \A r \in Ids, what \in Users \cup {Call} : ~Begin(r, what),
           \A c \in Conns, ok \in BOOLEAN : ~Serve(c, ok)
    PROVE  Served'
<1>1. TypeOK /\ Served
  BY DEF IInv
<1>2. verdict' = verdict
  BY DEF Next, GuiStep, BeginLogin, BeginCall, Return, GiveUp, Discard, Post, WriteStep,
         WriteOpen, WriteDropped, WriteLost, WriteRefused, Written, CoroutineStep, StartCoroutine,
         Opened, OpenFails, Timer, Expire, ReadStep, StartLoop, Read, ReadEnd, ServerStep,
         ServePost, ServerCloses, Reset, vars, serverVars
<1>3. ASSUME NEW r \in Ids, ToServe(r)' PROVE verdict'[r] = "none"
  BY <1>1, <1>2, <1>3, ToServeStep DEF Served
<1>4. ASSUME NEW r \in Ids, coro'[r] \in {"scheduled", "opening", "failed"}
      PROVE  verdict'[r] = "none" /\ ~ToServe(r)'
  <2>1. coro[r] \in {"scheduled", "opening", "failed"}
    BY <1>4, CoroStep
  <2> QED
    BY <1>1, <1>2, <1>4, <2>1, ToServeStep DEF Served
<1>5. ASSUME NEW c \in Conns, NEW i \in 1..Len(toClient'[c])
      PROVE  verdict'[toClient'[c][i].id] = Answer(toClient'[c][i].ok)
  BY <1>1, <1>2, <1>5, ReplyStep DEF Served
<1>6. ASSUME NEW r \in Ids, coro'[r] = "ok" PROVE verdict'[r] = "ok"
  BY <1>1, <1>2, <1>6, CoroStep DEF Served
<1>7. ASSUME NEW r \in Ids, outcome'[r] = "ok" PROVE verdict'[r] = "ok"
  BY <1>1, <1>2, <1>7, OutcomeStep DEF Served
<1>8. ASSUME NEW r \in Ids, outcome'[r] = "ConnectionError"
      PROVE  verdict'[r] = "none" /\ ~ToServe(r)' /\ coro'[r] = "none"
  <2>1. CASE outcome[r] = "ConnectionError"
    <3>1. verdict[r] = "none" /\ ~ToServe(r) /\ coro[r] = "none"
      BY <1>1, <2>1 DEF Served
    <3> QED
      BY <1>2, <3>1, CoroStep, ToServeStep
  <2>2. CASE coro[r] = "failed" /\ coro'[r] = "none"
    BY <1>1, <1>2, <2>2, ToServeStep DEF Served
  <2> QED
    BY <1>8, <2>1, <2>2, OutcomeStep
<1> QED
  BY <1>3, <1>4, <1>5, <1>6, <1>7, <1>8 DEF Served

(***************************************************************************)
(* The theorems.                                                           *)
(***************************************************************************)
LEMMA InvStep == IInv /\ [Next]_vars => IInv'
<1> SUFFICES ASSUME IInv, [Next]_vars PROVE IInv'
  OBVIOUS
<1>1. Served'
  BY BeginServed, ServeServed, OtherServed
<1> QED
  BY <1>1, TypeStep, PendingStep, ReaderStep, SentStep DEF IInv

LEMMA InvAlways == Spec => []IInv
  BY InitInv, InvStep, PTL DEF Spec

\* Every step of the request layer keeps every variable in its type.
THEOREM RequestTypes == Spec => []TypeOK
<1>1. IInv => TypeOK
  BY DEF IInv
<1> QED
  BY <1>1, InvAlways, PTL

\* However calls time out, are given up and are answered late, nothing is left
\* behind in _pending, and whoever waits can be found there (client/net.py).
THEOREM PendingAlwaysAwaited == Spec => []PendingAwaited
<1>1. IInv => PendingAwaited
  BY DEF IInv
<1> QED
  BY <1>1, InvAlways, PTL

\* However many logins connect at once and whatever their read loops do to each
\* other, the open connection that is written to is read.
THEOREM NeverDeaf == Spec => []NotDeaf
<1>1. IInv => NotDeaf
  BY DEF IInv
<1> QED
  BY <1>1, InvAlways, PTL

\* With lost writes, broken connections, abandoned logins and reused ids, a
\* request reported as done was carried out, and one reported as not connected
\* never reached the server.
THEOREM ToldTheTruth == Spec => []ToldTruth
<1>1. IInv => ToldTruth
  BY DEF IInv, Served, ToldTruth
<1> QED
  BY <1>1, InvAlways, PTL

-----------------------------------------------------------------------------
(***************************************************************************)
(* Whom the server takes the client for.                                   *)
(*                                                                         *)
(* The order of the queues decides: what an earlier login, one that was    *)
(* given up, has still to start, to write or to be served is in front of   *)
(* the login the GUI waits for, so it has had its effect when that one is  *)
(* answered.  The exception is a login that is connecting, which is in no  *)
(* queue; it overtakes.                                                    *)
(***************************************************************************)
\* No member of x is in q; every member of x in q has a y behind it.
Clear(x, q) == \A i \in 1..Len(q) : q[i] \notin x
Ahead(x, q, y) == \A i \in 1..Len(q) : q[i] \in x => \E j \in 1..Len(q) : j > i /\ q[j] = y

Logins == {q \in Ids : ask[q] # Call}

\* What could still change the user of the connection, or ask for the peers.
LoginStarts(r) == {Start(q) : q \in Logins \ {r}} \cup {Write(ListPeers)}
LoginWrites(r) == {Write(q) : q \in Logins \ {r}}

Sent == {"waiting", "cancelled", "ok", "bad", "no_reply"}

\* Other logins are written, and served, before r.
InFront(r) ==
    /\ writer # NoConn
    /\ Ahead(LoginWrites(r), ready, Write(r))
    /\ \A c \in Conns \ {writer} : Clear({r}, toServer[c])
    /\ Queued(r) \/ Ahead(Logins \ {r}, toServer[writer], r)
    /\ verdict[r] = "ok" /\ socket[writer] = "open" => who[writer] = ask[r]

\* The login the GUI is waiting for.
SigningIn(r) ==
    /\ ~logged
    /\ coro[r] = "scheduled" => Ahead(LoginStarts(r), ready, Start(r))
    /\ coro[r] \in {"opening"} \cup Sent => Clear(LoginStarts(r), ready)
    /\ coro[r] \in Sent => InFront(r)

Signing == \A r \in Logins : gui = r => SigningIn(r)

\* After it, no login is on its way to the connection.
Signed ==
    logged =>
        /\ me # NoUser /\ writer # NoConn /\ gui \notin Logins
        /\ Clear({Start(q) : q \in Logins} \cup {Write(q) : q \in Logins}, ready)
        /\ Clear(Logins, toServer[writer])
        /\ socket[writer] = "open" => who[writer] = me

\* The peers are asked for on a connection that has logged in.
Listed ==
    /\ writer # NoConn /\ socket[writer] = "open" /\ ~Clear({Write(ListPeers)}, ready) =>
          who[writer] # NoUser
    /\ \A c \in Conns : ~Clear({ListPeers}, toServer[c]) => who[c] # NoUser

\* Nothing is under way on a connection that is not open.
Quiet == \A c \in Conns : socket[c] # "open" => toServer[c] = <<>>

OpeningLogins == \A q \in Ids : coro[q] = "opening" => ask[q] # Call

LoginInv ==
    /\ IInv /\ Quiet /\ OpeningLogins
    /\ ~overtaken => Signing /\ Signed /\ Listed

LEMMA QueueTail ==
    ASSUME NEW S, NEW q \in Seq(S), q # <<>>, NEW x, NEW y
    PROVE  /\ Clear(x, q) => Clear(x, Tail(q))
           /\ Ahead(x, q, y) => Ahead(x, Tail(q), y)
<1>1. /\ Len(Tail(q)) = Len(q) - 1 /\ Len(q) \in Nat \ {0}
      /\ \A i \in 1..Len(Tail(q)) : Tail(q)[i] = q[i + 1] /\ i + 1 \in 1..Len(q)
  OBVIOUS
<1>2. Clear(x, q) => Clear(x, Tail(q))
  BY <1>1 DEF Clear
<1>3. ASSUME Ahead(x, q, y), NEW i \in 1..Len(Tail(q)), Tail(q)[i] \in x
      PROVE  \E j \in 1..Len(Tail(q)) : j > i /\ Tail(q)[j] = y
  <2>1. i + 1 \in 1..Len(q) /\ q[i + 1] \in x
    BY <1>1, <1>3
  <2>2. PICK j \in 1..Len(q) : j > i + 1 /\ q[j] = y
    BY <1>3, <2>1 DEF Ahead
  <2>3. j - 1 \in 1..Len(Tail(q)) /\ j - 1 > i /\ Tail(q)[j - 1] = q[j]
    BY <1>1, <2>2
  <2> QED
    BY <2>2, <2>3
<1> QED
  BY <1>2, <1>3 DEF Ahead

LEMMA QueueAppend ==
    ASSUME NEW S, NEW q \in Seq(S), NEW e \in S, NEW x, NEW y
    PROVE  /\ Clear(x, q) /\ e \notin x => Clear(x, Append(q, e))
           /\ Ahead(x, q, y) /\ e \notin x => Ahead(x, Append(q, e), y)
           /\ e \notin x => Ahead(x, Append(q, e), e)
<1>1. /\ Len(Append(q, e)) = Len(q) + 1 /\ Append(q, e)[Len(q) + 1] = e
      /\ \A i \in 1..Len(q) : Append(q, e)[i] = q[i]
      /\ Len(q) \in Nat
  OBVIOUS
<1>2. Clear(x, q) /\ e \notin x => Clear(x, Append(q, e))
  BY <1>1 DEF Clear
<1>3. Ahead(x, q, y) /\ e \notin x => Ahead(x, Append(q, e), y)
  BY <1>1 DEF Ahead
<1>4. e \notin x => Ahead(x, Append(q, e), e)
  BY <1>1 DEF Ahead
<1> QED
  BY <1>2, <1>3, <1>4

\* In front of nothing is nothing, and nothing is in front of the head.
LEMMA AheadOfNone ==
    ASSUME NEW q, NEW x, NEW y, Ahead(x, q, y), \A i \in 1..Len(q) : q[i] # y
    PROVE  Clear(x, q)
  BY DEF Ahead, Clear

LEMMA AheadOfHead ==
    ASSUME NEW S, NEW q \in Seq(S), q # <<>>, NEW x, Ahead(x, q, Head(q)),
           \A i \in 1..Len(q) : q[i] = Head(q) => i = 1
    PROVE  Clear(x, q)
<1>1. 1 \in 1..Len(q) /\ Len(q) \in Nat
  OBVIOUS
<1> QED
  BY <1>1 DEF Ahead, Clear

\* While nobody begins anything, what is a login stays one.
LEMMA SameLogins ==
    ASSUME UNCHANGED ask
    PROVE  /\ Logins' = Logins
           /\ \A r : LoginStarts(r)' = LoginStarts(r) /\ LoginWrites(r)' = LoginWrites(r)
<1>1. Logins' = Logins
  BY DEF Logins
<1> QED
  BY <1>1 DEF LoginStarts, LoginWrites

\* Steps that are only about a coroutine: its timers, its end, a failure to
\* connect, a reply that arrives.
LEMMA CoroOnly ==
    ASSUME LoginInv, ~overtaken,
           UNCHANGED <<gui, logged, me, ready, ask, writer, socket, toServer, serverVars>>,
           \A r \in Ids : gui = r =>
               \/ coro'[r] = coro[r] \/ coro'[r] = "failed"
               \/ coro[r] \in Sent /\ coro'[r] \in Sent
    PROVE  (Signing /\ Signed /\ Listed)'
<1>1. /\ Logins' = Logins
      /\ \A r : LoginStarts(r)' = LoginStarts(r) /\ LoginWrites(r)' = LoginWrites(r)
  BY SameLogins
<1>2. \A r \in Ids : InFront(r)' = InFront(r)
  BY <1>1 DEF InFront, Queued, serverVars
<1>3. Signing'
  <2>1. ASSUME NEW r \in Logins, gui = r, SigningIn(r) PROVE SigningIn(r)'
    <3>1. r \in Ids /\ "failed" \notin Sent \cup {"scheduled", "opening"}
          /\ "scheduled" \notin Sent /\ "opening" \notin Sent
      BY DEF Logins, Sent
    <3> QED
      BY <1>1, <1>2, <2>1, <3>1 DEF SigningIn
  <2> QED
    BY <1>1, <2>1 DEF LoginInv, Signing
<1>4. Signed'
  BY <1>1 DEF LoginInv, Signed, serverVars
<1>5. Listed'
  BY DEF LoginInv, Listed, serverVars
<1> QED
  BY <1>3, <1>4, <1>5

LEMMA CoroSteps ==
    ASSUME LoginInv, ~overtaken,
           \/ \E r \in Ids : Discard(r) \/ OpenFails(r) \/ Timer(r) \/ Expire(r)
           \/ ReadStep
    PROVE  (Signing /\ Signed /\ Listed)'
<1>1. coro \in [Ids -> {"none", "scheduled", "opening", "waiting", "cancelled"} \cup Finished]
      /\ toClient \in [Conns -> Seq(Replies)]
  BY DEF LoginInv, IInv, TypeOK
<1>2. ASSUME NEW q \in Ids, Discard(q) \/ OpenFails(q) \/ Timer(q) \/ Expire(q)
      PROVE  \A r \in Ids : gui = r =>
               \/ coro'[r] = coro[r] \/ coro'[r] = "failed"
               \/ coro[r] \in Sent /\ coro'[r] \in Sent
  BY <1>1, <1>2 DEF Discard, OpenFails, Timer, Expire, Sent
<1>3. ASSUME NEW l \in Conns, StartLoop(l) \/ Read(l) \/ ReadEnd(l)
      PROVE  \A r \in Ids : coro'[r] = coro[r] \/ (coro[r] \in Sent /\ coro'[r] \in Sent)
  <2>1. CASE StartLoop(l) \/ ReadEnd(l)
    BY <2>1 DEF StartLoop, ReadEnd
  <2>2. CASE Read(l)
    <3> DEFINE msg == Head(toClient[loop[l]])
    <3>1. coro' = coro \/ (coro[msg.id] = "waiting" /\ coro' = [coro EXCEPT ![msg.id] = Answer(msg.ok)])
      BY <2>2 DEF Read, Dispatch
    <3>2. Answer(msg.ok) \in Sent /\ "waiting" \in Sent
      BY DEF Answer, Sent
    <3> HIDE DEF msg
    <3> QED
      BY <1>1, <3>1, <3>2
  <2> QED
    BY <1>3, <2>1, <2>2
<1>4. UNCHANGED <<gui, logged, me, ready, ask, writer, socket, toServer, serverVars>>
  BY DEF Discard, OpenFails, Timer, Expire, ReadStep, StartLoop, Read, ReadEnd, guiVars, connVars
<1>5. \A r \in Ids : gui = r =>
               \/ coro'[r] = coro[r] \/ coro'[r] = "failed"
               \/ coro[r] \in Sent /\ coro'[r] \in Sent
  BY <1>2, <1>3 DEF ReadStep
<1> QED
  BY <1>4, <1>5, CoroOnly

\* The jobs are told apart by what they do and for whom.
LEMMA JobsDiffer ==
    ASSUME NEW a, NEW b
    PROVE  /\ Start(a) = Start(b) <=> a = b
           /\ Write(a) = Write(b) <=> a = b
           /\ Start(a) # Write(b)
  BY DEF Start, Write

\* Beginning a request: everything there is lies in front of it.
LEMMA BeginStep ==
    ASSUME LoginInv, ~overtaken, NEW r \in Ids, NEW what,
           Begin(r, what) /\ (\/ what = Call /\ logged /\ UNCHANGED logged
                              \/ what # Call /\ logged' = FALSE)
    PROVE  (Signing /\ Signed /\ Listed)'
<1>1. /\ ready \in Seq(Jobs) /\ ask \in [Ids -> Users \cup {Call}] /\ Start(r) \in Jobs
      /\ coro \in [Ids -> {"none", "scheduled", "opening", "waiting", "cancelled"} \cup Finished]
  BY Kinds DEF LoginInv, IInv, TypeOK
<1>2. /\ gui' = r /\ coro'[r] = "scheduled" /\ ready' = Append(ready, Start(r))
      /\ ask'[r] = what /\ \A q \in Ids \ {r} : ask'[q] \in {Call, ask[q]}
      /\ UNCHANGED <<me, writer, socket, toServer, who>>
  BY <1>1 DEF Begin, connVars
<1>3. /\ Logins' \subseteq Logins \cup {r}
      /\ r \in Logins' <=> what # Call
  BY <1>2 DEF Logins
<1>4. Signing'
  <2>1. ASSUME what # Call PROVE SigningIn(r)'
    <3>1. Start(r) \notin LoginStarts(r)'
      BY JobsDiffer DEF LoginStarts
    <3>2. Ahead(LoginStarts(r)', ready', Start(r))
      BY <1>1, <1>2, <3>1, QueueAppend
    <3>3. coro'[r] \notin {"opening"} \cup Sent /\ coro'[r] \notin Sent
      BY <1>2 DEF Sent
    <3> QED
      BY <2>1, <3>2, <3>3 DEF SigningIn
  <2> QED
    BY <1>2, <1>3, <2>1 DEF Signing
<1>5. Signed'
  <2>1. SUFFICES ASSUME what = Call, logged PROVE Signed'
    BY DEF Signed
  <2>2. Logins' \subseteq Logins \ {r} /\ gui' \notin Logins'
    BY <1>2, <1>3, <2>1 DEF Logins
  <2> DEFINE x == {Start(q) : q \in Logins} \cup {Write(q) : q \in Logins}
             y == {Start(q) : q \in Logins'} \cup {Write(q) : q \in Logins'}
  <2>3. Clear(x, ready) /\ Clear(Logins, toServer[writer])
    BY <2>1 DEF LoginInv, Signed
  <2>4. y \subseteq x /\ Start(r) \notin y
    BY <2>2, JobsDiffer
  <2> HIDE DEF x, y
  <2>5. Clear(y, ready) /\ Clear(Logins', toServer[writer])
    BY <2>2, <2>3, <2>4 DEF Clear
  <2>6. Clear(y, ready')
    BY <1>1, <1>2, <2>4, <2>5, QueueAppend
  <2> QED
    BY <1>2, <2>1, <2>2, <2>5, <2>6 DEF LoginInv, Signed, y
<1>6. Listed'
  <2>1. Start(r) \notin {Write(ListPeers)}
    BY JobsDiffer
  <2>2. Clear({Write(ListPeers)}, ready) => Clear({Write(ListPeers)}, ready')
    BY <1>1, <1>2, <2>1, QueueAppend
  <2> QED
    BY <1>2, <2>2 DEF LoginInv, Listed
<1> QED
  BY <1>4, <1>5, <1>6

\* Where there is no one to be told about it, only Signed and Listed are left.
LEMMA PostStep ==
    ASSUME LoginInv, ~overtaken, Post
    PROVE  (Signing /\ Signed /\ Listed)'
<1>1. /\ ready \in Seq(Jobs) /\ Write(NoId) \in Jobs /\ NoId \notin Ids /\ NoId # ListPeers
  BY Kinds, ClientAssumption DEF LoginInv, IInv, TypeOK
<1>2. /\ ready' = Append(ready, Write(NoId)) /\ gui = NoId
      /\ UNCHANGED <<gui, logged, me, ask, writer, socket, toServer, who>>
  BY DEF Post, guiVars, connVars, serverVars
<1>3. Logins' = Logins /\ Logins \subseteq Ids
  BY <1>2, SameLogins DEF Logins
<1>4. Signing'
  BY <1>1, <1>2, <1>3 DEF Signing
<1>5. Signed'
  <2> DEFINE x == {Start(q) : q \in Logins} \cup {Write(q) : q \in Logins}
  <2>1. Write(NoId) \notin x
    BY <1>1, <1>3, JobsDiffer
  <2> HIDE DEF x
  <2>2. Clear(x, ready) => Clear(x, ready')
    BY <1>1, <1>2, <2>1, QueueAppend
  <2> QED
    BY <1>2, <1>3, <2>2 DEF LoginInv, Signed, x
<1>6. Listed'
  <2>1. Write(NoId) \notin {Write(ListPeers)}
    BY <1>1, JobsDiffer
  <2>2. Clear({Write(ListPeers)}, ready) => Clear({Write(ListPeers)}, ready')
    BY <1>1, <1>2, <2>1, QueueAppend
  <2> QED
    BY <1>2, <2>2 DEF LoginInv, Listed
<1> QED
  BY <1>4, <1>5, <1>6

\* Giving up leaves the login in the queues, where the next one finds it.
LEMMA GiveUpStep ==
    ASSUME LoginInv, ~overtaken, NEW r \in Ids, GiveUp(r)
    PROVE  (Signing /\ Signed /\ Listed)'
<1>1. gui' = NoId /\ UNCHANGED <<logged, me, ready, ask, writer, socket, toServer, who>>
  BY DEF GiveUp, connVars, serverVars
<1>2. Logins' = Logins /\ Logins \subseteq Ids /\ NoId \notin Ids
  BY <1>1, SameLogins, ClientAssumption DEF Logins
<1> QED
  BY <1>1, <1>2 DEF LoginInv, Signing, Signed, Listed

\* A login that has succeeded has been served, and everything in front of it.
LEMMA ReturnStep ==
    ASSUME LoginInv, ~overtaken, NEW r \in Ids, Return(r)
    PROVE  (Signing /\ Signed /\ Listed)'
<1>1. /\ ready \in Seq(Jobs) /\ Write(ListPeers) \in Jobs /\ ListPeers \notin Ids
      /\ ask \in [Ids -> Users \cup {Call}] /\ NoId \notin Ids /\ NoUser \notin Users
      /\ writer \in Conns \cup {NoConn} /\ toServer \in [Conns -> Seq(Messages)]
  BY Kinds, ClientAssumption DEF LoginInv, IInv, TypeOK
<1>2. /\ gui = r /\ gui' = NoId
      /\ UNCHANGED <<ask, writer, socket, toServer, who>>
  BY DEF Return, connVars, serverVars
<1>3. Logins' = Logins /\ Logins \subseteq Ids
  BY <1>2, SameLogins DEF Logins
<1>4. Signing'
  BY <1>1, <1>2, <1>3 DEF Signing
<1>5. CASE ask[r] # Call /\ coro[r] = "ok"
  <2>1. /\ logged' = TRUE /\ me' = ask[r] /\ ready' = Append(ready, Write(ListPeers))
        /\ r \in Logins
    BY <1>5 DEF Return, AfterLogin, Logins
  <2>2. SigningIn(r) /\ verdict[r] = "ok"
    BY <1>2, <1>5, <2>1 DEF LoginInv, Signing, IInv, Served
  <2>3. InFront(r) /\ Clear(LoginStarts(r), ready)
    BY <1>5, <2>2 DEF SigningIn, Sent
  <2>4. ~Queued(r) /\ ~Arrived(r)
    BY <2>2 DEF LoginInv, IInv, Served, ToServe
  <2>5. Clear(LoginWrites(r), ready)
    BY <2>3, <2>4, AheadOfNone DEF InFront, Queued
  <2>6. writer \in Conns /\ \A i \in 1..Len(toServer[writer]) : toServer[writer][i] # r
    BY <1>1, <2>3, <2>4 DEF InFront, Arrived
  <2>7. Clear(Logins, toServer[writer])
    <3>1. Clear(Logins \ {r}, toServer[writer])
      BY <2>3, <2>4, <2>6, AheadOfNone DEF InFront
    <3> QED
      BY <2>6, <3>1 DEF Clear
  <2> DEFINE x == {Start(q) : q \in Logins} \cup {Write(q) : q \in Logins}
  <2>8. Clear(x, ready)
    <3>1. SUFFICES ASSUME NEW i \in 1..Len(ready), NEW q \in Logins,
                          ready[i] = Start(q) \/ ready[i] = Write(q)
                   PROVE  FALSE
      BY DEF Clear
    <3>2. CASE q = r /\ ready[i] = Start(q)
      BY <1>5, <3>2 DEF LoginInv, IInv, Scheduled, Start
    <3>3. CASE q = r /\ ready[i] = Write(q)
      BY <2>4, <3>3 DEF Queued
    <3>4. CASE q # r
      BY <2>3, <2>5, <3>1, <3>4 DEF Clear, LoginStarts, LoginWrites
    <3> QED
      BY <3>1, <3>2, <3>3, <3>4
  <2>9. Write(ListPeers) \notin x
    BY <1>1, <1>3, JobsDiffer
  <2> HIDE DEF x
  <2>10. Clear(x, ready')
    BY <1>1, <2>1, <2>8, <2>9, QueueAppend
  <2>11. ask[r] # NoUser
    BY <1>1, <1>5
  <2>12. Signed'
    BY <1>1, <1>2, <1>3, <2>1, <2>3, <2>2, <2>7, <2>10, <2>11 DEF Signed, InFront, x
  <2>13. Listed'
    BY <1>2, <2>2, <2>3, <2>11 DEF LoginInv, Listed, InFront
  <2> QED
    BY <1>4, <2>12, <2>13
<1>6. CASE ~ (ask[r] # Call /\ coro[r] = "ok")
  <2>1. UNCHANGED <<logged, me, ready>>
    BY <1>6 DEF Return, AfterLogin
  <2> QED
    BY <1>1, <1>2, <1>3, <1>4, <2>1 DEF LoginInv, Signed, Listed
<1> QED
  BY <1>5, <1>6

\* The first step of a coroutine takes what is first in the queue.
LEMMA StartStep ==
    ASSUME LoginInv, ~overtaken, StartCoroutine
    PROVE  (Signing /\ Signed /\ Listed)'
<1> DEFINE q == Head(ready).id
<1>1. /\ ready \in Seq(Jobs) /\ ask \in [Ids -> Users \cup {Call}]
      /\ coro \in [Ids -> {"none", "scheduled", "opening", "waiting", "cancelled"} \cup Finished]
      /\ Logins \subseteq Ids /\ ListPeers \notin Ids
  BY ClientAssumption DEF LoginInv, IInv, TypeOK, Logins
<1>2. /\ ready # <<>> /\ Head(ready) = ready[1] /\ 1 \in 1..Len(ready)
      /\ Head(ready) = Start(q) /\ q \in Ids /\ coro[q] = "scheduled"
      /\ Tail(ready) \in Seq(Jobs) /\ Write(q) \in Jobs
  <2>1. ready # <<>> /\ Head(ready) \in Jobs /\ Head(ready).do = "start"
        /\ Head(ready) = ready[1] /\ 1 \in 1..Len(ready) /\ Tail(ready) \in Seq(Jobs)
    BY <1>1 DEF StartCoroutine, Next1
  <2> QED
    BY <2>1, Kinds DEF LoginInv, IInv, Scheduled, Jobs, Start
<1>3. /\ UNCHANGED <<gui, logged, me, ask, writer, socket, toServer, serverVars>>
      /\ \/ ask[q] # Call /\ coro' = [coro EXCEPT ![q] = "opening"] /\ ready' = Tail(ready)
         \/ /\ coro' = [coro EXCEPT ![q] = "waiting"] /\ ready' = Append(Tail(ready), Write(q))
            /\ ask[q] # Call => writer # NoConn
  BY DEF StartCoroutine, Awaiting, Unusable, guiVars, connVars
<1> HIDE DEF q
<1>4. /\ Logins' = Logins
      /\ \A r : LoginStarts(r)' = LoginStarts(r) /\ LoginWrites(r)' = LoginWrites(r)
  BY <1>3, SameLogins
<1>5. ASSUME NEW x, Clear(x, ready), Write(q) \notin x PROVE Clear(x, ready')
  <2>1. Clear(x, Tail(ready))
    BY <1>1, <1>2, <1>5, QueueTail
  <2>2. Clear(x, Append(Tail(ready), Write(q)))
    BY <1>2, <1>5, <2>1, QueueAppend
  <2> QED
    BY <1>3, <2>1, <2>2
<1>6. ASSUME NEW x, NEW y, Ahead(x, ready, y), Write(q) \notin x PROVE Ahead(x, ready', y)
  <2>1. Ahead(x, Tail(ready), y)
    BY <1>1, <1>2, <1>6, QueueTail
  <2>2. Ahead(x, Append(Tail(ready), Write(q)), y)
    BY <1>2, <1>6, <2>1, QueueAppend
  <2> QED
    BY <1>3, <2>1, <2>2
<1>7. \A r \in Ids : Write(q) \notin LoginStarts(r) /\ Write(q) \notin {Write(ListPeers)}
  BY <1>1, <1>2, JobsDiffer DEF LoginStarts
<1>8. Signing'
  <2>1. SUFFICES ASSUME NEW r \in Logins, gui = r, SigningIn(r) PROVE SigningIn(r)'
    BY <1>3, <1>4 DEF LoginInv, Signing
  <2>2. CASE q = r
    <3>1. Ahead(LoginStarts(r), ready, Start(r))
      BY <1>2, <2>1, <2>2 DEF SigningIn
    <3>2. \A i \in 1..Len(ready) : ready[i] = Head(ready) => i = 1
      BY <1>2 DEF LoginInv, IInv, SentOnce, QueuedOnce, Once, Start
    <3>3. Clear(LoginStarts(r), ready)
      BY <1>1, <1>2, <2>2, <3>1, <3>2, AheadOfHead
    <3>4. Clear(LoginStarts(r), ready')
      BY <1>1, <1>5, <1>7, <3>3
    <3>5. coro'[r] \in {"opening", "waiting"}
      BY <1>1, <1>2, <1>3, <2>2
    <3>6. CASE coro'[r] = "opening"
      BY <1>3, <1>4, <2>1, <3>4, <3>6 DEF SigningIn, Sent
    <3>7. CASE coro'[r] = "waiting"
      <4>1. ready' = Append(Tail(ready), Write(r)) /\ writer # NoConn
        BY <1>1, <1>2, <1>3, <2>1, <2>2, <3>7 DEF Logins
      <4>2. Write(r) \notin LoginWrites(r)
        BY JobsDiffer DEF LoginWrites
      <4>3. Ahead(LoginWrites(r), ready', Write(r))
        BY <1>2, <2>2, <4>1, <4>2, QueueAppend
      <4>4. ~Arrived(r) /\ verdict[r] = "none"
        BY <1>2, <2>2 DEF LoginInv, IInv, Served, ToServe
      <4>5. \A c \in Conns : Clear({r}, toServer[c])
        BY <4>4 DEF Arrived, Clear
      <4>6. Queued(r)'
        <5>1. Len(Append(Tail(ready), Write(r))) \in 1..Len(Append(Tail(ready), Write(r)))
              /\ Append(Tail(ready), Write(r))[Len(Append(Tail(ready), Write(r)))] = Write(r)
          BY <1>2, <2>2
        <5> QED
          BY <4>1, <5>1 DEF Queued
      <4>7. InFront(r)'
        BY <1>3, <1>4, <4>1, <4>3, <4>4, <4>5, <4>6 DEF InFront, serverVars
      <4> QED
        BY <1>3, <1>4, <2>1, <3>4, <3>7, <4>7 DEF SigningIn, Sent
    <3> QED
      BY <3>5, <3>6, <3>7
  <2>3. CASE q # r
    <3>1. coro'[r] = coro[r] /\ r \in Ids
      BY <1>1, <1>2, <1>3, <2>1, <2>3
    <3>2. coro[r] = "scheduled" => Ahead(LoginStarts(r), ready', Start(r))
      BY <1>6, <1>7, <2>1, <3>1 DEF SigningIn
    <3>3. coro[r] \in {"opening"} \cup Sent => Clear(LoginStarts(r), ready')
      BY <1>5, <1>7, <2>1, <3>1 DEF SigningIn
    <3>4. ASSUME coro[r] \in Sent PROVE InFront(r)'
      <4>1. InFront(r) /\ Clear(LoginStarts(r), ready)
        BY <2>1, <3>4 DEF SigningIn
      <4>2. q \notin Logins
        BY <1>2, <2>3, <4>1 DEF Clear, LoginStarts
      <4>3. Write(q) \notin LoginWrites(r)
        BY <4>2, JobsDiffer DEF LoginWrites
      <4>4. Ahead(LoginWrites(r), ready', Write(r))
        BY <1>6, <4>1, <4>3 DEF InFront
      <4>5. Queued(r) => Queued(r)'
        <5>1. SUFFICES ASSUME NEW i \in 1..Len(ready), ready[i] = Write(r) PROVE Queued(r)'
          BY DEF Queued
        <5>2. i # 1
          BY <1>2, <5>1, JobsDiffer
        <5>3. i - 1 \in 1..Len(Tail(ready)) /\ Tail(ready)[i - 1] = Write(r)
          BY <1>1, <1>2, <5>1, <5>2
        <5>4. i - 1 \in 1..Len(ready') /\ ready'[i - 1] = Write(r)
          BY <1>2, <1>3, <5>3
        <5> QED
          BY <5>4 DEF Queued
      <4> QED
        BY <1>3, <1>4, <4>1, <4>4, <4>5 DEF InFront, serverVars
    <3> QED
      BY <1>3, <1>4, <2>1, <3>1, <3>2, <3>3, <3>4 DEF SigningIn
  <2> QED
    BY <2>2, <2>3
<1>9. Signed'
  <2>1. SUFFICES ASSUME logged PROVE Signed'
    BY <1>3 DEF Signed
  <2> DEFINE x == {Start(p) : p \in Logins} \cup {Write(p) : p \in Logins}
  <2>2. Clear(x, ready)
    BY <2>1 DEF LoginInv, Signed
  <2>3. q \notin Logins
    BY <1>2, <2>2 DEF Clear
  <2>4. Write(q) \notin x
    BY <2>3, JobsDiffer
  <2> HIDE DEF x
  <2>5. Clear(x, ready')
    BY <1>5, <2>2, <2>4
  <2> QED
    BY <1>3, <1>4, <2>5 DEF LoginInv, Signed, x, serverVars
<1>10. Listed'
  BY <1>2, <1>3, <1>5, <1>7 DEF LoginInv, Listed, serverVars
<1> QED
  BY <1>8, <1>9, <1>10

\* Only the login the GUI waits for may connect without overtaking: it finds
\* the queue free of others.
LEMMA OpenedStep ==
    ASSUME LoginInv, ~overtaken, NEW r \in Ids, NEW c \in Conns, Opened(r, c), gui = r
    PROVE  (Signing /\ Signed /\ Listed)'
<1>1. /\ ready \in Seq(Jobs) /\ Write(r) \in Jobs /\ NoConn \notin Conns /\ ListPeers \notin Ids
      /\ coro \in [Ids -> {"none", "scheduled", "opening", "waiting", "cancelled"} \cup Finished]
  BY Kinds, ClientAssumption DEF LoginInv, IInv, TypeOK
<1>2. /\ coro[r] = "opening" /\ coro'[r] = "waiting" /\ ready' = Append(ready, Write(r))
      /\ writer' = c
      /\ UNCHANGED <<gui, logged, me, ask, toServer, who, verdict>>
  BY <1>1 DEF Opened, Awaiting, guiVars, serverVars
<1>3. /\ Logins' = Logins /\ r \in Logins
      /\ \A p : LoginStarts(p)' = LoginStarts(p) /\ LoginWrites(p)' = LoginWrites(p)
  BY <1>2, SameLogins DEF LoginInv, OpeningLogins, Logins
<1>4. SigningIn(r) /\ ~logged /\ Clear(LoginStarts(r), ready)
  BY <1>2, <1>3 DEF LoginInv, Signing, SigningIn
<1>5. Write(r) \notin LoginStarts(r) /\ Write(r) \notin LoginWrites(r)
  BY <1>1, JobsDiffer DEF LoginStarts, LoginWrites
<1>6. Clear(LoginStarts(r), ready') /\ Ahead(LoginWrites(r), ready', Write(r))
  BY <1>1, <1>2, <1>4, <1>5, QueueAppend
<1>7. ~Arrived(r) /\ verdict[r] = "none"
  BY <1>2 DEF LoginInv, IInv, Served, ToServe
<1>8. \A d \in Conns : Clear({r}, toServer[d])
  BY <1>7 DEF Arrived, Clear
<1>9. Queued(r)'
  <2>1. Len(ready) + 1 \in 1..Len(ready') /\ ready'[Len(ready) + 1] = Write(r)
    BY <1>1, <1>2
  <2> QED
    BY <2>1 DEF Queued
<1>10. InFront(r)'
  BY <1>1, <1>2, <1>3, <1>6, <1>7, <1>8, <1>9 DEF InFront
<1>11. Signing'
  BY <1>2, <1>3, <1>4, <1>6, <1>10 DEF Signing, SigningIn, Sent
<1>12. Signed'
  BY <1>2, <1>4 DEF Signed
<1>13. Listed'
  <2>1. Clear({Write(ListPeers)}, ready')
    BY <1>6 DEF Clear, LoginStarts
  <2> QED
    BY <1>2, <2>1 DEF LoginInv, Listed
<1> QED
  BY <1>11, <1>12, <1>13

\* A write moves the first message to the end of what the server has to serve,
\* or it is lost with a connection on which nothing is under way.
LEMMA WriteKeeps ==
    ASSUME LoginInv, ~overtaken, WriteStep
    PROVE  (Signing /\ Signed /\ Listed)'
<1> DEFINE m == Head(ready).id
<1>1. /\ ready \in Seq(Jobs) /\ toServer \in [Conns -> Seq(Messages)]
      /\ writer \in Conns \cup {NoConn} /\ NoConn \notin Conns
      /\ socket \in [Conns -> {"unused", "open", "eof", "probed", "closing"}]
      /\ ListPeers \notin Ids
  BY ClientAssumption DEF LoginInv, IInv, TypeOK
<1>2. /\ ready # <<>> /\ ready' = Tail(ready)
      /\ 1 \in 1..Len(ready) /\ ready[1] = Head(ready) /\ Head(ready) = Write(m) /\ m \in Messages
      /\ UNCHANGED <<gui, logged, me, ask, coro, writer, who, verdict>>
  <2>1. /\ ready # <<>> /\ Head(ready).do = "write" /\ ready' = Tail(ready)
        /\ UNCHANGED <<gui, logged, me, ask, coro, writer, who, verdict>>
    BY DEF WriteStep, WriteOpen, WriteDropped, WriteLost, WriteRefused, Next1, Written, guiVars, serverVars
  <2>2. Head(ready) \in Jobs /\ 1 \in 1..Len(ready) /\ ready[1] = Head(ready)
    BY <1>1, <2>1
  <2> QED
    BY <2>1, <2>2, Kinds DEF Jobs, Write
<1>3. \/ /\ writer \in Conns /\ socket[writer] = "open" /\ UNCHANGED socket
         /\ toServer' = [toServer EXCEPT ![writer] = Append(@, m)]
      \/ /\ UNCHANGED toServer
         /\ writer \in Conns => socket[writer] # "open" /\ socket'[writer] # "open"
  BY <1>1, <1>2 DEF WriteStep, WriteOpen, WriteDropped, WriteLost, WriteRefused, Unusable
<1> HIDE DEF m
<1>4. /\ Logins' = Logins /\ Logins \subseteq Ids
      /\ \A p : LoginStarts(p)' = LoginStarts(p) /\ LoginWrites(p)' = LoginWrites(p)
  BY <1>2, SameLogins DEF Logins
<1>5. \A x, y : /\ Clear(x, ready) => Clear(x, ready')
                /\ Ahead(x, ready, y) => Ahead(x, ready', y)
  BY <1>1, <1>2, QueueTail
<1>6. writer \in Conns /\ socket[writer] # "open" => toServer[writer] = <<>>
  BY DEF LoginInv, Quiet
<1>7. Signing'
  <2>1. SUFFICES ASSUME NEW r \in Logins, gui = r, SigningIn(r), coro[r] \in Sent PROVE InFront(r)'
    BY <1>2, <1>4, <1>5 DEF LoginInv, Signing, SigningIn
  <2>2. InFront(r) /\ writer \in Conns /\ r \in Ids
    BY <1>1, <1>4, <2>1 DEF SigningIn, InFront
  <2>3. Ahead(LoginWrites(r), ready', Write(r))
    BY <1>5, <2>2 DEF InFront
  <2>4. \A d \in Conns \ {writer} : Clear({r}, toServer'[d])
    <3>1. \A d \in Conns \ {writer} : toServer'[d] = toServer[d]
      BY <1>1, <1>3
    <3> QED
      BY <2>2, <3>1 DEF InFront
  <2>5. Queued(r)' \/ Ahead(Logins \ {r}, toServer'[writer], r)
    <3>1. CASE m = r
      <4>1. CASE toServer' = toServer /\ socket[writer] # "open"
        BY <1>6, <2>2, <4>1 DEF Ahead
      <4>2. CASE toServer' = [toServer EXCEPT ![writer] = Append(@, m)]
        <5>1. toServer'[writer] = Append(toServer[writer], r) /\ toServer[writer] \in Seq(Messages)
          BY <1>1, <2>2, <3>1, <4>2
        <5>2. r \notin Logins \ {r} /\ r \in Messages
          BY <1>2, <3>1
        <5> QED
          BY <5>1, <5>2, QueueAppend
      <4> QED
        BY <1>3, <2>2, <4>1, <4>2
    <3>2. CASE m # r /\ Queued(r)
      <4>1. PICK i \in 1..Len(ready) : ready[i] = Write(r)
        BY <3>2 DEF Queued
      <4>2. i # 1
        BY <1>2, <3>2, <4>1, JobsDiffer
      <4>3. i - 1 \in 1..Len(ready') /\ ready'[i - 1] = Write(r)
        BY <1>1, <1>2, <4>1, <4>2
      <4> QED
        BY <4>3 DEF Queued
    <3>3. CASE m # r /\ ~Queued(r)
      <4>1. Clear(LoginWrites(r), ready)
        BY <2>2, <3>3, AheadOfNone DEF InFront, Queued
      <4>2. m \notin Logins \ {r}
        BY <1>2, <4>1 DEF Clear, LoginWrites
      <4>3. Ahead(Logins \ {r}, toServer[writer], r) /\ toServer[writer] \in Seq(Messages)
        BY <1>1, <2>2, <3>3 DEF InFront
      <4>4. toServer'[writer] = toServer[writer] \/ toServer'[writer] = Append(toServer[writer], m)
        BY <1>1, <1>3, <2>2
      <4> QED
        BY <1>2, <4>2, <4>3, <4>4, QueueAppend
    <3> QED
      BY <3>1, <3>2, <3>3
  <2>6. verdict'[r] = "ok" /\ socket'[writer] = "open" => who'[writer] = ask[r]
    BY <1>2, <1>3, <2>2 DEF InFront
  <2> QED
    BY <1>2, <1>4, <2>2, <2>3, <2>4, <2>5, <2>6 DEF InFront
<1>8. Signed'
  <2>1. SUFFICES ASSUME logged PROVE Signed'
    BY <1>2 DEF Signed
  <2> DEFINE x == {Start(p) : p \in Logins} \cup {Write(p) : p \in Logins}
  <2>2. Clear(x, ready) /\ Clear(Logins, toServer[writer]) /\ writer \in Conns
    BY <1>1, <2>1 DEF LoginInv, Signed
  <2>3. m \notin Logins
    BY <1>2, <2>2 DEF Clear
  <2> HIDE DEF x
  <2>4. Clear(x, ready')
    BY <1>5, <2>2
  <2>5. Clear(Logins, toServer'[writer])
    <3>1. toServer'[writer] = toServer[writer] \/ toServer'[writer] = Append(toServer[writer], m)
      BY <1>1, <1>3, <2>2
    <3>2. toServer[writer] \in Seq(Messages)
      BY <1>1, <2>2
    <3> QED
      BY <1>2, <2>2, <2>3, <3>1, <3>2, QueueAppend
  <2>6. socket'[writer] = "open" => who'[writer] = me
    BY <1>2, <1>3, <2>1, <2>2 DEF LoginInv, Signed
  <2> QED
    BY <1>2, <1>4, <2>1, <2>4, <2>5, <2>6 DEF LoginInv, Signed, x
<1>9. Listed'
  <2>1. writer # NoConn /\ socket'[writer] = "open" => writer \in Conns /\ socket[writer] = "open"
    BY <1>1, <1>3
  <2>2. ASSUME NEW d \in Conns, ~Clear({ListPeers}, toServer'[d]) PROVE who[d] # NoUser
    <3>1. CASE toServer'[d] = toServer[d]
      BY <2>2, <3>1 DEF LoginInv, Listed
    <3>2. CASE d = writer /\ socket[writer] = "open" /\ toServer'[d] = Append(toServer[d], m)
      <4>1. CASE m = ListPeers
        <5>1. ~Clear({Write(ListPeers)}, ready)
          BY <1>2, <4>1 DEF Clear
        <5> QED
          BY <1>1, <3>2, <5>1 DEF LoginInv, Listed
      <4>2. CASE m # ListPeers
        <5>1. ~Clear({ListPeers}, toServer[d])
          <6>1. toServer[d] \in Seq(Messages) /\ m \notin {ListPeers}
            BY <1>1, <4>2
          <6>2. Clear({ListPeers}, toServer[d]) => Clear({ListPeers}, Append(toServer[d], m))
            BY <1>2, <6>1, QueueAppend
          <6> QED
            BY <2>2, <3>2, <6>2
        <5> QED
          BY <5>1 DEF LoginInv, Listed
      <4> QED
        BY <4>1, <4>2
    <3> QED
      BY <1>1, <1>3, <3>1, <3>2
  <2> QED
    BY <1>2, <1>5, <2>1, <2>2 DEF LoginInv, Listed
<1> QED
  BY <1>7, <1>8, <1>9

\* Serving takes what is first; closing empties the queue of the connection.
LEMMA ServerKeeps ==
    ASSUME LoginInv, ~overtaken, ServerStep
    PROVE  (Signing /\ Signed /\ Listed)'
<1>1. PICK c \in Conns : ServePost(c) \/ ServerCloses(c) \/ Reset(c) \/ \E ok \in BOOLEAN : Serve(c, ok)
  BY DEF ServerStep
<1>2. /\ toServer \in [Conns -> Seq(Messages)] /\ who \in [Conns -> Users \cup {NoUser}]
      /\ writer \in Conns \cup {NoConn} /\ NoConn \notin Conns
      /\ socket \in [Conns -> {"unused", "open", "eof", "probed", "closing"}]
      /\ verdict \in [Ids -> {"none", "ok", "bad"}] /\ ask \in [Ids -> Users \cup {Call}]
      /\ ListPeers \notin Ids /\ NoUser \notin Users
  BY ClientAssumption DEF LoginInv, IInv, TypeOK
<1>3. /\ UNCHANGED <<gui, logged, me, ask, coro, ready, writer>>
      /\ \A d \in Conns \ {c} : toServer'[d] = toServer[d] /\ socket'[d] = socket[d] /\ who'[d] = who[d]
  BY <1>1, <1>2 DEF ServePost, ServerCloses, Reset, Serve, Taken, guiVars, serverVars
<1>4. /\ Logins' = Logins /\ Logins \subseteq Ids
      /\ \A p : LoginStarts(p)' = LoginStarts(p) /\ LoginWrites(p)' = LoginWrites(p)
  BY <1>3, SameLogins DEF Logins
<1>5. \/ toServer'[c] = <<>> /\ socket'[c] # "open" /\ verdict' = verdict
      \/ /\ toServer[c] # <<>> /\ Head(toServer[c]) \notin Ids /\ toServer'[c] = Tail(toServer[c])
         /\ UNCHANGED <<socket, who, verdict>>
      \/ /\ toServer[c] # <<>> /\ Head(toServer[c]) \in Ids /\ toServer'[c] = Tail(toServer[c])
         /\ UNCHANGED socket
         /\ \E ok \in BOOLEAN :
              /\ verdict' = [verdict EXCEPT ![Head(toServer[c])] = Answer(ok)]
              /\ who' = [who EXCEPT ![c] = IF ok /\ ask[Head(toServer[c])] # Call
                                           THEN ask[Head(toServer[c])] ELSE @]
  BY <1>1, <1>2 DEF ServePost, ServerCloses, Reset, Serve, Taken, Bound, serverVars
<1>6. \A x, y, d : d \in Conns => /\ Clear(x, toServer[d]) => Clear(x, toServer'[d])
                                  /\ Ahead(x, toServer[d], y) => Ahead(x, toServer'[d], y)
  <2>1. \A x, y : Clear(x, <<>>) /\ Ahead(x, <<>>, y)
    BY DEF Clear, Ahead
  <2>2. toServer[c] # <<>> =>
           \A x, y : /\ Clear(x, toServer[c]) => Clear(x, Tail(toServer[c]))
                     /\ Ahead(x, toServer[c], y) => Ahead(x, Tail(toServer[c]), y)
    BY <1>2, QueueTail
  <2> QED
    BY <1>3, <1>5, <2>1, <2>2
<1>7. Signing'
  <2>1. SUFFICES ASSUME NEW r \in Logins, gui = r, SigningIn(r), coro[r] \in Sent PROVE InFront(r)'
    BY <1>3, <1>4 DEF LoginInv, Signing, SigningIn
  <2>2. InFront(r) /\ writer \in Conns /\ r \in Ids /\ ask[r] # Call
    BY <1>2, <1>4, <2>1 DEF SigningIn, InFront, Logins
  <2>3. Queued(r)' = Queued(r)
    BY <1>3 DEF Queued
  <2>4. ASSUME verdict'[r] = "ok", socket'[writer] = "open" PROVE who'[writer] = ask[r]
    <3>1. CASE c # writer
      <4>1. Clear({r}, toServer[c]) /\ socket[writer] = "open" /\ who'[writer] = who[writer]
        BY <1>3, <2>2, <2>4, <3>1 DEF InFront
      <4>2. toServer[c] # <<>> => Head(toServer[c]) # r
        BY <1>2, <4>1 DEF Clear
      <4>3. verdict[r] = "ok"
        BY <1>2, <1>5, <2>2, <2>4, <4>2
      <4> QED
        BY <2>2, <4>1, <4>3 DEF InFront
    <3>2. CASE c = writer /\ toServer[c] # <<>> /\ Head(toServer[c]) = r
      <4>1. PICK ok \in BOOLEAN :
              /\ verdict' = [verdict EXCEPT ![r] = Answer(ok)]
              /\ who' = [who EXCEPT ![c] = IF ok /\ ask[r] # Call THEN ask[r] ELSE @]
        BY <1>5, <2>2, <2>4, <3>2
      <4>2. verdict'[r] = Answer(ok) /\ Answer(ok) = IF ok THEN "ok" ELSE "bad"
        BY <1>2, <2>2, <4>1 DEF Answer
      <4> QED
        BY <1>2, <2>2, <2>4, <3>2, <4>1, <4>2
    <3>3. CASE c = writer /\ ~ (toServer[c] # <<>> /\ Head(toServer[c]) = r)
      <4>1. verdict[r] = "ok"
        BY <1>2, <1>5, <2>2, <2>4, <3>3
      <4>2. ~Queued(r) /\ ~Arrived(r)
        BY <2>2, <4>1 DEF LoginInv, IInv, Served, ToServe
      <4>3. Clear(Logins \ {r}, toServer[c])
        BY <2>2, <3>3, <4>2, AheadOfNone DEF InFront, Arrived
      <4>4. toServer[c] # <<>> => Head(toServer[c]) \notin Logins
        BY <1>2, <3>3, <4>3 DEF Clear
      <4>5. toServer[c] # <<>> /\ Head(toServer[c]) \in Ids => ask[Head(toServer[c])] = Call
        BY <4>4 DEF Logins
      <4>6. who'[c] = who[c] /\ socket[c] = "open"
        BY <1>2, <1>5, <2>4, <3>3, <4>5
      <4> QED
        BY <2>2, <3>3, <4>1, <4>6 DEF InFront
    <3> QED
      BY <3>1, <3>2, <3>3
  <2> QED
    BY <1>3, <1>4, <1>6, <2>2, <2>3, <2>4 DEF InFront
<1>8. Signed'
  <2>1. SUFFICES ASSUME logged PROVE Signed'
    BY <1>3 DEF Signed
  <2>2. Clear(Logins, toServer[writer]) /\ writer \in Conns
    BY <1>2, <2>1 DEF LoginInv, Signed
  <2>3. ASSUME socket'[writer] = "open" PROVE who'[writer] = me
    <3>1. CASE c # writer
      BY <1>3, <2>1, <2>2, <2>3, <3>1 DEF LoginInv, Signed
    <3>2. CASE c = writer
      <4>1. toServer[c] # <<>> => Head(toServer[c]) \notin Logins
        BY <1>2, <2>2, <3>2 DEF Clear
      <4>2. toServer[c] # <<>> /\ Head(toServer[c]) \in Ids => ask[Head(toServer[c])] = Call
        BY <4>1 DEF Logins
      <4>3. who'[c] = who[c] /\ socket[c] = "open"
        BY <1>2, <1>5, <2>3, <3>2, <4>2
      <4> QED
        BY <2>1, <3>2, <4>3 DEF LoginInv, Signed
    <3> QED
      BY <3>1, <3>2
  <2> QED
    BY <1>3, <1>4, <1>6, <2>1, <2>2, <2>3 DEF LoginInv, Signed
<1>9. Listed'
  <2>1. \A d \in Conns : who[d] # NoUser => who'[d] # NoUser \/ (socket'[d] # "open" /\ toServer'[d] = <<>>)
    <3>1. CASE toServer'[c] = <<>> /\ socket'[c] # "open"
      BY <1>3, <3>1
    <3>2. CASE UNCHANGED who
      BY <3>2
    <3>3. CASE toServer[c] # <<>> /\ Head(toServer[c]) \in Ids
               /\ \E ok \in BOOLEAN :
                    who' = [who EXCEPT ![c] = IF ok /\ ask[Head(toServer[c])] # Call
                                              THEN ask[Head(toServer[c])] ELSE @]
      BY <1>2, <3>3
    <3> QED
      BY <1>5, <3>1, <3>2, <3>3
  <2>2. \A d \in Conns : socket'[d] = "open" => socket[d] = "open"
    BY <1>3, <1>5
  <2>3. Clear({ListPeers}, <<>>)
    BY DEF Clear
  <2> QED
    BY <1>2, <1>3, <1>6, <2>1, <2>2, <2>3 DEF LoginInv, Listed
<1> QED
  BY <1>7, <1>8, <1>9

\* What is not open has nothing under way, and what connects is a login.
LEMMA QuietStep ==
    ASSUME LoginInv, [Next]_vars
    PROVE  Quiet' /\ OpeningLogins'
<1>1. /\ toServer \in [Conns -> Seq(Messages)] /\ ask \in [Ids -> Users \cup {Call}]
      /\ socket \in [Conns -> {"unused", "open", "eof", "probed", "closing"}]
      /\ coro \in [Ids -> {"none", "scheduled", "opening", "waiting", "cancelled"} \cup Finished]
      /\ writer \in Conns \cup {NoConn}
  BY DEF LoginInv, IInv, TypeOK
<1>2. Quiet'
  <2>1. CASE UNCHANGED <<toServer, socket>>
    BY <2>1 DEF LoginInv, Quiet
  <2>2. CASE WriteStep
    BY <1>1, <2>2 DEF LoginInv, Quiet, WriteStep, WriteOpen, WriteDropped, WriteLost, WriteRefused
  <2>3. ASSUME NEW r \in Ids, NEW c \in Conns, Opened(r, c) PROVE Quiet'
    BY <1>1, <2>3 DEF LoginInv, Quiet, Opened
  <2>4. ASSUME NEW c \in Conns,
               ServePost(c) \/ ServerCloses(c) \/ Reset(c) \/ \E ok \in BOOLEAN : Serve(c, ok)
        PROVE  Quiet'
    BY <1>1, <2>4 DEF LoginInv, Quiet, ServePost, ServerCloses, Reset, Serve, Taken
  <2>5. CASE GuiStep \/ ReadStep \/ StartCoroutine \/ UNCHANGED vars
             \/ \E r \in Ids : OpenFails(r) \/ Timer(r) \/ Expire(r)
    BY <2>1, <2>5
    DEF GuiStep, BeginLogin, BeginCall, Begin, Return, GiveUp, Discard, Post, ReadStep, StartLoop,
        Read, ReadEnd, StartCoroutine, OpenFails, Timer, Expire, vars, connVars
  <2> QED
    BY <2>2, <2>3, <2>4, <2>5 DEF Next, CoroutineStep, ServerStep
<1>3. OpeningLogins'
  <2>1. CASE UNCHANGED <<ask, coro>>
    BY <2>1 DEF LoginInv, OpeningLogins
  <2>2. ASSUME NEW r \in Ids, NEW what, Begin(r, what) PROVE OpeningLogins'
    BY <1>1, <2>2 DEF LoginInv, OpeningLogins, Begin, Fresh
  <2>3. ASSUME UNCHANGED ask, NEW r \in Ids, NEW st, st # "opening", coro' = [coro EXCEPT ![r] = st]
        PROVE  OpeningLogins'
    BY <1>1, <2>3 DEF LoginInv, OpeningLogins
  <2>4. ASSUME NEW r \in Ids, Return(r) \/ Discard(r) \/ OpenFails(r) \/ Timer(r) \/ Expire(r)
        PROVE  OpeningLogins'
    <3>1. PICK st \in {"none", "failed", "cancelled", "no_reply"} : coro' = [coro EXCEPT ![r] = st]
      BY <2>4 DEF Return, Discard, OpenFails, Timer, Expire
    <3>2. UNCHANGED ask /\ st # "opening"
      BY <2>4 DEF Return, Discard, OpenFails, Timer, Expire
    <3> QED
      BY <2>3, <3>1, <3>2
  <2>5. ASSUME NEW r \in Ids, NEW c \in Conns, Opened(r, c) PROVE OpeningLogins'
    <3>1. coro' = [coro EXCEPT ![r] = "waiting"] /\ UNCHANGED ask
      BY <2>5 DEF Opened, Awaiting
    <3> QED
      BY <1>1, <3>1 DEF LoginInv, OpeningLogins
  <2>6. CASE StartCoroutine
    <3>1. Head(ready) \in Jobs /\ Head(ready).do = "start"
      BY <2>6 DEF StartCoroutine, Next1, LoginInv, IInv, TypeOK
    <3>2. ready[1] = Head(ready) /\ 1 \in 1..Len(ready)
      BY <2>6 DEF StartCoroutine, Next1, LoginInv, IInv, TypeOK
    <3>3. Head(ready).id \in Ids
      BY <3>1, <3>2 DEF LoginInv, IInv, Scheduled
    <3> DEFINE r == Head(ready).id
    <3>4. UNCHANGED ask /\ \/ coro' = [coro EXCEPT ![r] = "waiting"]
                           \/ ask[r] # Call /\ coro' = [coro EXCEPT ![r] = "opening"]
      BY <2>6 DEF StartCoroutine, Awaiting
    <3> HIDE DEF r
    <3> QED
      BY <1>1, <2>3, <3>3, <3>4 DEF LoginInv, OpeningLogins, r
  <2>7. ASSUME NEW l \in Conns, Read(l) PROVE OpeningLogins'
    <3> DEFINE msg == Head(toClient[loop[l]])
    <3>1. coro' = coro \/ coro' = [coro EXCEPT ![msg.id] = Answer(msg.ok)]
      BY <2>7 DEF Read, Dispatch
    <3>2. Answer(msg.ok) # "opening" /\ UNCHANGED ask
      BY <2>7 DEF Answer, Read
    <3> HIDE DEF msg
    <3> QED
      BY <1>1, <3>1, <3>2 DEF LoginInv, OpeningLogins
  <2>8. CASE \/ WriteStep \/ ServerStep \/ Post \/ UNCHANGED vars
             \/ \E r \in Ids : GiveUp(r)
             \/ \E l \in Conns : StartLoop(l) \/ ReadEnd(l)
    BY <2>1, <2>8
    DEF WriteStep, WriteOpen, WriteDropped, WriteLost, WriteRefused, Written, ServerStep, Serve,
        ServePost, ServerCloses, Reset, Post, GiveUp, StartLoop, ReadEnd, vars
  <2>9. ASSUME NEW r \in Ids, BeginCall(r) \/ \E u \in Users : BeginLogin(r, u)
        PROVE  OpeningLogins'
    <3>1. \E what : Begin(r, what)
      BY <2>9 DEF BeginLogin, BeginCall
    <3> QED
      BY <2>2, <3>1
  <2>10. CASE GuiStep
    BY <2>4, <2>8, <2>9, <2>10 DEF GuiStep
  <2>11. CASE CoroutineStep
    BY <2>4, <2>5, <2>6, <2>11 DEF CoroutineStep
  <2>12. CASE ReadStep
    BY <2>7, <2>8, <2>12 DEF ReadStep
  <2> QED
    BY <2>8, <2>10, <2>11, <2>12 DEF Next
<1> QED
  BY <1>2, <1>3

LEMMA LoginInvStep == LoginInv /\ [TraceNext]_mcvars => LoginInv'
<1> SUFFICES ASSUME LoginInv, [TraceNext]_mcvars PROVE LoginInv'
  OBVIOUS
<1>1. [Next]_vars
  BY DEF TraceNext, mcvars
<1>2. IInv' /\ Quiet' /\ OpeningLogins'
  BY <1>1, InvStep, QuietStep DEF LoginInv
<1>3. ASSUME ~overtaken' PROVE (Signing /\ Signed /\ Listed)'
  <2>1. CASE TraceNext
    <3>1. Next /\ ~overtaken /\ ~Overtakes
      BY <1>3, <2>1 DEF TraceNext
    <3>2. ASSUME NEW r \in Ids, NEW u \in Users, BeginLogin(r, u)
          PROVE  (Signing /\ Signed /\ Listed)'
      BY <3>1, <3>2, BeginStep, ClientAssumption DEF BeginLogin
    <3>3. ASSUME NEW r \in Ids, BeginCall(r) PROVE (Signing /\ Signed /\ Listed)'
      BY <3>1, <3>3, BeginStep DEF BeginCall
    <3>4. CASE GuiStep
      BY <3>1, <3>2, <3>3, <3>4, ReturnStep, GiveUpStep, CoroSteps, PostStep DEF GuiStep
    <3>5. ASSUME NEW r \in Ids, NEW c \in Conns, Opened(r, c)
          PROVE  (Signing /\ Signed /\ Listed)'
      <4>1. coro[r] = "opening" /\ coro'[r] = "waiting"
        BY <3>5 DEF Opened, Awaiting, LoginInv, IInv, TypeOK
      <4>2. gui = r
        BY <3>1, <4>1 DEF Overtakes
      <4> QED
        BY <3>1, <3>5, <4>2, OpenedStep
    <3>6. CASE CoroutineStep
      BY <3>1, <3>5, <3>6, StartStep, CoroSteps DEF CoroutineStep
    <3> QED
      BY <3>1, <3>4, <3>6, WriteKeeps, CoroSteps, ServerKeeps DEF Next
  <2>2. CASE UNCHANGED mcvars
    <3>1. UNCHANGED <<gui, logged, me, ready, ask, writer, socket, toServer, serverVars, coro, overtaken>>
      BY <2>2 DEF mcvars, vars, guiVars, connVars
    <3> QED
      BY <1>3, <3>1, CoroOnly
  <2> QED
    BY <2>1, <2>2
<1> QED
  BY <1>2, <1>3 DEF LoginInv

LEMMA LoginInvInit == SafeInit => LoginInv
<1> SUFFICES ASSUME SafeInit PROVE LoginInv
  OBVIOUS
<1>1. IInv
  BY InitInv DEF SafeInit
<1>2. Logins = {}
  BY DEF SafeInit, Init, Logins
<1>3. Signing /\ Signed /\ Listed
  BY <1>2 DEF SafeInit, Init, Signing, Signed, Listed, Clear
<1> QED
  BY <1>1, <1>3 DEF LoginInv, SafeInit, Init, Quiet, OpeningLogins

\* The behaviours that TLC checks are among those with a history.
LEMMA BoundedIsTrace == SafeSpec => TraceSpec
<1>1. SafeNext => TraceNext
  BY DEF SafeNext
<1> QED
  BY <1>1, PTL DEF SafeSpec, TraceSpec

\* What the client takes itself for and what handle_login made of the connection
\* agree, with the answers that are under way between them.
THEOREM LoginInvariance == TraceSpec => []LoginInv
  BY LoginInvInit, LoginInvStep, PTL DEF TraceSpec

\* Whatever timed out, was given up or was lost before, a client that is signed
\* in and at rest is known to the server as the user it shows; unless a login
\* that had been given up while connecting has connected since.
THEOREM SameUserAlways == TraceSpec => []SameUser
<1>1. LoginInv => SameUser
  BY DEF LoginInv, Signed, SameUser
<1> QED
  BY <1>1, LoginInvariance, PTL

\* The list of peers is never served before the login it belongs to, with the
\* same exception.
THEOREM LoginAlwaysFirst == TraceSpec => LoginComesFirst
<1>1. ASSUME LoginInv, NEW c \in Conns, ~overtaken,
             toServer[c] # <<>>, Head(toServer[c]) = ListPeers
      PROVE  who[c] # NoUser
  <2>1. 1 \in 1..Len(toServer[c]) /\ toServer[c][1] = ListPeers
    BY <1>1 DEF LoginInv, IInv, TypeOK
  <2> QED
    BY <1>1, <2>1 DEF LoginInv, Listed, Clear
<1>2. LoginInv /\ [TraceNext]_mcvars =>
        [\A c \in Conns :
            /\ ~overtaken
            /\ toServer[c] # <<>> /\ Head(toServer[c]) = ListPeers /\ toServer'[c] = Tail(toServer[c])
            /\ socket'[c] = "open"
            => who[c] # NoUser]_vars
  BY <1>1
<1> QED
  BY <1>2, LoginInvariance, PTL DEF TraceSpec, LoginComesFirst
=============================================================================
