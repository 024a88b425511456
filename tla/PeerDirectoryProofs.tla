------------------------ MODULE PeerDirectoryProofs ------------------------
(***************************************************************************)
(* The directory is right for any clients, keys and number of connections. *)
(* EntriesLive is inductive with the types of the variables and the facts  *)
(* that a connection in use has an owner and that its task sends news of   *)
(* its own key: an entry is made only by a login on an open connection,    *)
(* and Cleanup, the one action that ends a read loop, removes the entry if *)
(* it names that connection.                                               *)
(*                                                                         *)
(* The views of the clients follow the directory: ViewInv relates what a   *)
(* client knows, what is under way to it and what the tasks have still to  *)
(* write, to the directory.                                                *)
(***************************************************************************)
EXTENDS MCPeerDirectory, TLAPS

OwnersKnown ==
    \A c \in Conns :
        /\ socket[c] # "unused" => owner[c] \in Clients
        /\ inbox[c] # <<>> => socket[c] # "unused"
        /\ user[c] # NoUser => socket[c] # "unused"

\* What a connection has to tell of its key.
NewsOf(d) ==
    IF user[d] = NoUser THEN NoNews
    ELSE IF socket[d] = "reaped" THEN Leave(Key(d)) ELSE Announce(Key(d), user[d])

\* A task tells that and nothing else, to connections that have logged in.
TaskNews ==
    \A d \in Conns :
        /\ task[d].msg = NewsOf(d)
        /\ user[d] = NoUser => task[d].to = {} /\ ~task[d].all
        /\ \A c \in task[d].to : user[c] # NoUser

Inv == TypeOK /\ OwnersKnown /\ TaskNews /\ EntriesLive

\* What the server writes is a message.
LEMMA MessageTypes ==
  /\ \A k \in Keys, u \in Users : Announce(k, u) \in News
  /\ \A k \in Keys : Leave(k) \in News
  /\ News \subseteq Message
  /\ \A f \in [Keys -> Users \cup {NoUser}] : PeersList(f) \in Message
  BY DEF Announce, Leave, PeersList, News, Message

\* Every message turns a view into a view.
LEMMA ApplyType ==
  ASSUME NEW v \in [Keys -> Users \cup {NoUser}], NEW msg \in Message
  PROVE  Apply(v, msg) \in [Keys -> Users \cup {NoUser}]
  <1>1. CASE msg \in [type : {"PEER_ANNOUNCE"}, key : Keys, user : Users]
    BY <1>1 DEF Apply
  <1>2. CASE msg \in [type : {"PEER_LEAVE"}, key : Keys]
    BY <1>2 DEF Apply
  <1>3. CASE msg \in [type : {"PEERS_LIST"}, peers : [Keys -> Users \cup {NoUser}]]
    BY <1>3 DEF Apply
  <1> QED BY <1>1, <1>2, <1>3 DEF Message, News

\* The listing names only users, when the directory names only connections.
LEMMA ListingType ==
  ASSUME TypeOK
  PROVE  Listing \in [Keys -> Users \cup {NoUser}]
  BY DEF Listing, TypeOK

\* The connections the directory names have logged in.
LEMMA NamedUsers ==
  ASSUME TypeOK, EntriesLive
  PROVE  Registered \subseteq {c \in Conns : user[c] # NoUser}
  BY DEF Registered, Named, TypeOK, EntriesLive

\* The initial state is well typed and its directory is empty.
LEMMA InitInv == Init => Inv
  <1> SUFFICES ASSUME Init PROVE Inv OBVIOUS
  <1>1. TypeOK BY ConnectionAssumption DEF Init, TypeOK, Sending, Nothing
  <1>2. OwnersKnown BY DEF Init, OwnersKnown
  <1>3. TaskNews BY DEF Init, TaskNews, NewsOf, Nothing
  <1>4. EntriesLive BY DEF Init, EntriesLive
  <1> QED BY <1>1, <1>2, <1>3, <1>4 DEF Inv

\* Opening a connection concerns one that no entry and no task names.
LEMMA ConnectInv ==
  ASSUME Inv, NEW i \in Clients, NEW c \in Conns, Connect(i, c)
  PROVE  Inv'
  <1> USE ConnectionAssumption DEF Inv, Connect, Leftover
  <1>1. TypeOK'
    <2>1. inbox' \in [Conns -> Seq(Message)]
      <3>1. CASE UNCHANGED inbox BY <3>1 DEF TypeOK
      <3>2. ASSUME NEW d \in Leftover(i), inbox' = [inbox EXCEPT ![c] = inbox[d], ![d] = <<>>]
            PROVE  inbox' \in [Conns -> Seq(Message)]
        <4> DEFINE moved == [inbox EXCEPT ![c] = inbox[d]]
        <4>1. moved \in [Conns -> Seq(Message)] BY DEF TypeOK
        <4>2. <<>> \in Seq(Message) OBVIOUS
        <4>3. inbox' = [moved EXCEPT ![d] = <<>>] BY <3>2
        <4> HIDE DEF moved
        <4> QED BY <4>1, <4>2, <4>3
      <3> QED BY <3>1, <3>2
    <2> QED BY <2>1 DEF TypeOK
  <1>2. OwnersKnown' BY DEF TypeOK, OwnersKnown
  <1>3. TaskNews'
    <2>1. user[c] = NoUser BY DEF OwnersKnown
    <2>2. \A d \in Conns \ {c} : socket'[d] = socket[d] /\ Key(d)' = Key(d) BY DEF TypeOK, Key
    <2>3. \A d \in Conns : NewsOf(d)' = NewsOf(d) BY <2>1, <2>2 DEF NewsOf
    <2> QED BY <2>3 DEF TaskNews
  <1>4. EntriesLive' BY DEF TypeOK, EntriesLive, Key
  <1> QED BY <1>1, <1>2, <1>3, <1>4

\* Losing a connection leaves its entry to the server's cleanup.
LEMMA BreakInv ==
  ASSUME Inv, NEW c \in Conns, Break(c)
  PROVE  Inv'
  <1> USE ConnectionAssumption DEF Inv, Break
  <1>1. TypeOK' BY DEF TypeOK
  <1>2. OwnersKnown' BY DEF TypeOK, OwnersKnown
  <1>3. TaskNews'
    <2>1. \A d \in Conns : NewsOf(d)' = NewsOf(d) BY DEF NewsOf, Key, TypeOK
    <2> QED BY <2>1 DEF TaskNews
  <1>4. EntriesLive' BY DEF TypeOK, EntriesLive, Key
  <1> QED BY <1>1, <1>2, <1>3, <1>4

\* A connection in use has a client and that client's key.
LEMMA InUse ==
  ASSUME Inv, NEW c \in Conns, socket[c] # "unused"
  PROVE  owner[c] \in Clients /\ owner[c] # NoClient /\ Key(c) \in Keys
  BY ConnectionAssumption DEF Inv, OwnersKnown, Key

\* A login puts an open connection under the key of its client.
LEMMA LoginInv ==
  ASSUME Inv, NEW c \in Conns, NEW u \in Users, Login(c, u)
  PROVE  Inv'
  <1> USE ConnectionAssumption DEF Inv, Login, Register
  <1>1. Key(c) \in Keys BY DEF OwnersKnown, Key
  <1>2. Announcement(c, u) \in Sending
    BY <1>1, MessageTypes DEF Announcement, Sending
  <1>3. TypeOK' BY <1>1, <1>2 DEF TypeOK
  <1>4. OwnersKnown' BY DEF TypeOK, OwnersKnown
  <1>5. TaskNews'
    <2>1. ASSUME NEW d \in Conns, d # c
          PROVE  task'[d] = task[d] /\ user'[d] = user[d] /\ NewsOf(d)' = NewsOf(d)
      BY <2>1 DEF TypeOK, NewsOf, Key
    <2>2. /\ task'[c] = Announcement(c, u) /\ user'[c] = u /\ u # NoUser
          /\ NewsOf(c)' = Announce(Key(c), u)
      BY DEF TypeOK, NewsOf, Key
    <2> QED BY <2>1, <2>2 DEF TaskNews, Announcement
  <1>6. EntriesLive' BY <1>1 DEF TypeOK, EntriesLive, Key
  <1> QED BY <1>3, <1>4, <1>5, <1>6

\* Cleaning up removes the entry that names the connection, if there is one.
LEMMA CleanupInv ==
  ASSUME Inv, NEW c \in Conns, Cleanup(c)
  PROVE  Inv'
  <1> USE ConnectionAssumption DEF Inv, Cleanup, Unregister
  <1>1. Key(c) \in Keys BY DEF OwnersKnown, Key
  <1>2. Named(Unregister(c)) \subseteq Registered
    BY <1>1 DEF Named, Registered, TypeOK
  <1>3. Registered \subseteq Conns /\ \A d \in Registered : user[d] # NoUser
    BY NamedUsers
  <1>4. Departure(c) \in Sending
    BY <1>1, <1>2, <1>3, MessageTypes DEF Departure, Sending
  <1>5. TypeOK'
    <2>1. task' \in [Conns -> Sending]
      BY <1>4 DEF TypeOK
    <2>2. directory' \in [Keys -> Conns \cup {NoConn}]
      <3>1. directory \in [Keys -> Conns \cup {NoConn}]
        BY DEF TypeOK
      <3>2. Unregister(c) \in [Keys -> Conns \cup {NoConn}]
        BY <3>1 DEF Unregister
      <3>3. directory' \in {directory, Unregister(c)}
        BY DEF Cleanup
      <3> QED BY ONLY <3>1, <3>2, <3>3
    <2>3. socket' \in [Conns -> {"unused", "open", "broken", "reaped"}]
      BY DEF TypeOK
    <2> QED BY <2>1, <2>2, <2>3 DEF TypeOK
  <1>6. OwnersKnown' BY DEF TypeOK, OwnersKnown
  <1>7. TaskNews'
    <2>1. ASSUME NEW d \in Conns, d # c
          PROVE  task'[d] = task[d] /\ NewsOf(d)' = NewsOf(d)
      BY <2>1 DEF TypeOK, NewsOf, Key
    <2>2. CASE user[c] = NoUser
      BY <2>1, <2>2 DEF TaskNews, NewsOf
    <2>3. CASE user[c] # NoUser
      <3>1. task'[c] = Departure(c) /\ NewsOf(c)' = Leave(Key(c))
        BY <2>3 DEF TypeOK, NewsOf, Key
      <3>2. task'[c].msg = NewsOf(c)' /\ \A d \in task'[c].to : user[d] # NoUser
        <4> DEFINE left == Named(Unregister(c))
        <4>1. left \subseteq Registered BY <1>2
        <4>2. task'[c].to = left /\ task'[c].msg = Leave(Key(c)) BY <3>1 DEF Departure
        <4> HIDE DEF left, Cleanup, Unregister
        <4> QED BY <1>3, <3>1, <4>1, <4>2
      <3>3. UNCHANGED user OBVIOUS
      <3> HIDE DEF Cleanup, Unregister
      <3> QED BY <2>1, <2>3, <3>2, <3>3 DEF TaskNews
    <2> QED BY <2>2, <2>3
  <1>8. EntriesLive'
    <2>1. CASE user[c] = NoUser BY <2>1 DEF TypeOK, EntriesLive, Key
    <2>2. CASE user[c] # NoUser BY <1>1, <2>2 DEF TypeOK, EntriesLive, Key
    <2> QED BY <2>1, <2>2
  <1> QED BY <1>5, <1>6, <1>7, <1>8

\* A list changes no entry, and only a connection that logged in gets it.
LEMMA ListPeersInv ==
  ASSUME Inv, NEW c \in Conns, ListPeers(c)
  PROVE  Inv'
  <1> USE ConnectionAssumption DEF Inv, ListPeers
  <1>1. PeersFor(c) \in Message
    <2>1. [Listing EXCEPT ![Key(c)] = NoUser] \in [Keys -> Users \cup {NoUser}]
      BY ListingType
    <2> QED BY <2>1, MessageTypes DEF PeersFor
  <1>2. TypeOK' BY <1>1 DEF TypeOK
  <1>3. OwnersKnown' BY DEF TypeOK, OwnersKnown
  <1>4. TaskNews' BY DEF TaskNews, NewsOf, Key
  <1>5. EntriesLive' BY DEF TypeOK, EntriesLive, Key
  <1> QED BY <1>2, <1>3, <1>4, <1>5

\* Reading a message changes the view of the client alone.
LEMMA ReceiveInv ==
  ASSUME Inv, NEW c \in Conns, Receive(c)
  PROVE  Inv'
  <1> USE ConnectionAssumption DEF Inv, Receive
  <1>1. Head(inbox[c]) \in Message /\ Tail(inbox[c]) \in Seq(Message)
    BY DEF TypeOK
  <1>2. owner[c] \in Clients
    BY DEF OwnersKnown
  <1>3. Apply(view[owner[c]], Head(inbox[c])) \in [Keys -> Users \cup {NoUser}]
    BY <1>1, <1>2, ApplyType DEF TypeOK
  <1>4. TypeOK' BY <1>1, <1>2, <1>3 DEF TypeOK
  <1>5. OwnersKnown' BY DEF TypeOK, OwnersKnown
  <1>6. TaskNews' BY DEF TaskNews, NewsOf, Key
  <1>7. EntriesLive' BY DEF TypeOK, EntriesLive, Key
  <1> QED BY <1>4, <1>5, <1>6, <1>7

\* A broadcast goes to those who are listed when it begins.
LEMMA BroadcastInv ==
  ASSUME Inv, NEW d \in Conns, Broadcast(d)
  PROVE  Inv'
  <1> USE DEF Inv, Broadcast
  <1>1. Registered \subseteq Conns /\ \A c \in Registered : user[c] # NoUser
    BY NamedUsers
  <1>2. task'[d] = [to |-> Registered, all |-> FALSE, msg |-> task[d].msg]
    BY DEF TypeOK, Sending
  <1>3. \A e \in Conns \ {d} : task'[e] = task[e]
    BY DEF TypeOK
  <1>4. TypeOK'
    <2>1. task'[d] \in Sending
      <3>1. task[d] \in Sending BY DEF TypeOK
      <3>2. Registered \in SUBSET Conns /\ task[d].msg \in News \cup {NoNews} BY <1>1, <3>1 DEF Sending
      <3> HIDE DEF Broadcast
      <3> QED BY <1>2, <3>2 DEF Sending
    <2>2. task' \in [Conns -> Sending] BY <2>1 DEF TypeOK
    <2> QED BY <2>2 DEF TypeOK
  <1>5. OwnersKnown' BY DEF OwnersKnown
  <1>6. TaskNews'
    <2>1. \A e \in Conns : NewsOf(e)' = NewsOf(e) BY DEF NewsOf, Key
    <2>2. user[d] # NoUser /\ UNCHANGED user BY DEF TaskNews
    <2> HIDE DEF Broadcast
    <2> QED BY <1>1, <1>2, <1>3, <2>1, <2>2 DEF TaskNews
  <1>7. EntriesLive' BY DEF EntriesLive, Key
  <1> QED BY <1>4, <1>5, <1>6, <1>7

\* A write delivers news to an open connection.
LEMMA WriteInv ==
  ASSUME Inv, NEW d \in Conns, NEW c \in Conns, Write(d, c)
  PROVE  Inv'
  <1> USE DEF Inv, Write, Recipients
  <1>1. c \in task[d].to /\ socket[c] = "open" /\ user[d] # NoUser
    BY DEF TaskNews
  <1>2. task[d].msg \in Message
    <2>1. socket[d] # "unused" BY <1>1 DEF OwnersKnown
    <2>2. Key(d) \in Keys /\ user[d] \in Users BY <1>1, <2>1, InUse DEF TypeOK
    <2> QED BY <1>1, <2>2, MessageTypes DEF TaskNews, NewsOf
  <1>3. task'[d] = [to |-> task[d].to \ {c}, all |-> task[d].all, msg |-> task[d].msg]
    <2>1. task[d] \in Sending /\ task'[d] = [task[d] EXCEPT !.to = task[d].to \ {c}]
      BY DEF TypeOK
    <2> HIDE DEF Write
    <2> QED BY <2>1 DEF Sending
  <1>4. \A e \in Conns \ {d} : task'[e] = task[e]
    BY DEF TypeOK
  <1>5. TypeOK'
    <2>1. task'[d] \in Sending BY <1>3 DEF TypeOK, Sending
    <2>2. task' \in [Conns -> Sending] BY <2>1 DEF TypeOK
    <2>3. inbox' \in [Conns -> Seq(Message)] BY <1>2 DEF TypeOK
    <2> QED BY <2>2, <2>3 DEF TypeOK
  <1>6. OwnersKnown' BY <1>1 DEF TypeOK, OwnersKnown
  <1>7. TaskNews'
    <2>1. \A e \in Conns : NewsOf(e)' = NewsOf(e) BY DEF NewsOf, Key
    <2> QED BY <1>1, <1>3, <1>4, <2>1 DEF TaskNews
  <1>8. EntriesLive' BY DEF EntriesLive, Key
  <1> QED BY <1>5, <1>6, <1>7, <1>8

LEMMA NextInv == Inv /\ [Next]_vars => Inv'
  <1> SUFFICES ASSUME Inv, [Next]_vars PROVE Inv' OBVIOUS
  <1>1. CASE \E i \in Clients, c \in Conns : Connect(i, c)
    BY <1>1, ConnectInv
  <1>2. CASE \E c \in Conns : Break(c) \/ Receive(c) \/ ListPeers(c) \/ Cleanup(c) \/ Broadcast(c)
    BY <1>2, BreakInv, ReceiveInv, ListPeersInv, CleanupInv, BroadcastInv
  <1>3. CASE \E c \in Conns, u \in Users : Login(c, u)
    BY <1>3, LoginInv
  <1>4. CASE \E d, c \in Conns : Write(d, c)
    BY <1>4, WriteInv
  <1>5. CASE UNCHANGED vars
    BY <1>5 DEF vars, Inv, TypeOK, OwnersKnown, TaskNews, NewsOf, EntriesLive, Key
  <1> QED BY <1>1, <1>2, <1>3, <1>4, <1>5 DEF Next

\* The inductive invariant holds in every reachable state.
THEOREM DirectoryInvariance == Spec => []Inv
  <1>1. Init => Inv BY InitInv
  <1>2. Inv /\ [Next]_vars => Inv' BY NextInv
  <1> QED BY <1>1, <1>2, PTL DEF Spec

\* Every variable keeps its type; in particular only a connection that logged
\* in is ever given the list of peers.
THEOREM DirectoryTypes == Spec => []TypeOK
  <1>1. Inv => TypeOK BY DEF Inv
  <1> QED BY <1>1, DirectoryInvariance, PTL

\* No entry names a connection whose read loop has ended, or another key's.
THEOREM EntriesAlwaysLive == Spec => []EntriesLive
  <1>1. Inv => EntriesLive BY DEF Inv
  <1> QED BY <1>1, DirectoryInvariance, PTL

\* The cleanup of an older connection never takes the entry of a newer one.
THEOREM EntriesKept == Spec => EntryKept
  <1>1. ASSUME Inv, [Next]_vars, NEW k \in Keys, NEW c \in Conns,
               directory[k] = c, directory'[k] # c
        PROVE  \/ socket[c] = "broken" /\ socket'[c] = "reaped"
               \/ \E d \in Conns \ {c} : directory'[k] = d /\ socket[d] = "open"
    <2> USE <1>1, ConnectionAssumption DEF Inv, TypeOK
    <2>1. CASE \E i \in Clients, d \in Conns : Connect(i, d)
      BY <2>1 DEF Connect
    <2>2. ASSUME NEW d \in Conns, \/ Break(d) \/ Receive(d) \/ ListPeers(d)
                                \/ Broadcast(d) \/ \E e \in Conns : Write(d, e)
          PROVE  FALSE
      BY <2>2 DEF Break, Receive, ListPeers, Broadcast, Write
    <2>3. ASSUME NEW d \in Conns, Cleanup(d)
          PROVE  d = c /\ socket[c] = "broken" /\ socket'[c] = "reaped"
      BY <2>3 DEF Cleanup, Unregister
    <2>4. ASSUME NEW d \in Conns, NEW u \in Users, Login(d, u)
          PROVE  d # c /\ directory'[k] = d /\ socket[d] = "open"
      BY <2>4 DEF Login, Register
    <2>5. CASE UNCHANGED vars
      BY <2>5 DEF vars
    <2> QED BY <2>1, <2>2, <2>3, <2>4, <2>5 DEF Next
  <1>2. Inv /\ [Next]_vars =>
          [\A k \in Keys, c \in Conns :
              directory[k] = c /\ directory'[k] # c =>
                  \/ socket[c] = "broken" /\ socket'[c] = "reaped"
                  \/ \E d \in Conns \ {c} : directory'[k] = d /\ socket[d] = "open"]_vars
    BY <1>1
  <1> QED BY <1>2, DirectoryInvariance, PTL DEF Spec, EntryKept
-----------------------------------------------------------------------------
(***************************************************************************)
(* What the clients will have been told.                                   *)
(*                                                                         *)
(* The properties speak of the view of a client after all that is under    *)
(* way to it: a fold of its inbox, which grows at the end when the server  *)
(* writes and shrinks at the front when the client reads.                  *)
(***************************************************************************)
AppliedTo == INSTANCE SeqFolds WITH Op <- Apply

View == [Keys -> Users \cup {NoUser}]

\* The view v after the messages s.
After(v, s) == FoldLeft(Apply, v, s)

\* Of a client's connections at most one has something to read, and none but
\* the open one, if there is one.
OneReader ==
    \A c, d \in Conns : c # d /\ owner[c] = owner[d] /\ owner[c] \in Clients =>
        /\ socket[c] = "open" => socket[d] # "open" /\ inbox[d] = <<>>
        /\ inbox[c] = <<>> \/ inbox[d] = <<>>

\* A connection not yet opened is nobody's.
Blank == \A c \in Conns : socket[c] = "unused" => owner[c] = NoClient

\* What a task has still to send is true, but of a crossed key.
TasksTrue ==
    \A d \in Conns : ~Idle(d) /\ Key(d) \notin crossed =>
        \/ directory[Key(d)] = d
        \/ directory[Key(d)] = NoConn /\ socket[d] = "reaped"

\* What is true of a key.
NewsAbout(k) == IF Listing[k] = NoUser THEN Leave(k) ELSE Announce(k, Listing[k])

\* The client of c will know it.
UpToDate(c, k) == Settled(c)[k] = Listing[k] \/ ToBeTold(c, NewsAbout(k))

Relevant(c, k) == IF Listing[k] = NoUser THEN FirstSession(c) ELSE c \in synced

Covered ==
    \A c \in Registered, k \in Keys \ crossed :
        socket[c] = "open" /\ Relevant(c, k) => UpToDate(c, k)

\* A login is told to its own connection first.
OwnEntry ==
    \A c \in Registered : socket[c] = "open" /\ Key(c) \notin crossed =>
        Settled(c)[Key(c)] = user[c] \/ c \in task[c].to

\* A client is told nothing before the first login of its first connection.
Unheard ==
    /\ \A i \in Clients : (\A c \in Conns : owner[c] # i) => \A k \in Keys : view[i][k] = NoUser
    /\ \A c \in Conns : socket[c] = "open" /\ FirstSession(c) /\ user[c] = NoUser =>
           inbox[c] = <<>> /\ \A k \in Keys : view[owner[c]][k] = NoUser

\* Nothing takes the entry from the only connection of a key.
FirstListed ==
    \A c \in Conns : socket[c] = "open" /\ FirstSession(c) /\ user[c] # NoUser =>
        directory[Key(c)] = c

ViewInv ==
    /\ Inv /\ OneReader /\ Blank /\ TasksTrue
    /\ Covered /\ OwnEntry /\ Unheard /\ FirstListed

\* Covered is the two properties in one.
LEMMA CoveredIs == Covered <=> ViewsCoverDirectory /\ FirstViewsExact
  BY DEF Covered, ViewsCoverDirectory, FirstViewsExact, Relevant, UpToDate, NewsAbout

\* The fold of the model is the one the lemmas are about.
LEMMA AfterIsLeft == ASSUME NEW v, NEW s PROVE After(v, s) = AppliedTo!Left(v, s)
  BY DEF After, AppliedTo!Left, FoldLeft, AppliedTo!FoldLeft,
         MapThenFoldSet, AppliedTo!MapThenFoldSet, Max, AppliedTo!Max

\* One message more is applied last.
LEMMA AfterAppend ==
  ASSUME NEW v, NEW s \in Seq(Message), NEW msg \in Message
  PROVE  After(v, Append(s, msg)) = Apply(After(v, s), msg)
  <1>1. AppliedTo!Left(v, Append(s, msg)) = Apply(AppliedTo!Left(v, s), msg)
    BY AppliedTo!LeftAppend
  <1> QED BY <1>1, AfterIsLeft

\* The first message may be applied at once.
LEMMA AfterRead ==
  ASSUME NEW v, NEW s \in Seq(Message), s # <<>>
  PROVE  After(v, s) = After(Apply(v, Head(s)), Tail(s))
  <1>1. AppliedTo!Left(v, s) = AppliedTo!Left(Apply(v, Head(s)), Tail(s))
    BY AppliedTo!LeftTail
  <1> QED BY <1>1, AfterIsLeft

\* Without messages the view stays.
LEMMA AfterNothing == ASSUME NEW v PROVE After(v, <<>>) = v
  BY AfterIsLeft, AppliedTo!LeftEmpty

\* Messages turn a view into a view.
LEMMA AfterType ==
  ASSUME NEW v \in View, NEW s \in Seq(Message)
  PROVE  After(v, s) \in View
  <1>1. \A w \in View, msg \in Message : Apply(w, msg) \in View
    BY ApplyType DEF View
  <1>2. AppliedTo!Left(v, s) \in View
    BY <1>1, AppliedTo!LeftClosed
  <1> QED BY <1>2, AfterIsLeft

\* Settled is this fold, before and after a step.
LEMMA SettledIs ==
  ASSUME NEW c \in Conns
  PROVE  /\ Settled(c) = After(view[owner[c]], inbox[c])
         /\ Settled(c)' = After(view'[owner'[c]], inbox'[c])
  BY DEF Settled, After

LEMMA SettledType ==
  ASSUME Inv, NEW c \in Conns, socket[c] # "unused"
  PROVE  Settled(c) \in View
  <1>1. view[owner[c]] \in View /\ inbox[c] \in Seq(Message)
    BY DEF Inv, TypeOK, OwnersKnown, View
  <1> QED BY <1>1, AfterType, SettledIs

\* A step that leaves the view of a client and the inbox alone leaves what it
\* will have been told.
LEMMA SettledKept ==
  ASSUME NEW c \in Conns, owner'[c] = owner[c], inbox'[c] = inbox[c],
         view'[owner[c]] = view[owner[c]]
  PROVE  Settled(c)' = Settled(c)
  BY SettledIs

\* An entry is listed under the key of its connection.
LEMMA RegisteredAt ==
  ASSUME Inv, NEW c
  PROVE  c \in Registered <=> /\ c \in Conns /\ owner[c] \in Clients
                              /\ Key(c) \in Keys /\ directory[Key(c)] = c
  <1>1. ASSUME NEW k \in Keys, directory[k] # NoConn
        PROVE  LET d == directory[k] IN d \in Conns /\ owner[d] \in Clients /\ Key(d) = k
    BY <1>1 DEF Inv, TypeOK, EntriesLive, OwnersKnown
  <1>2. ASSUME c \in Conns, Key(c) \in Keys, directory[Key(c)] = c PROVE c \in Registered
    <2>1. c # NoConn BY <1>2, ConnectionAssumption
    <2> DEFINE k == Key(c)
    <2>2. k \in Keys /\ directory[k] = c BY <1>2
    <2> HIDE DEF k
    <2> QED BY <2>1, <2>2 DEF Registered, Named
  <1>3. ASSUME c \in Registered
        PROVE  c \in Conns /\ owner[c] \in Clients /\ Key(c) \in Keys /\ directory[Key(c)] = c
    <2>1. PICK k \in Keys : directory[k] # NoConn /\ c = directory[k]
      BY <1>3 DEF Registered, Named
    <2> QED BY <1>1, <2>1
  <1> QED BY <1>2, <1>3

\* Before and after every step.
RegisteredByKey ==
    \A c \in Conns :
        c \in Registered <=> owner[c] \in Clients /\ Key(c) \in Keys /\ directory[Key(c)] = c

LEMMA RegisteredIs == Inv => RegisteredByKey
  BY RegisteredAt DEF RegisteredByKey

LEMMA RegisteredNext == Inv' => RegisteredByKey'
  BY RegisteredIs, PTL

\* A task that has something left tells news of its own key.
LEMMA OwesNews ==
  ASSUME Inv, NEW d \in Conns, ~Idle(d)
  PROVE  /\ user[d] \in Users /\ Key(d) \in Keys /\ socket[d] # "unused"
         /\ task[d].msg = IF socket[d] = "reaped" THEN Leave(Key(d)) ELSE Announce(Key(d), user[d])
         /\ task[d].msg \in Message
  <1>1. user[d] # NoUser
    BY DEF Inv, TaskNews, Idle, Recipients
  <1>2. user[d] \in Users /\ Key(d) \in Keys /\ socket[d] # "unused"
    BY <1>1, InUse DEF Inv, TypeOK, OwnersKnown
  <1>3. task[d].msg = IF socket[d] = "reaped" THEN Leave(Key(d)) ELSE Announce(Key(d), user[d])
    BY <1>1 DEF Inv, TaskNews, NewsOf
  <1> QED BY <1>2, <1>3, MessageTypes

\* News about one key is not news about another.
LEMMA NewsKey ==
  ASSUME Inv, NEW d \in Conns, ~Idle(d), NEW k, task[d].msg = NewsAbout(k)
  PROVE  Key(d) = k
  <1>1. task[d].msg = IF socket[d] = "reaped" THEN Leave(Key(d)) ELSE Announce(Key(d), user[d])
    BY OwesNews
  <1>3. task[d].msg.key = Key(d) BY <1>1 DEF Leave, Announce
  <1>2. NewsAbout(k).key = k BY DEF NewsAbout, Leave, Announce
  <1> QED BY <1>2, <1>3

\* Only a login adds a broadcast to a task, so without one no key is admitted
\* again.
LEMMA CrossedStays ==
  ASSUME Inv, Cross, \A c \in Conns : task'[c].all => task[c].all
  PROVE  /\ \A k \in Keys \ crossed' : k \notin crossed
         /\ \A k \in Keys \ crossed' : ~Crossing(k)'
  <1>1. ASSUME NEW c \in Conns, NEW u \in Users, Login(c, u) PROVE FALSE
    <2>1. ~task[c].all BY <1>1 DEF Login, Idle
    <2>2. task'[c] = Announcement(c, u) BY <1>1 DEF Login, Inv, TypeOK
    <2>3. task'[c].all BY <2>2 DEF Announcement
    <2> QED BY <2>1, <2>3
  <1>2. \A k \in Keys : ~LoggedIn(k) BY <1>1 DEF LoggedIn
  <1> QED BY <1>2 DEF Cross

\* Tasks that go on, or end, stay true while the directory does.
LEMMA TasksKept ==
  ASSUME ViewInv, Cross, UNCHANGED directory,
         \A d \in Conns : ~Idle(d)' =>
            ~Idle(d) /\ Key(d)' = Key(d) /\ (socket[d] = "reaped" => socket'[d] = "reaped"),
         \A d \in Conns : task'[d].all => task[d].all
  PROVE  TasksTrue'
  <1>1. \A k \in Keys \ crossed' : k \notin crossed
    BY CrossedStays DEF ViewInv
  <1>2. \A d \in Conns : ~Idle(d) => Key(d) \in Keys
    BY OwesNews DEF ViewInv
  <1>3. ASSUME NEW d \in Conns, ~Idle(d)', Key(d)' \notin crossed'
        PROVE  \/ directory'[Key(d)'] = d
               \/ directory'[Key(d)'] = NoConn /\ socket'[d] = "reaped"
    <2>1. ~Idle(d) /\ Key(d)' = Key(d) /\ (socket[d] = "reaped" => socket'[d] = "reaped")
      BY <1>3
    <2>2. Key(d) \notin crossed BY <1>1, <1>2, <1>3, <2>1
    <2> QED BY <2>1, <2>2 DEF ViewInv, TasksTrue
  <1> QED BY <1>3 DEF TasksTrue

\* A client that is not written to stays up to date as long as those who have
\* news for it keep it.
LEMMA UpToDateKept ==
  ASSUME Inv, NEW c \in Conns, NEW k \in Keys, UpToDate(c, k),
         Listing'[k] = Listing[k], Settled(c)'[k] = Settled(c)[k],
         \A d \in Conns : Owes(d, c) /\ Key(d) = k =>
            Owes(d, c)' /\ task'[d].msg = task[d].msg
  PROVE  UpToDate(c, k)'
  <1>1. NewsAbout(k)' = NewsAbout(k) BY DEF NewsAbout, Leave, Announce
  <1>2. CASE Settled(c)[k] = Listing[k] BY <1>2 DEF UpToDate
  <1>3. ASSUME NEW d \in Conns, task[d].msg = NewsAbout(k), Owes(d, c)
        PROVE  ToBeTold(c, NewsAbout(k))'
    <2>1. Key(d) = k BY <1>3, NewsKey DEF Owes, Idle
    <2>2. Owes(d, c)' /\ task'[d].msg = NewsAbout(k)' BY <1>1, <1>3, <2>1
    <2> QED BY <2>2 DEF ToBeTold
  <1> QED BY <1>2, <1>3 DEF UpToDate, ToBeTold

\* Losing a connection ends what its client will be told over it.
LEMMA BreakViews ==
  ASSUME ViewInv, NEW d \in Conns, Break(d), Cross
  PROVE  ViewInv'
  <1> USE DEF ViewInv
  <1>1. Inv' BY BreakInv
  <1>2. /\ socket' = [socket EXCEPT ![d] = "broken"]
        /\ UNCHANGED <<owner, user, directory, synced, task, view>>
        /\ socket[d] = "open" /\ inbox[d] \in Seq(Message)
    BY DEF Break, Inv, TypeOK
  <1>3. \A c \in Conns \ {d} : inbox'[c] = inbox[c] /\ socket'[c] = socket[c]
    BY DEF Break, Inv, TypeOK
  <1>4. socket'[d] = "broken"
    BY <1>2 DEF Inv, TypeOK
  <1>5. inbox[d] = <<>> => inbox'[d] = <<>>
    BY <1>2 DEF Break, Inv, TypeOK
  <1>6. OneReader'
    BY <1>2, <1>3, <1>4, <1>5 DEF OneReader
  <1>7. Blank'
    BY <1>2, <1>3, <1>4 DEF Blank
  <1>8. \A c \in Conns : Key(c)' = Key(c) /\ FirstSession(c)' = FirstSession(c)
    BY <1>2 DEF Key, FirstSession
  <1>9. \A c \in Conns : socket'[c] = "open" => socket[c] = "open" /\ Settled(c)' = Settled(c)
    BY <1>2, <1>3, <1>4, SettledKept
  <1>10. Registered' = Registered /\ Registered \subseteq Conns /\ Listing' = Listing
    BY <1>2 DEF Registered, Named, Listing, Inv, TypeOK
  <1>11. Unheard'
    BY <1>2, <1>3, <1>4, <1>8 DEF Unheard
  <1>12. \A e \in Conns : ~Idle(e)' => ~Idle(e)
    BY <1>2, <1>3, <1>4 DEF Idle, Recipients, Inv, TypeOK, Sending
  <1>13. TasksTrue'
    BY <1>2, <1>3, <1>4, <1>8, <1>12, TasksKept
  <1>14. \A k \in Keys \ crossed' : k \notin crossed
    BY <1>2, CrossedStays
  <1>15. Covered'
    <2>1. ASSUME NEW c \in Registered, NEW k \in Keys \ crossed, socket'[c] = "open", Relevant(c, k)
          PROVE  UpToDate(c, k)'
      <3>1. UpToDate(c, k) BY <1>9, <1>10, <2>1 DEF Covered
      <3>2. ASSUME NEW e \in Conns, Owes(e, c) PROVE Owes(e, c)' /\ task'[e].msg = task[e].msg
        BY <1>2, <1>10, <2>1, <3>2 DEF Owes, Recipients
      <3> QED BY <1>9, <1>10, <2>1, <3>1, <3>2, UpToDateKept
    <2>2. \A c \in Conns, k \in Keys : Relevant(c, k)' = Relevant(c, k)
      BY <1>2, <1>8, <1>10 DEF Relevant
    <2> QED BY <1>10, <1>14, <2>1, <2>2 DEF Covered
  <1>16. OwnEntry'
    <2>1. \A c \in Registered : Key(c) \in Keys
      BY RegisteredAt
    <2> QED BY <1>2, <1>8, <1>9, <1>10, <1>14, <2>1 DEF OwnEntry
  <1>17. FirstListed'
    BY <1>2, <1>8, <1>9 DEF FirstListed
  <1> QED BY <1>1, <1>6, <1>7, <1>11, <1>13, <1>15, <1>16, <1>17

\* Reading takes a message from the inbox and applies it.
LEMMA ReceiveViews ==
  ASSUME ViewInv, NEW d \in Conns, Receive(d), Cross
  PROVE  ViewInv'
  <1> USE DEF ViewInv
  <1>1. Inv' BY ReceiveInv
  <1>2. /\ inbox[d] # <<>> /\ inbox[d] \in Seq(Message)
        /\ owner[d] \in Clients
        /\ UNCHANGED <<owner, socket, user, directory, synced, task>>
    BY DEF Receive, Inv, TypeOK, OwnersKnown
  <1>3. inbox'[d] = Tail(inbox[d]) /\ \A c \in Conns \ {d} : inbox'[c] = inbox[c]
    BY DEF Receive, Inv, TypeOK
  <1>4. /\ view'[owner[d]] = Apply(view[owner[d]], Head(inbox[d]))
        /\ \A i \in Clients : i # owner[d] => view'[i] = view[i]
    BY <1>2 DEF Receive, Inv, TypeOK
  <1>5. OneReader'
    BY <1>2, <1>3 DEF OneReader
  <1>6. Blank'
    BY <1>2 DEF Blank
  <1>7. Settled(d)' = Settled(d)
    BY <1>2, <1>3, <1>4, SettledIs, AfterRead
  <1>8. ASSUME NEW c \in Conns, c # d, socket[c] = "open"
        PROVE  owner[c] # owner[d] /\ owner[c] \in Clients /\ view'[owner[c]] = view[owner[c]]
    BY <1>2, <1>4, <1>8, InUse DEF OneReader
  <1>9. \A c \in Conns : socket[c] = "open" => Settled(c)' = Settled(c)
    BY <1>2, <1>3, <1>7, <1>8, SettledKept
  <1>10. \A c \in Conns : Key(c)' = Key(c) /\ FirstSession(c)' = FirstSession(c)
    BY <1>2 DEF Key, FirstSession
  <1>11. Registered' = Registered /\ Registered \subseteq Conns /\ Listing' = Listing
    BY <1>2 DEF Registered, Named, Listing, Inv, TypeOK
  <1>12. Unheard'
    <2>2. \A i \in Clients : (\A c \in Conns : owner[c] # i) => view'[i] = view[i]
      BY <1>4
    <2>3. ASSUME NEW c \in Conns, socket[c] = "open", FirstSession(c), user[c] = NoUser
          PROVE  inbox'[c] = inbox[c] /\ view'[owner[c]] = view[owner[c]]
      BY <1>2, <1>3, <1>8, <2>3 DEF Unheard
    <2> QED BY <1>2, <1>10, <2>2, <2>3 DEF Unheard
  <1>13. \A e \in Conns : Idle(e)' = Idle(e) /\ \A c \in Conns : Owes(e, c)' = Owes(e, c)
    BY <1>2, <1>11 DEF Idle, Recipients, Owes
  <1>14. TasksTrue'
    BY <1>2, <1>10, <1>13, TasksKept
  <1>15. \A k \in Keys \ crossed' : k \notin crossed
    BY <1>2, CrossedStays
  <1>16. Covered'
    <2>1. ASSUME NEW c \in Registered, NEW k \in Keys \ crossed, socket[c] = "open", Relevant(c, k)
          PROVE  UpToDate(c, k)'
      <3>1. UpToDate(c, k) BY <1>11, <2>1 DEF Covered
      <3> QED BY <1>2, <1>9, <1>11, <1>13, <2>1, <3>1, UpToDateKept
    <2>2. \A c \in Conns, k \in Keys : Relevant(c, k)' = Relevant(c, k)
      BY <1>2, <1>10, <1>11 DEF Relevant
    <2> QED BY <1>2, <1>11, <1>15, <2>1, <2>2 DEF Covered
  <1>17. OwnEntry'
    <2>1. \A c \in Registered : Key(c) \in Keys
      BY RegisteredAt
    <2> QED BY <1>2, <1>9, <1>10, <1>11, <1>15, <2>1 DEF OwnEntry
  <1>18. FirstListed'
    BY <1>2, <1>10 DEF FirstListed
  <1> QED BY <1>1, <1>5, <1>6, <1>12, <1>14, <1>16, <1>17, <1>18

\* A new connection is in no entry; it takes over what is left to read of the
\* client's earlier ones.
LEMMA ConnectViews ==
  ASSUME ViewInv, NEW i \in Clients, NEW d \in Conns, Connect(i, d), Cross
  PROVE  ViewInv'
  <1> USE DEF ViewInv
  <1>1. Inv' BY ConnectInv
  <1>2. /\ socket[d] = "unused" /\ owner[d] = NoClient /\ user[d] = NoUser
        /\ inbox[d] = <<>>
        /\ owner'[d] = i /\ socket'[d] = "open"
        /\ \A c \in Conns \ {d} : owner'[c] = owner[c] /\ socket'[c] = socket[c]
        /\ \A c \in Conns : owner[c] = i => socket[c] # "open"
        /\ UNCHANGED <<user, directory, synced, task, view>>
    BY DEF Connect, Inv, TypeOK, Blank, OwnersKnown
  <1>3. /\ \A c \in Conns : owner[c] # i /\ c # d => inbox'[c] = inbox[c]
        /\ \A c \in Conns : owner[c] = i => inbox'[c] = <<>>
        /\ (\A c \in Conns : owner[c] # i) => inbox'[d] = <<>>
    <2>1. CASE Leftover(i) = {} /\ UNCHANGED inbox
      BY <1>2, <2>1 DEF Leftover
    <2>2. ASSUME NEW e \in Leftover(i), inbox' = [inbox EXCEPT ![d] = inbox[e], ![e] = <<>>]
          PROVE  /\ \A c \in Conns : owner[c] # i /\ c # d => inbox'[c] = inbox[c]
                 /\ \A c \in Conns : owner[c] = i => inbox'[c] = <<>>
                 /\ (\A c \in Conns : owner[c] # i) => inbox'[d] = <<>>
      <3>1. e \in Conns /\ owner[e] = i /\ inbox[e] # <<>> /\ e # d
        BY <1>2, <2>2 DEF Leftover
      <3>2. \A c \in Conns \ {e} : owner[c] = i => inbox[c] = <<>>
        BY <3>1 DEF OneReader
      <3>3. \A c \in Conns \ {d, e} : inbox'[c] = inbox[c]
        BY <2>2 DEF Inv, TypeOK
      <3>4. inbox'[e] = <<>>
        BY <2>2, <3>1 DEF Inv, TypeOK
      <3>5. owner[d] # i
        BY <1>2, ConnectionAssumption
      <3> QED BY <3>1, <3>2, <3>3, <3>4, <3>5
    <2> QED BY <2>1, <2>2 DEF Connect
  <1>4. OneReader'
    BY <1>2, <1>3, ConnectionAssumption DEF OneReader
  <1>5. Blank'
    BY <1>2 DEF Blank
  <1>6. ASSUME NEW c \in Conns, c # d, socket'[c] = "open"
        PROVE  /\ socket[c] = "open" /\ owner[c] # i
               /\ Key(c)' = Key(c) /\ Settled(c)' = Settled(c)
               /\ FirstSession(c)' => FirstSession(c)
    <2>1. socket[c] = "open" /\ owner[c] # i /\ owner'[c] = owner[c] /\ inbox'[c] = inbox[c]
      BY <1>2, <1>3, <1>6
    <2>2. Settled(c)' = Settled(c)
      BY <1>2, <2>1, SettledKept
    <2>3. Key(c)' = Key(c)
      BY <2>1 DEF Key
    <2>4. FirstSession(c)' => FirstSession(c)
      BY <1>2, <2>1 DEF FirstSession, Key
    <2> QED BY <2>1, <2>2, <2>3, <2>4
  <1>7. Registered' = Registered /\ Registered \subseteq Conns \ {d} /\ Listing' = Listing
    BY <1>2 DEF Registered, Named, Listing, Inv, TypeOK, EntriesLive
  <1>8. \A e \in Conns : d \notin task[e].to
    BY <1>2 DEF Inv, TaskNews
  <1>9. \A e \in Conns : Recipients(e)' = Recipients(e)
    BY <1>2, <1>8 DEF Recipients, Inv, TypeOK, Sending
  <1>10. \A e \in Conns : Idle(e)' = Idle(e) /\ \A c \in Conns : Owes(e, c)' = Owes(e, c)
    BY <1>2, <1>7, <1>9 DEF Idle, Owes
  <1>11. TasksTrue'
    <2>1. ASSUME NEW e \in Conns, ~Idle(e)
          PROVE  Key(e)' = Key(e) /\ (socket[e] = "reaped" => socket'[e] = "reaped")
      <3>1. e # d BY <1>2, <2>1, OwesNews
      <3> QED BY <1>2, <3>1 DEF Key
    <2> QED BY <1>2, <1>10, <2>1, TasksKept
  <1>12. \A k \in Keys \ crossed' : k \notin crossed
    BY <1>2, CrossedStays
  <1>13. Covered'
    <2>1. ASSUME NEW c \in Registered, NEW k \in Keys \ crossed, socket'[c] = "open", Relevant(c, k)
          PROVE  UpToDate(c, k)'
      <3>1. c \in Conns /\ c # d BY <1>7, <2>1
      <3>2. UpToDate(c, k) BY <1>6, <2>1, <3>1 DEF Covered
      <3>3. Settled(c)' = Settled(c) BY <1>6, <2>1, <3>1
      <3> QED BY <1>2, <1>7, <1>10, <2>1, <3>1, <3>2, <3>3, UpToDateKept
    <2>2. \A c \in Conns, k \in Keys : socket'[c] = "open" /\ c # d /\ Relevant(c, k)' => Relevant(c, k)
      BY <1>2, <1>6, <1>7 DEF Relevant
    <2> QED BY <1>7, <1>12, <2>1, <2>2 DEF Covered
  <1>14. OwnEntry'
    <2>1. \A c \in Registered : Key(c) \in Keys
      BY RegisteredAt
    <2>2. ASSUME NEW c \in Registered, socket'[c] = "open", Key(c)' \notin crossed'
          PROVE  Settled(c)'[Key(c)'] = user'[c] \/ c \in task'[c].to
      <3>1. c \in Conns /\ c # d BY <1>7
      <3>2. socket[c] = "open" /\ Key(c)' = Key(c) /\ Settled(c)' = Settled(c)
        BY <1>6, <2>2, <3>1
      <3> QED BY <1>2, <1>12, <2>1, <2>2, <3>2 DEF OwnEntry
    <2> QED BY <1>7, <2>2 DEF OwnEntry
  <1>15. FirstListed'
    BY <1>2, <1>6 DEF FirstListed
  <1>16. Unheard'
    <2>1. ASSUME NEW j \in Clients, \A c \in Conns : owner'[c] # j
          PROVE  \A c \in Conns : owner[c] # j
      BY <1>2, <2>1, ConnectionAssumption
    <2>2. ASSUME FirstSession(d)'
          PROVE  \A c \in Conns : owner[c] # i
      <3>1. ASSUME NEW c \in Conns, owner[c] = i PROVE FALSE
        BY <1>2, <2>2, <3>1, ConnectionAssumption DEF FirstSession, Key
      <3> QED BY <3>1
    <2>3. ASSUME NEW c \in Conns, c # d, socket'[c] = "open", FirstSession(c)', user'[c] = NoUser
          PROVE  inbox'[c] = <<>> /\ \A k \in Keys : view'[owner'[c]][k] = NoUser
      BY <1>2, <1>3, <1>6, <2>3 DEF Unheard
    <2>4. ASSUME FirstSession(d)'
          PROVE  inbox'[d] = <<>> /\ \A k \in Keys : view'[owner'[d]][k] = NoUser
      BY <1>2, <1>3, <2>2, <2>4 DEF Unheard
    <2> QED BY <1>2, <2>1, <2>3, <2>4 DEF Unheard
  <1> QED BY <1>1, <1>4, <1>5, <1>11, <1>13, <1>14, <1>15, <1>16

\* The list puts everybody else's entry into the view; the client's own it has.
LEMMA ListPeersViews ==
  ASSUME ViewInv, NEW d \in Conns, ListPeers(d), Cross
  PROVE  ViewInv'
  <1> USE DEF ViewInv
  <1>1. Inv' BY ListPeersInv
  <1>2. /\ socket[d] = "open" /\ user[d] # NoUser
        /\ UNCHANGED <<owner, socket, user, directory, task, view>>
        /\ synced' = synced \cup {d}
        /\ inbox[d] \in Seq(Message) /\ inbox'[d] = Append(inbox[d], PeersFor(d))
        /\ \A c \in Conns \ {d} : inbox'[c] = inbox[c]
    BY DEF ListPeers, Inv, TypeOK
  <1>3. Key(d) \in Keys /\ owner[d] \in Clients
    BY <1>2, InUse
  <1>4. OneReader'
    BY <1>2, <1>3 DEF OneReader
  <1>5. Blank'
    BY <1>2 DEF Blank
  <1>6. d \notin task[d].to
    BY <1>2 DEF ListPeers, Idle, Recipients
  <1>7. \A c \in Conns : Key(c)' = Key(c) /\ FirstSession(c)' = FirstSession(c)
    BY <1>2 DEF Key, FirstSession
  <1>8. Registered' = Registered /\ Registered \subseteq Conns /\ Listing' = Listing
    BY <1>2 DEF Registered, Named, Listing, Inv, TypeOK
  <1>9. \A c \in Conns \ {d} : Settled(c)' = Settled(c)
    BY <1>2, SettledKept
  <1>10. ASSUME NEW k \in Keys
         PROVE  Settled(d)'[k] = IF k # Key(d) /\ Listing[k] # NoUser THEN Listing[k] ELSE Settled(d)[k]
    <2>1. Listing \in View
      BY ListingType DEF View, Inv
    <2>2. PeersFor(d) \in Message
      <3>1. [Listing EXCEPT ![Key(d)] = NoUser] \in [Keys -> Users \cup {NoUser}]
        BY <2>1 DEF View
      <3> QED BY <3>1, MessageTypes DEF PeersFor
    <2>3. Settled(d)' = Apply(Settled(d), PeersFor(d))
      <3>1. Settled(d)' = After(view[owner[d]], Append(inbox[d], PeersFor(d)))
        BY <1>2, SettledIs
      <3>2. After(view[owner[d]], Append(inbox[d], PeersFor(d)))
               = Apply(After(view[owner[d]], inbox[d]), PeersFor(d))
        BY <1>2, <2>2, AfterAppend
      <3> QED BY <3>1, <3>2, SettledIs
    <2>4. Apply(Settled(d), PeersFor(d))
             = [q \in Keys |-> IF [Listing EXCEPT ![Key(d)] = NoUser][q] # NoUser
                               THEN [Listing EXCEPT ![Key(d)] = NoUser][q] ELSE Settled(d)[q]]
      BY DEF Apply, PeersFor, PeersList
    <2> QED BY <1>3, <2>1, <2>3, <2>4 DEF View
  <1>11. \A e \in Conns : Idle(e)' = Idle(e) /\ \A c \in Conns : Owes(e, c)' = Owes(e, c)
    BY <1>2, <1>8 DEF Idle, Recipients, Owes
  <1>12. TasksTrue'
    BY <1>2, <1>7, <1>11, TasksKept
  <1>13. \A k \in Keys \ crossed' : k \notin crossed
    BY <1>2, CrossedStays
  <1>14. Covered'
    <2>1. ASSUME NEW c \in Registered, NEW k \in Keys \ crossed, socket[c] = "open",
                 Relevant(c, k), Settled(c)'[k] = Settled(c)[k]
          PROVE  UpToDate(c, k)'
      <3>1. UpToDate(c, k) BY <1>8, <2>1 DEF Covered
      <3> QED BY <1>2, <1>8, <1>11, <2>1, <3>1, UpToDateKept
    <2>2. ASSUME NEW k \in Keys \ crossed, d \in Registered, Listing[k] # NoUser
          PROVE  UpToDate(d, k)'
      <3>1. CASE k # Key(d) BY <1>8, <1>10, <2>2, <3>1 DEF UpToDate
      <3>2. CASE k = Key(d)
        <4>1. directory[k] = d
          BY <2>2, <3>2, RegisteredAt
        <4>2. Listing[k] = user[d]
          BY <4>1, ConnectionAssumption DEF Listing
        <4>3. Settled(d)[k] = user[d]
          BY <1>2, <1>6, <2>2, <3>2 DEF OwnEntry
        <4> QED BY <1>8, <1>10, <3>2, <4>2, <4>3 DEF UpToDate
      <3> QED BY <3>1, <3>2
    <2>3. ASSUME NEW c \in Registered, NEW k \in Keys \ crossed, socket[c] = "open", Relevant(c, k)'
          PROVE  UpToDate(c, k)'
      <3>1. CASE c = d /\ Listing[k] # NoUser BY <2>2, <2>3, <3>1
      <3>2. CASE c = d /\ Listing[k] = NoUser
        <4>1. Relevant(c, k) BY <1>7, <1>8, <2>3, <3>2 DEF Relevant
        <4> QED BY <1>10, <2>1, <2>3, <3>2, <4>1
      <3>3. CASE c # d
        <4>1. Relevant(c, k) BY <1>2, <1>7, <1>8, <2>3, <3>3 DEF Relevant
        <4> QED BY <1>8, <1>9, <2>1, <2>3, <3>3, <4>1
      <3> QED BY <3>1, <3>2, <3>3
    <2> QED BY <1>2, <1>8, <1>13, <2>3 DEF Covered
  <1>15. OwnEntry'
    <2>1. \A c \in Registered : Key(c) \in Keys
      BY RegisteredAt
    <2>2. \A c \in Registered : Settled(c)'[Key(c)] = Settled(c)[Key(c)]
      BY <1>3, <1>8, <1>9, <1>10
    <2> QED BY <1>2, <1>7, <1>8, <1>13, <2>1, <2>2 DEF OwnEntry
  <1>16. FirstListed'
    BY <1>2, <1>7 DEF FirstListed
  <1>17. Unheard'
    BY <1>2, <1>7 DEF Unheard
  <1> QED BY <1>1, <1>4, <1>5, <1>12, <1>14, <1>15, <1>16, <1>17

\* A broadcast that begins goes to all it was to go to.
LEMMA BroadcastViews ==
  ASSUME ViewInv, NEW d \in Conns, Broadcast(d), Cross
  PROVE  ViewInv'
  <1> USE DEF ViewInv
  <1>1. Inv' BY BroadcastInv
  <1>2. /\ Recipients(d) = {} /\ task[d].all
        /\ UNCHANGED <<owner, socket, user, directory, synced, inbox, view>>
        /\ \A e \in Conns \ {d} : task'[e] = task[e]
    BY DEF Broadcast, Inv, TypeOK
  <1>3. task'[d] = [to |-> Registered, all |-> FALSE, msg |-> task[d].msg]
    <2>1. task[d] \in Sending
      BY DEF Inv, TypeOK
    <2>2. task'[d] = [task[d] EXCEPT !.to = Registered, !.all = FALSE]
      BY DEF Broadcast, Inv, TypeOK
    <2> QED BY <2>1, <2>2 DEF Sending
  <1>4. OneReader'
    BY <1>2 DEF OneReader
  <1>5. Blank'
    BY <1>2 DEF Blank
  <1>6. \A c \in Conns : Key(c)' = Key(c) /\ FirstSession(c)' = FirstSession(c)
    BY <1>2 DEF Key, FirstSession
  <1>7. \A c \in Conns : Settled(c)' = Settled(c)
    BY <1>2, SettledKept
  <1>8. Registered' = Registered /\ Registered \subseteq Conns /\ Listing' = Listing
    BY <1>2 DEF Registered, Named, Listing, Inv, TypeOK
  <1>9. \A e \in Conns : ~Idle(e)' => ~Idle(e)
    BY <1>2, <1>3 DEF Idle, Recipients
  <1>10. \A e \in Conns : task'[e].all => task[e].all
    BY <1>2, <1>3
  <1>11. ASSUME NEW e \in Conns, NEW c \in Conns, socket[c] = "open", Owes(e, c)
         PROVE  Owes(e, c)' /\ task'[e].msg = task[e].msg
    <2>1. CASE e = d
      <3>1. c \in Registered BY <1>2, <1>11, <2>1 DEF Owes
      <3> QED BY <1>2, <1>3, <1>11, <2>1, <3>1 DEF Owes, Recipients
    <2>2. CASE e # d
      BY <1>2, <1>8, <1>11, <2>2 DEF Owes, Recipients
    <2> QED BY <2>1, <2>2
  <1>12. TasksTrue'
    BY <1>2, <1>6, <1>9, <1>10, TasksKept
  <1>13. \A k \in Keys \ crossed' : k \notin crossed
    BY <1>10, CrossedStays
  <1>14. Covered'
    <2>1. ASSUME NEW c \in Registered, NEW k \in Keys \ crossed, socket[c] = "open", Relevant(c, k)
          PROVE  UpToDate(c, k)'
      <3>1. UpToDate(c, k) BY <2>1 DEF Covered
      <3> QED BY <1>7, <1>8, <1>11, <2>1, <3>1, UpToDateKept
    <2>2. \A c \in Conns, k \in Keys : Relevant(c, k)' = Relevant(c, k)
      BY <1>2, <1>6, <1>8 DEF Relevant
    <2> QED BY <1>2, <1>8, <1>13, <2>1, <2>2 DEF Covered
  <1>15. OwnEntry'
    <2>1. ASSUME NEW c \in Registered, socket[c] = "open", Key(c) \notin crossed'
          PROVE  Settled(c)[Key(c)] = user[c] \/ c \in task'[c].to
      <3>1. Key(c) \in Keys BY RegisteredAt
      <3>2. Settled(c)[Key(c)] = user[c] \/ c \in task[c].to
        BY <1>13, <2>1, <3>1 DEF OwnEntry
      <3>3. c = d => c \notin task[c].to BY <1>2, <2>1 DEF Recipients
      <3> QED BY <1>2, <1>8, <3>2, <3>3
    <2> QED BY <1>2, <1>6, <1>7, <1>8, <2>1 DEF OwnEntry
  <1>16. FirstListed'
    BY <1>2, <1>6 DEF FirstListed
  <1>17. Unheard'
    BY <1>2, <1>6 DEF Unheard
  <1> QED BY <1>1, <1>4, <1>5, <1>12, <1>14, <1>15, <1>16, <1>17

\* What one message does to one entry of a view.
LEMMA ApplyAt ==
  ASSUME NEW v \in View, NEW k \in Keys, NEW u \in Users
  PROVE  /\ Apply(v, Announce(k, u)) = [v EXCEPT ![k] = u]
         /\ Apply(v, Leave(k)) = [v EXCEPT ![k] = NoUser]
  BY DEF Apply, Announce, Leave

\* A write puts the truth about the key of its task into the view of one
\* client, unless the key is crossed, and leaves the other keys alone.
LEMMA WriteHeard ==
  ASSUME ViewInv, NEW d \in Conns, NEW x \in Conns, Write(d, x)
  PROVE  /\ Key(d) \notin crossed => Settled(x)'[Key(d)] = Listing[Key(d)]
         /\ \A k \in Keys \ {Key(d)} : Settled(x)'[k] = Settled(x)[k]
  <1> USE DEF ViewInv
  <1>1. /\ ~Idle(d) /\ socket[x] = "open" /\ inbox[x] \in Seq(Message)
        /\ inbox'[x] = Append(inbox[x], task[d].msg) /\ UNCHANGED <<owner, view>>
    BY DEF Write, Idle, Recipients, Inv, TypeOK
  <1>2. /\ user[d] \in Users /\ Key(d) \in Keys
        /\ task[d].msg = IF socket[d] = "reaped" THEN Leave(Key(d)) ELSE Announce(Key(d), user[d])
        /\ task[d].msg \in Message
    BY <1>1, OwesNews
  <1>3. Settled(x) = After(view[owner[x]], inbox[x]) /\ Settled(x)' = After(view[owner[x]], inbox'[x])
    BY <1>1, SettledIs
  <1>4. Settled(x) \in View BY <1>1, SettledType
  <1>5. Settled(x)' = Apply(Settled(x), task[d].msg)
    BY <1>1, <1>2, <1>3, AfterAppend
  <1>6. CASE socket[d] = "reaped"
    <2>1. Settled(x)' = [Settled(x) EXCEPT ![Key(d)] = NoUser]
      BY <1>2, <1>4, <1>5, <1>6, ApplyAt
    <2>2. ASSUME Key(d) \notin crossed PROVE Listing[Key(d)] = NoUser
      <3>1. directory[Key(d)] # d
        BY <1>2, <1>6, ConnectionAssumption DEF Inv, EntriesLive
      <3> QED BY <1>1, <1>2, <2>2, <3>1 DEF TasksTrue, Listing
    <2> QED BY <1>2, <1>4, <2>1, <2>2 DEF View
  <1>7. CASE socket[d] # "reaped"
    <2>1. Settled(x)' = [Settled(x) EXCEPT ![Key(d)] = user[d]]
      BY <1>2, <1>4, <1>5, <1>7, ApplyAt
    <2>2. ASSUME Key(d) \notin crossed PROVE Listing[Key(d)] = user[d]
      <3>1. directory[Key(d)] = d BY <1>1, <1>7, <2>2 DEF TasksTrue
      <3> QED BY <1>2, <3>1, ConnectionAssumption DEF Listing
    <2> QED BY <1>2, <1>4, <2>1, <2>2 DEF View
  <1> QED BY <1>6, <1>7

\* A write tells one client what is true.
LEMMA WriteViews ==
  ASSUME ViewInv, NEW d \in Conns, NEW x \in Conns, Write(d, x), Cross
  PROVE  ViewInv'
  <1> USE DEF ViewInv
  <1>1. Inv' BY WriteInv
  <1>2. /\ x \in task[d].to /\ socket[x] = "open" /\ ~Idle(d)
        /\ UNCHANGED <<owner, socket, user, directory, synced, view>>
        /\ \A e \in Conns \ {d} : task'[e] = task[e]
        /\ \A c \in Conns \ {x} : inbox'[c] = inbox[c]
    BY DEF Write, Idle, Recipients, Inv, TypeOK
  <1>3. task'[d] = [to |-> task[d].to \ {x}, all |-> task[d].all, msg |-> task[d].msg]
    <2>1. task[d] \in Sending
      BY DEF Inv, TypeOK
    <2>2. task'[d] = [task[d] EXCEPT !.to = task[d].to \ {x}]
      BY DEF Write, Inv, TypeOK
    <2> QED BY <2>1, <2>2 DEF Sending
  <1>4. OneReader'
    BY <1>2 DEF OneReader
  <1>5. Blank'
    BY <1>2 DEF Blank
  <1>6. \A c \in Conns : Key(c)' = Key(c) /\ FirstSession(c)' = FirstSession(c)
    BY <1>2 DEF Key, FirstSession
  <1>7. \A c \in Conns \ {x} : Settled(c)' = Settled(c)
    BY <1>2, SettledKept
  <1>8. /\ Key(d) \notin crossed => Settled(x)'[Key(d)] = Listing[Key(d)]
        /\ \A k \in Keys \ {Key(d)} : Settled(x)'[k] = Settled(x)[k]
    BY WriteHeard
  <1>9. Registered' = Registered /\ Registered \subseteq Conns /\ Listing' = Listing
    BY <1>2 DEF Registered, Named, Listing, Inv, TypeOK
  <1>10. \A e \in Conns : task'[e].all = task[e].all /\ task'[e].to \subseteq task[e].to
                           /\ task'[e].msg = task[e].msg
    BY <1>2, <1>3
  <1>11. \A e \in Conns : ~Idle(e)' => ~Idle(e)
    BY <1>2, <1>10 DEF Idle, Recipients
  <1>12. ASSUME NEW e \in Conns, NEW c \in Conns, Owes(e, c), e # d \/ c # x
         PROVE  Owes(e, c)' /\ task'[e].msg = task[e].msg
    <2>1. c \in Recipients(e) => c \in Recipients(e)'
      BY <1>2, <1>3, <1>12 DEF Recipients
    <2> QED BY <1>9, <1>10, <1>12, <2>1 DEF Owes
  <1>13. TasksTrue'
    BY <1>2, <1>6, <1>10, <1>11, TasksKept
  <1>14. \A k \in Keys \ crossed' : k \notin crossed
    BY <1>10, CrossedStays
  <1>15. Covered'
    <2>1. ASSUME NEW c \in Registered, NEW k \in Keys \ crossed, socket[c] = "open", Relevant(c, k)
          PROVE  UpToDate(c, k)'
      <3>1. UpToDate(c, k) BY <2>1 DEF Covered
      <3>2. CASE c = x /\ k = Key(d)
        BY <1>8, <1>9, <2>1, <3>2 DEF UpToDate
      <3>3. CASE c # x
        BY <1>7, <1>9, <1>12, <2>1, <3>1, <3>3, UpToDateKept
      <3>4. CASE c = x /\ k # Key(d)
        <4>1. \A e \in Conns : Key(e) = k => e # d BY <3>4
        <4> QED BY <1>8, <1>9, <1>12, <2>1, <3>1, <3>4, <4>1, UpToDateKept
      <3> QED BY <3>2, <3>3, <3>4
    <2>2. \A c \in Conns, k \in Keys : Relevant(c, k)' = Relevant(c, k)
      BY <1>2, <1>6, <1>9 DEF Relevant
    <2> QED BY <1>2, <1>9, <1>14, <2>1, <2>2 DEF Covered
  <1>16. OwnEntry'
    <2>1. ASSUME NEW c \in Registered, socket[c] = "open", Key(c) \notin crossed'
          PROVE  Settled(c)'[Key(c)] = user[c] \/ c \in task'[c].to
      <3>1. c \in Conns /\ Key(c) \in Keys /\ directory[Key(c)] = c BY RegisteredAt
      <3>2. Settled(c)[Key(c)] = user[c] \/ c \in task[c].to
        BY <1>14, <2>1, <3>1 DEF OwnEntry
      <3>3. CASE c # x
        <4>1. c \in task[c].to => c \in task'[c].to BY <1>2, <1>3, <3>1, <3>3
        <4> QED BY <1>7, <3>1, <3>2, <3>3, <4>1
      <3>4. CASE c = x /\ Key(c) = Key(d)
        <4>1. Listing[Key(c)] = user[c] BY <3>1, ConnectionAssumption DEF Listing
        <4> QED BY <1>8, <1>14, <2>1, <3>1, <3>4, <4>1
      <3>5. CASE c = x /\ Key(c) # Key(d)
        <4>1. c # d BY <3>5
        <4> QED BY <1>2, <1>8, <3>1, <3>2, <3>5, <4>1
      <3> QED BY <3>3, <3>4, <3>5
    <2> QED BY <1>2, <1>6, <1>9, <2>1 DEF OwnEntry
  <1>17. FirstListed'
    BY <1>2, <1>6 DEF FirstListed
  <1>18. Unheard'
    <2>1. user[x] # NoUser BY <1>2 DEF Inv, TaskNews
    <2> QED BY <1>2, <1>6, <2>1 DEF Unheard
  <1> QED BY <1>1, <1>4, <1>5, <1>13, <1>15, <1>16, <1>17, <1>18

\* A departure is still to be told to all that are listed, or its key is crossed.
LEMMA CleanupViews ==
  ASSUME ViewInv, NEW d \in Conns, Cleanup(d), Cross
  PROVE  ViewInv'
  <1> USE DEF ViewInv
  <1>1. Inv' BY CleanupInv
  <1>2. /\ socket[d] = "broken" /\ socket'[d] = "reaped" /\ Idle(d)
        /\ \A c \in Conns \ {d} : socket'[c] = socket[c] /\ task'[c] = task[c]
        /\ UNCHANGED <<owner, user, synced, inbox, view>>
    BY DEF Cleanup, Inv, TypeOK
  <1>3. /\ user[d] = NoUser => task' = task /\ directory' = directory
        /\ user[d] # NoUser => task'[d] = Departure(d) /\ directory' = Unregister(d)
    BY DEF Cleanup, Inv, TypeOK
  <1>4. Key(d) \in Keys /\ owner[d] \in Clients /\ owner[d] # NoClient
    BY <1>2, InUse
  <1>5. \A k \in Keys : directory'[k] = IF directory[k] = d THEN NoConn ELSE directory[k]
    <2>1. ASSUME NEW k \in Keys, directory[k] = d PROVE user[d] # NoUser /\ Key(d) = k
      BY <2>1, ConnectionAssumption DEF Inv, EntriesLive
    <2>2. CASE user[d] = NoUser BY <1>3, <2>1, <2>2
    <2>3. CASE user[d] # NoUser BY <1>3, <1>4, <2>1, <2>3 DEF Unregister, Inv, TypeOK
    <2> QED BY <2>2, <2>3
  <1>6. \A c \in Conns : Key(c)' = Key(c) /\ FirstSession(c)' = FirstSession(c)
    BY <1>2 DEF Key, FirstSession
  <1>7. \A c \in Conns : Settled(c)' = Settled(c)
    BY <1>2, SettledKept
  <1>8. Registered' = Registered \ {d} /\ Registered \subseteq Conns
    BY <1>5, ConnectionAssumption DEF Registered, Named, Inv, TypeOK
  <1>9. \A k \in Keys : Listing'[k] = IF directory[k] = d THEN NoUser ELSE Listing[k]
    BY <1>2, <1>5, ConnectionAssumption DEF Listing
  <1>10. \A c \in Conns : socket'[c] = "open" => socket[c] = "open" /\ c # d
    BY <1>2
  <1>11. \A e \in Conns \ {d} : Idle(e)' = Idle(e)
    BY <1>2 DEF Idle, Recipients, Inv, TypeOK, Sending
  <1>12. /\ \A k \in Keys \ crossed' : k \notin crossed
         /\ \A k \in Keys \ crossed' : ~Crossing(k)'
    <2>1. \A c \in Conns : task'[c].all => task[c].all
      BY <1>2, <1>3 DEF Departure
    <2> QED BY <2>1, CrossedStays
  <1>13. OneReader'
    BY <1>2 DEF OneReader
  <1>14. Blank'
    BY <1>2 DEF Blank
  <1>15. TasksTrue'
    <2>1. ASSUME NEW e \in Conns, ~Idle(e)', Key(e) \notin crossed'
          PROVE  \/ directory'[Key(e)] = e
                 \/ directory'[Key(e)] = NoConn /\ socket'[e] = "reaped"
      <3>1. Key(e) \in Keys
        BY <1>2, <1>4, <1>11, <2>1, OwesNews
      <3>2. CASE e = d
        <4>1. directory'[Key(d)] # d
          BY <1>4, <1>5, ConnectionAssumption
        <4>2. directory'[Key(d)] = NoConn
          BY <1>4, <1>6, <1>12, <2>1, <3>2, <4>1 DEF Crossing
        <4> QED BY <1>2, <3>2, <4>2
      <3>3. CASE e # d
        <4>1. \/ directory[Key(e)] = e
              \/ directory[Key(e)] = NoConn /\ socket[e] = "reaped"
          BY <1>11, <1>12, <2>1, <3>1, <3>3 DEF TasksTrue
        <4> QED BY <1>2, <1>5, <3>1, <3>3, <4>1
      <3> QED BY <3>2, <3>3
    <2> QED BY <1>6, <2>1 DEF TasksTrue
  <1>16. Covered'
    <2>1. ASSUME NEW c \in Registered \ {d}, NEW k \in Keys \ crossed', socket'[c] = "open", Relevant(c, k)'
          PROVE  UpToDate(c, k)'
      <3>1. c \in Conns /\ socket[c] = "open" BY <1>8, <1>10, <2>1
      <3>2. CASE directory[k] = d
        <4>1. user[d] # NoUser /\ Key(d) = k
          BY <3>2, ConnectionAssumption DEF Inv, EntriesLive
        <4>2. task'[d].msg = Leave(k) /\ task'[d].to = Registered'
          BY <1>3, <4>1 DEF Departure, Registered
        <4>3. NewsAbout(k)' = Leave(k)
          BY <1>9, <3>2 DEF NewsAbout, Leave
        <4>4. Owes(d, c)'
          BY <1>8, <2>1, <3>1, <4>2 DEF Owes, Recipients
        <4> QED BY <4>2, <4>3, <4>4 DEF UpToDate, ToBeTold
      <3>3. CASE directory[k] # d
        <4>1. Listing'[k] = Listing[k] BY <1>9, <3>3
        <4>2. UpToDate(c, k)
          BY <1>2, <1>6, <1>12, <2>1, <3>1, <4>1 DEF Covered, Relevant
        <4>3. ASSUME NEW e \in Conns, Owes(e, c) PROVE Owes(e, c)' /\ task'[e].msg = task[e].msg
          <5>1. e # d BY <1>2, <4>3 DEF Owes, Idle
          <5> QED BY <1>2, <1>8, <2>1, <4>3, <5>1 DEF Owes, Recipients
        <4> QED BY <1>7, <3>1, <4>1, <4>2, <4>3, UpToDateKept
      <3> QED BY <3>2, <3>3
    <2> QED BY <1>8, <2>1 DEF Covered
  <1>17. OwnEntry'
    <2>1. ASSUME NEW c \in Registered \ {d}, socket'[c] = "open", Key(c) \notin crossed'
          PROVE  Settled(c)[Key(c)] = user[c] \/ c \in task'[c].to
      <3>1. c \in Conns /\ Key(c) \in Keys BY RegisteredAt
      <3> QED BY <1>2, <1>10, <1>12, <2>1, <3>1 DEF OwnEntry
    <2> QED BY <1>2, <1>6, <1>7, <1>8, <2>1 DEF OwnEntry
  <1>18. FirstListed'
    <2>1. ASSUME NEW c \in Conns, socket'[c] = "open", FirstSession(c), user[c] # NoUser
          PROVE  directory'[Key(c)] = c
      <3>1. c # d /\ directory[Key(c)] = c /\ Key(c) \in Keys
        BY <1>10, <2>1, InUse DEF FirstListed
      <3> QED BY <1>5, <3>1
    <2> QED BY <1>2, <1>6, <2>1 DEF FirstListed
  <1>19. Unheard'
    BY <1>2, <1>6, <1>10 DEF Unheard
  <1> QED BY <1>1, <1>13, <1>14, <1>15, <1>16, <1>17, <1>18, <1>19

\* A step is the login of one connection.
LEMMA LoginAlone ==
  ASSUME Inv, NEW d \in Conns, NEW u \in Users, Login(d, u), Cross
  PROVE  /\ \A k \in Keys \ crossed' : k # Key(d) => k \notin crossed
         /\ \A k \in Keys \ crossed' : ~Crossing(k)'
  <1>1. ASSUME NEW c \in Conns, NEW v \in Users, Login(c, v) PROVE c = d
    <2>1. ~task[c].all BY <1>1 DEF Login, Idle
    <2>2. task'[c] = Announcement(c, v) BY <1>1 DEF Login, Inv, TypeOK
    <2>3. task'[c].all BY <2>2 DEF Announcement
    <2>4. c # d => task'[c] = task[c] BY DEF Login, Inv, TypeOK
    <2> QED BY <2>1, <2>3, <2>4
  <1>2. \A k \in Keys : LoggedIn(k) => k = Key(d) BY <1>1 DEF LoggedIn
  <1> QED BY <1>2 DEF Cross

\* A login is still to be told to all that are listed.
LEMMA LoginViews ==
  ASSUME ViewInv, NEW d \in Conns, NEW u \in Users, Login(d, u), Cross
  PROVE  ViewInv'
  <1> USE DEF ViewInv
  <1>1. Inv' BY LoginInv
  <1>2. /\ socket[d] = "open" /\ Idle(d)
        /\ UNCHANGED <<owner, socket, inbox, view>>
        /\ user'[d] = u /\ \A c \in Conns \ {d} : user'[c] = user[c]
        /\ task'[d] = Announcement(d, u) /\ \A c \in Conns \ {d} : task'[c] = task[c]
        /\ synced' = synced \ {d}
        /\ u # NoUser
    BY ConnectionAssumption DEF Login, Inv, TypeOK
  <1>3. Key(d) \in Keys /\ owner[d] \in Clients
    BY <1>2, InUse
  <1>4. directory'[Key(d)] = d /\ \A k \in Keys \ {Key(d)} : directory'[k] = directory[k]
    BY <1>3 DEF Login, Register, Inv, TypeOK
  <1>5. \A c \in Conns : /\ Key(c)' = Key(c) /\ FirstSession(c)' = FirstSession(c)
                          /\ Settled(c)' = Settled(c)
    <2>1. \A c \in Conns : Settled(c)' = Settled(c) BY <1>2, SettledKept
    <2> QED BY <1>2, <2>1 DEF Key, FirstSession
  <1>6. \A c \in Conns : c \in Registered' => c = d \/ (c \in Registered /\ Key(c) # Key(d))
    <2>1. ASSUME NEW c \in Conns, c \in Registered', c # d
          PROVE  c \in Registered /\ Key(c) # Key(d)
      <3>1. owner'[c] \in Clients /\ Key(c)' \in Keys /\ directory'[Key(c)'] = c
        BY <1>1, <2>1, RegisteredNext DEF RegisteredByKey
      <3>2. Key(c)' = Key(c) /\ owner'[c] = owner[c]
        BY <1>2, <1>5
      <3>3. Key(c) # Key(d) /\ directory[Key(c)] = c
        BY <1>4, <2>1, <3>1, <3>2
      <3> QED BY <3>1, <3>2, <3>3, RegisteredIs DEF RegisteredByKey
    <2> QED BY <2>1
  <1>7. /\ Listing'[Key(d)] = u
        /\ \A k \in Keys \ {Key(d)} : Listing'[k] = Listing[k]
    BY <1>2, <1>3, <1>4, ConnectionAssumption DEF Listing, Inv, TypeOK, EntriesLive
  <1>8. /\ \A k \in Keys \ crossed' : k # Key(d) => k \notin crossed
        /\ \A k \in Keys \ crossed' : ~Crossing(k)'
    BY LoginAlone
  <1>9. Registered' \subseteq Conns
    BY <1>1 DEF Registered, Named, Inv, TypeOK
  <1>10. \A e \in Conns \ {d} : Idle(e)' = Idle(e)
    BY <1>2 DEF Idle, Recipients
  <1>11. OneReader'
    BY <1>2 DEF OneReader
  <1>12. Blank'
    BY <1>2 DEF Blank
  <1>13. TasksTrue'
    <2>1. ASSUME NEW e \in Conns, ~Idle(e)', Key(e) \notin crossed'
          PROVE  \/ directory'[Key(e)] = e
                 \/ directory'[Key(e)] = NoConn /\ socket'[e] = "reaped"
      <3>1. CASE e = d BY <1>4, <3>1
      <3>2. CASE e # d
        <4>1. Key(e) \in Keys BY <1>10, <2>1, <3>2, OwesNews
        <4>2. Key(e) # Key(d)
          <5>1. \A k \in Keys \ crossed' : Key(e)' = k => directory'[k] \in {e, NoConn}
            BY <1>8, <2>1 DEF Crossing
          <5> QED BY <1>4, <1>5, <2>1, <3>2, <4>1, <5>1, ConnectionAssumption
        <4> QED BY <1>2, <1>4, <1>8, <1>10, <2>1, <3>2, <4>1, <4>2 DEF TasksTrue
      <3> QED BY <3>1, <3>2
    <2> QED BY <1>5, <2>1 DEF TasksTrue
  <1>14. ASSUME NEW c \in Conns, c \in Registered', socket[c] = "open",
                NEW k \in Keys \ {Key(d)}, UpToDate(c, k)
         PROVE  UpToDate(c, k)'
    <2>1. ASSUME NEW e \in Conns, Owes(e, c) PROVE Owes(e, c)' /\ task'[e].msg = task[e].msg
      <3>1. e # d BY <1>2, <2>1 DEF Owes, Idle
      <3> QED BY <1>2, <1>14, <2>1, <3>1 DEF Owes, Recipients
    <2> QED BY <1>5, <1>7, <1>14, <2>1, UpToDateKept
  <1>15. Covered'
    <2>1. ASSUME NEW c \in Registered', NEW k \in Keys \ crossed', socket[c] = "open", Relevant(c, k)'
          PROVE  UpToDate(c, k)'
      <3>1. c \in Conns BY <1>9
      <3>2. CASE k = Key(d)
        <4>1. NewsAbout(k)' = Announce(k, u)
          BY <1>2, <1>7, <3>2 DEF NewsAbout, Announce
        <4>2. task'[d].msg = Announce(k, u) /\ Owes(d, c)'
          BY <1>2, <3>2 DEF Announcement, Owes
        <4> QED BY <4>1, <4>2 DEF UpToDate, ToBeTold
      <3>3. CASE k # Key(d) /\ c # d
        <4>1. c \in Registered BY <1>6, <3>1, <3>3
        <4>2. Relevant(c, k) BY <1>2, <1>5, <1>7, <2>1, <3>1, <3>3 DEF Relevant
        <4> QED BY <1>8, <1>14, <2>1, <3>1, <3>3, <4>1, <4>2 DEF Covered
      <3>4. CASE k # Key(d) /\ c = d
        <4>1. Listing[k] = NoUser /\ Listing'[k] = NoUser /\ FirstSession(d)
          BY <1>2, <1>5, <1>7, <2>1, <3>4 DEF Relevant
        <4>2. CASE user[d] # NoUser
          <5>1. d \in Registered
            BY <1>2, <1>3, <4>1, <4>2, RegisteredAt DEF FirstListed
          <5> QED BY <1>2, <1>8, <1>14, <2>1, <3>4, <4>1, <5>1 DEF Covered, Relevant
        <4>3. CASE user[d] = NoUser
          <5>1. inbox[d] = <<>> /\ view[owner[d]][k] = NoUser
            BY <1>2, <4>1, <4>3 DEF Unheard
          <5>2. Settled(d)[k] = NoUser
            BY <5>1, SettledIs, AfterNothing
          <5> QED BY <1>5, <3>4, <4>1, <5>2 DEF UpToDate
        <4> QED BY <4>2, <4>3
      <3> QED BY <3>2, <3>3, <3>4
    <2> QED BY <1>2, <2>1 DEF Covered
  <1>16. OwnEntry'
    <2>1. ASSUME NEW c \in Registered', socket[c] = "open", Key(c) \notin crossed'
          PROVE  Settled(c)[Key(c)] = user'[c] \/ c \in task'[c].to
      <3>1. c \in Conns BY <1>9
      <3>2. CASE c = d BY <1>2, <3>2 DEF Announcement
      <3>3. CASE c # d
        <4>1. c \in Registered /\ Key(c) # Key(d) BY <1>6, <3>1, <3>3
        <4>2. Key(c) \in Keys BY <4>1, RegisteredAt
        <4> QED BY <1>2, <1>8, <2>1, <3>1, <3>3, <4>1, <4>2 DEF OwnEntry
      <3> QED BY <3>2, <3>3
    <2> QED BY <1>2, <1>5, <1>9, <2>1 DEF OwnEntry
  <1>17. FirstListed'
    <2>1. ASSUME NEW c \in Conns, socket[c] = "open", FirstSession(c), user'[c] # NoUser
          PROVE  directory'[Key(c)] = c
      <3>1. CASE c = d BY <1>4, <3>1
      <3>2. CASE c # d
        <4>1. Key(c) \in Keys /\ Key(c) # Key(d)
          BY <1>3, <2>1, <3>2, InUse, ConnectionAssumption DEF FirstSession
        <4> QED BY <1>2, <1>4, <2>1, <3>2, <4>1 DEF FirstListed
      <3> QED BY <3>1, <3>2
    <2> QED BY <1>2, <1>5, <2>1 DEF FirstListed
  <1>18. Unheard'
    BY <1>2, <1>5 DEF Unheard
  <1> QED BY <1>1, <1>11, <1>12, <1>13, <1>15, <1>16, <1>17, <1>18

\* At first nobody is listed and nobody has been told anything.
LEMMA InitViews == MCInit => ViewInv
  <1> SUFFICES ASSUME MCInit PROVE ViewInv OBVIOUS
  <1>1. Inv BY InitInv DEF MCInit
  <1>2. Registered = {} BY DEF MCInit, Init, Registered, Named
  <1>3. OneReader /\ Blank /\ Unheard /\ FirstListed
    BY ConnectionAssumption DEF MCInit, Init, OneReader, Blank, Unheard, FirstListed
  <1>4. TasksTrue BY DEF MCInit, Init, TasksTrue, Idle, Recipients, Nothing
  <1>5. Covered /\ OwnEntry BY <1>2 DEF Covered, OwnEntry
  <1> QED BY <1>1, <1>3, <1>4, <1>5 DEF ViewInv

LEMMA NextViews == ViewInv /\ [MCNext]_<<vars, crossed>> => ViewInv'
  <1> SUFFICES ASSUME ViewInv, [MCNext]_<<vars, crossed>> PROVE ViewInv' OBVIOUS
  <1>1. CASE MCNext
    <2>1. Cross BY <1>1 DEF MCNext
    <2>2. CASE \E i \in Clients, c \in Conns : Connect(i, c)
      BY <2>1, <2>2, ConnectViews
    <2>3. CASE \E c \in Conns : Break(c) \/ Receive(c) \/ ListPeers(c) \/ Cleanup(c) \/ Broadcast(c)
      BY <2>1, <2>3, BreakViews, ReceiveViews, ListPeersViews, CleanupViews, BroadcastViews
    <2>4. CASE \E d, c \in Conns : Write(d, c)
      BY <2>1, <2>4, WriteViews
    <2>5. CASE \E c \in Conns, u \in Users : Login(c, u)
      BY <2>1, <2>5, LoginViews
    <2> QED BY <1>1, <2>2, <2>3, <2>4, <2>5 DEF MCNext, Next
  <1>2. CASE UNCHANGED <<vars, crossed>>
    <2>1. \A c \in Conns : /\ Key(c)' = Key(c) /\ FirstSession(c)' = FirstSession(c)
                           /\ Settled(c)' = Settled(c)
      <3>1. \A c \in Conns : Settled(c)' = Settled(c)
        BY <1>2, SettledKept DEF vars
      <3> QED BY <1>2, <3>1 DEF vars, Key, FirstSession
    <2>2. Registered' = Registered /\ Listing' = Listing /\ Registered \subseteq Conns
      BY <1>2 DEF vars, Registered, Named, Listing, ViewInv, Inv, TypeOK
    <2>3. Inv' BY <1>2, NextInv DEF ViewInv
    <2>4. \A e \in Conns : Idle(e)' = Idle(e) /\ \A c \in Conns : Owes(e, c)' = Owes(e, c)
      BY <1>2, <2>2 DEF vars, Idle, Recipients, Owes
    <2>5. (OneReader /\ Blank /\ Unheard /\ FirstListed)'
      BY <1>2, <2>1 DEF vars, ViewInv, OneReader, Blank, Unheard, FirstListed
    <2>6. TasksTrue'
      BY <1>2, <2>1, <2>4 DEF vars, ViewInv, TasksTrue
    <2>7. OwnEntry'
      BY <1>2, <2>1, <2>2 DEF vars, ViewInv, OwnEntry
    <2>8. Covered'
      <3>1. \A c \in Conns, k \in Keys : Relevant(c, k)' = Relevant(c, k)
        BY <1>2, <2>1, <2>2 DEF vars, Relevant
      <3>2. ASSUME NEW c \in Conns, NEW k \in Keys, UpToDate(c, k) PROVE UpToDate(c, k)'
        BY <1>2, <2>1, <2>2, <2>4, <3>2, UpToDateKept DEF vars, ViewInv
      <3> QED BY <1>2, <2>2, <3>1, <3>2 DEF vars, ViewInv, Covered
    <2> QED BY <2>3, <2>5, <2>6, <2>7, <2>8 DEF ViewInv
  <1> QED BY <1>1, <1>2

\* What a client knows of its peers, what is under way to it and what the tasks
\* have still to write to it amount to the directory, however logins, cleanups
\* and their broadcasts overlap; of the keys that are not crossed.
THEOREM ViewInvariance == MCSpec => []ViewInv
  <1>1. MCInit => ViewInv BY InitViews
  <1>2. ViewInv /\ [MCNext]_<<vars, crossed>> => ViewInv' BY NextViews
  <1> QED BY <1>1, <1>2, PTL DEF MCSpec

\* A listed client that asked for the list knows every listed peer by its present
\* username or has still to be told, except a peer whose key is crossed.
THEOREM ViewsAlwaysCover == MCSpec => []ViewsCoverDirectory
  <1>1. ViewInv => ViewsCoverDirectory BY CoveredIs DEF ViewInv
  <1> QED BY <1>1, ViewInvariance, PTL

\* In its first session, on the only connection of its key, it knows nobody else
\* or has still to be told of the departure, except for the keys that are crossed.
THEOREM FirstViewsAlwaysExact == MCSpec => []FirstViewsExact
  <1>1. ViewInv => FirstViewsExact BY CoveredIs DEF ViewInv
  <1> QED BY <1>1, ViewInvariance, PTL

\* The behaviours of TLC's run are among those the theorems are about.
LEMMA BoundedIsTrace == SmallSpec => MCSpec
<1>1. [MCNext /\ Bounded]_<<vars, crossed>> => [MCNext]_<<vars, crossed>>
  OBVIOUS
<1> QED
  BY <1>1, PTL DEF SmallSpec, MCSpec
=============================================================================
