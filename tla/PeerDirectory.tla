--------------------------- MODULE PeerDirectory ---------------------------
(***************************************************************************)
(* Connections, logins and the peer directory of the server, and what each *)
(* client believes of it (online_peers).                                   *)
(*                                                                         *)
(* A client reaches the server over a TCP connection that may break while  *)
(* the server still holds the other end; the server notices later and runs *)
(* _cleanup.  Meanwhile the client may have connected again, and clients   *)
(* on one machine share one identity file, hence one public key: both give *)
(* several connections for one key, and the directory has one entry.       *)
(*                                                                         *)
(* A broadcast is one write a recipient, to those who were listed when it  *)
(* began, and each write may be held up by a recipient that does not read. *)
(* So the announcement of a login and the departure of another connection, *)
(* of the same key or not, overlap and come in different orders.           *)
(***************************************************************************)
EXTENDS Naturals, Sequences, SequencesExt

CONSTANTS
    Clients,     \* client processes
    Keys,        \* public key ids
    KeyOf,       \* client -> the key of its identity file
    Users,       \* usernames with an account
    Conns,       \* connections (bounds how many are ever opened)
    MaxInbox,    \* the messages under way to a client that hold up a write
    NoConn, NoUser, NoClient, NoNews

ASSUME ConnectionAssumption ==
    /\ KeyOf \in [Clients -> Keys]
    /\ NoConn \notin Conns
    /\ NoUser \notin Users
    /\ NoClient \notin Clients
    /\ MaxInbox \in Nat

VARIABLES
    owner,       \* conn -> the client that opened it, or NoClient
    socket,      \* conn -> "unused", "open", "broken" (server unaware) or "reaped"
    user,        \* conn -> ClientConnection.username
    directory,   \* key -> conn, Store.peer_directory
    synced,      \* conns whose LIST_PEERS the server answered since their login
    task,        \* conn -> what its dispatch or its cleanup has left to send
    inbox,       \* conn -> messages under way to the client
    view         \* client -> key -> username, ClientController.online_peers

vars == <<owner, socket, user, directory, synced, task, inbox, view>>

Announce(k, u) == [type |-> "PEER_ANNOUNCE", key |-> k, user |-> u]
Leave(k)       == [type |-> "PEER_LEAVE", key |-> k]
PeersList(f)   == [type |-> "PEERS_LIST", peers |-> f]

News ==
    [type : {"PEER_ANNOUNCE"}, key : Keys, user : Users] \cup [type : {"PEER_LEAVE"}, key : Keys]

Message == News \cup [type : {"PEERS_LIST"}, peers : [Keys -> Users \cup {NoUser}]]

\* What is left to send: a message to the connections to, and then, if all, to
\* those the directory names when the broadcast begins.
Sending == [to : SUBSET Conns, all : BOOLEAN, msg : News \cup {NoNews}]

Nothing == [to |-> {}, all |-> FALSE, msg |-> NoNews]

TypeOK ==
    /\ owner \in [Conns -> Clients \cup {NoClient}]
    /\ socket \in [Conns -> {"unused", "open", "broken", "reaped"}]
    /\ user \in [Conns -> Users \cup {NoUser}]
    /\ directory \in [Keys -> Conns \cup {NoConn}]
    /\ synced \subseteq Conns
    /\ task \in [Conns -> Sending]
    /\ inbox \in [Conns -> Seq(Message)]
    /\ view \in [Clients -> [Keys -> Users \cup {NoUser}]]

Init ==
    /\ owner = [c \in Conns |-> NoClient]
    /\ socket = [c \in Conns |-> "unused"]
    /\ user = [c \in Conns |-> NoUser]
    /\ directory = [k \in Keys |-> NoConn]
    /\ synced = {}
    /\ task = [c \in Conns |-> Nothing]
    /\ inbox = [c \in Conns |-> <<>>]
    /\ view = [i \in Clients |-> [k \in Keys |-> NoUser]]

Key(c) == KeyOf[owner[c]]

\* The directory as LIST_PEERS shows it: key -> username.
Listing == [k \in Keys |-> IF directory[k] = NoConn THEN NoUser ELSE user[directory[k]]]

Named(dir) == {dir[k] : k \in Keys} \ {NoConn}

Registered == Named(directory)

\* A recipient whose buffer is full holds up the task that writes to it.
HasRoom(c) == Len(inbox[c]) < MaxInbox

(***************************************************************************)
(* The client side of a connection.                                        *)
(***************************************************************************)
\* What a client has read of its earlier connection and not yet handled: both
\* go through the one queue between its network thread and its GUI.
Leftover(i) == {d \in Conns : owner[d] = i /\ inbox[d] # <<>>}

\* A client that has no usable connection opens one.
Connect(i, c) ==
    /\ socket[c] = "unused"
    /\ \A d \in Conns : owner[d] = i => socket[d] # "open"
    /\ owner' = [owner EXCEPT ![c] = i]
    /\ socket' = [socket EXCEPT ![c] = "open"]
    /\ \/ Leftover(i) = {} /\ UNCHANGED inbox
       \/ \E d \in Leftover(i) : inbox' = [inbox EXCEPT ![c] = inbox[d], ![d] = <<>>]
    /\ UNCHANGED <<user, directory, synced, task, view>>

\* The connection is lost, or closed by the client, with the end of what was
\* under way; the server learns later.
Break(c) ==
    /\ socket[c] = "open"
    /\ socket' = [socket EXCEPT ![c] = "broken"]
    /\ \E n \in 0..Len(inbox[c]) : inbox' = [inbox EXCEPT ![c] = SubSeq(@, 1, n)]
    /\ UNCHANGED <<owner, user, directory, synced, task, view>>

\* What a message does to online_peers.  PEERS_LIST only adds.
Apply(v, msg) ==
    CASE msg.type = "PEER_ANNOUNCE" -> [v EXCEPT ![msg.key] = msg.user]
      [] msg.type = "PEER_LEAVE"    -> [v EXCEPT ![msg.key] = NoUser]
      [] msg.type = "PEERS_LIST"    ->
            [k \in Keys |-> IF msg.peers[k] # NoUser THEN msg.peers[k] ELSE v[k]]

Receive(c) ==
    /\ inbox[c] # <<>>
    /\ view' = [view EXCEPT ![owner[c]] = Apply(@, Head(inbox[c]))]
    /\ inbox' = [inbox EXCEPT ![c] = Tail(@)]
    /\ UNCHANGED <<owner, socket, user, directory, synced, task>>

(***************************************************************************)
(* The server side.  What a handler changes, it changes at once; its sends *)
(* are left to the task of its connection, which reads no other message of *)
(* that connection, nor notices its end, before they are done.             *)
(***************************************************************************)
\* Whom it has still to reach; what is written to a connection that is not open
\* is never read.
Recipients(d) == {c \in task[d].to : socket[c] = "open"}

Idle(d) == Recipients(d) = {} /\ ~task[d].all

\* register_peer: the newest login of a key has the entry.
Register(c) == [directory EXCEPT ![Key(c)] = c]

\* Mutant: a key that is already listed is not announced again.
AnnouncementIfNew(c, u) ==
    [to |-> {c}, all |-> directory[Key(c)] = NoConn, msg |-> Announce(Key(c), u)]

\* Mutant: the key is announced where the username belongs.
AnnouncementOfKey(c, u) ==
    [to |-> {c}, all |-> TRUE, msg |-> Announce(Key(c), Key(c))]

\* A login is announced to its own connection directly and then to the
\* directory, the new entry included.
Announcement(c, u) == [to |-> {c}, all |-> TRUE, msg |-> Announce(Key(c), u)]

\* handle_login.  A second login on one connection changes its username.
Login(c, u) ==
    /\ socket[c] = "open" /\ Idle(c)
    /\ user' = [user EXCEPT ![c] = u]
    /\ directory' = Register(c)
    /\ task' = [task EXCEPT ![c] = Announcement(c, u)]
    /\ synced' = synced \ {c}
    /\ UNCHANGED <<owner, socket, inbox, view>>

\* The answer to LIST_PEERS: everybody but the asking key.
PeersFor(c) == PeersList([Listing EXCEPT ![Key(c)] = NoUser])

\* handle_list_peers, whose only reply is written before anything else runs.  A
\* client asks when its login has been answered (login in api.py); the handler
\* itself does not look whether it has logged in.
ListPeers(c) ==
    /\ socket[c] = "open" /\ user[c] # NoUser /\ Idle(c) /\ HasRoom(c)
    /\ inbox' = [inbox EXCEPT ![c] = Append(@, PeersFor(c))]
    /\ synced' = synced \cup {c}
    /\ UNCHANGED <<owner, socket, user, directory, task, view>>

\* Mutants: cleaning up forgets the entry; it removes the entry of the key,
\* whichever connection the entry names.
UnregisterNothing(c) == directory
UnregisterKey(c) == [directory EXCEPT ![Key(c)] = NoConn]

\* unregister_peer removes the entry only while it is this connection's.
Unregister(c) ==
    [directory EXCEPT ![Key(c)] = IF @ = c THEN NoConn ELSE @]

\* Mutant: departures are not announced.
DepartureUnannounced(c) == Nothing

\* The announcement goes out whether or not an entry was removed, to those who
\* are listed after that: this broadcast begins at once.
Departure(c) == [to |-> Named(Unregister(c)), all |-> FALSE, msg |-> Leave(Key(c))]

\* _cleanup after the read loop of c has ended.
Cleanup(c) ==
    /\ socket[c] = "broken" /\ Idle(c)
    /\ socket' = [socket EXCEPT ![c] = "reaped"]
    /\ IF user[c] = NoUser
       THEN UNCHANGED <<directory, task>>
       ELSE directory' = Unregister(c) /\ task' = [task EXCEPT ![c] = Departure(c)]
    /\ UNCHANGED <<owner, user, synced, inbox, view>>

\* The direct replies are sent: the broadcast begins, to those listed by now.
Broadcast(d) ==
    /\ Recipients(d) = {} /\ task[d].all
    /\ task' = [task EXCEPT ![d].to = Registered, ![d].all = FALSE]
    /\ UNCHANGED <<owner, socket, user, directory, synced, inbox, view>>

\* One write of a task.
Write(d, c) ==
    /\ c \in Recipients(d) /\ HasRoom(c)
    /\ inbox' = [inbox EXCEPT ![c] = Append(@, task[d].msg)]
    /\ task' = [task EXCEPT ![d].to = @ \ {c}]
    /\ UNCHANGED <<owner, socket, user, directory, synced, view>>

Next ==
    \/ \E i \in Clients, c \in Conns : Connect(i, c)
    \/ \E c \in Conns : Break(c) \/ Receive(c) \/ ListPeers(c) \/ Cleanup(c) \/ Broadcast(c)
    \/ \E d, c \in Conns : Write(d, c)
    \/ \E c \in Conns, u \in Users : Login(c, u)

Spec == Init /\ [][Next]_vars
-----------------------------------------------------------------------------
(***************************************************************************)
(* Safety.                                                                 *)
(***************************************************************************)
\* An entry of the directory is a connection that logged in with that key and
\* whose read loop has not ended: nothing is relayed to a reaped connection.
EntriesLive ==
    \A k \in Keys : directory[k] # NoConn =>
        /\ socket[directory[k]] \in {"open", "broken"}
        /\ user[directory[k]] # NoUser
        /\ Key(directory[k]) = k

\* An entry goes only when its own connection is reaped or the key logs in
\* elsewhere; the cleanup of an older connection does not touch it.
EntryKept ==
    [][\A k \in Keys, c \in Conns :
          directory[k] = c /\ directory'[k] # c =>
              \/ socket[c] = "broken" /\ socket'[c] = "reaped"
              \/ \E d \in Conns \ {c} : directory'[k] = d /\ socket[d] = "open"]_vars

\* What the client's view will be when it has read all that is under way.
Settled(c) == FoldLeft(Apply, view[owner[c]], inbox[c])
=============================================================================
