-------------------------- MODULE MCPeerDirectory --------------------------
(* Small instances of PeerDirectory for TLC. *)
EXTENDS PeerDirectory, TLC

CONSTANTS i1, i2, k1, k2

\* Each client has an identity file of its own.
OwnKeys == i1 :> k1 @@ i2 :> k2

\* What a connection has still to announce of a key that is listed for another
\* one may reach clients after the news of the newer login, and take it back.
VARIABLE crossed

Crossing(k) ==
    \E d \in Conns : ~Idle(d) /\ Key(d) = k /\ directory[k] \notin {d, NoConn}

LoggedIn(k) == \E c \in Conns, u \in Users : Login(c, u) /\ Key(c) = k

\* The keys for which that happened since they last logged in.
Cross == crossed' = {k \in Keys : Crossing(k)' \/ (k \in crossed /\ ~LoggedIn(k))}

MCInit == Init /\ crossed = {}
MCNext == Next /\ Cross
MCSpec == MCInit /\ [][MCNext]_<<vars, crossed>>

\* TLC's bounds: a connection logs in and asks for the list once, only i1 connects
\* again, and one connection at least is not lost.
Bounded ==
    /\ \A c \in Conns, u \in Users : Login(c, u) => user[c] = NoUser
    /\ \A c \in synced : ~ListPeers(c)
    /\ \A c, d \in Conns : owner'[c] = i2 /\ owner'[d] = i2 => c = d
    /\ \E c \in Conns : socket'[c] \in {"unused", "open"}

SmallSpec == MCInit /\ [][MCNext /\ Bounded]_<<vars, crossed>>

\* The task of d has still to write to c.
Owes(d, c) == c \in Recipients(d) \/ (task[d].all /\ c \in Registered)

\* The client of c has still to be sent msg.
ToBeTold(c, msg) == \E d \in Conns : task[d].msg = msg /\ Owes(d, c)

\* Every listed client that asked for the list since its login knows every peer
\* of the directory under its present username, with what is under way to it, or
\* has still to be sent that peer's announcement; unless the key is crossed.
ViewsCoverDirectory ==
    \A c \in synced \cap Registered : socket[c] = "open" =>
        \A k \in Keys \ crossed : Listing[k] # NoUser =>
            Settled(c)[k] = Listing[k] \/ ToBeTold(c, Announce(k, Listing[k]))

\* And knows nobody else, or has still to be sent their departure, as long as it
\* is the key's only connection and the client's first.
FirstSession(c) ==
    \A d \in Conns \ {c} : owner[d] # NoClient => Key(d) # Key(c)

FirstViewsExact ==
    \A c \in Registered : socket[c] = "open" /\ FirstSession(c) =>
        \A k \in Keys \ crossed : Listing[k] = NoUser =>
            Settled(c)[k] = NoUser \/ ToBeTold(c, Leave(k))

Symmetry == Permutations(Conns) \cup Permutations(Users)
=============================================================================
