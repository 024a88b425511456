---------------------------- MODULE MCClientNet ----------------------------
(* Small instances of ClientNet for TLC. *)
EXTENDS ClientNet, FiniteSets, TLC

\* overtaken: whether a login that the GUI had given up while it was connecting
\* has connected since.
\* patient: whether a behaviour of the fair specification is about one user who
\* tries again, or about a network that may hang.
VARIABLES overtaken, patient

mcvars == <<vars, overtaken, patient>>

Overtakes == \E r \in Ids : coro[r] = "opening" /\ coro'[r] = "waiting" /\ gui # r

(***************************************************************************)
(* Safety.  TraceSpec is every behaviour, with its history; SafeSpec has a *)
(* bound: one user signs in in the behaviours that have been overtaken,    *)
(* two in the others.                                                      *)
(***************************************************************************)
SafeInit == Init /\ overtaken = FALSE /\ patient = FALSE
TraceNext == Next /\ UNCHANGED patient /\ overtaken' = (overtaken \/ Overtakes)
TraceSpec == SafeInit /\ [][TraceNext]_mcvars

TwoUsers == Cardinality(({ask[r] : r \in Ids} \cup {me}) \ {Call, NoUser}) > 1

SafeNext == TraceNext /\ (TwoUsers' => ~overtaken')
SafeSpec == SafeInit /\ [][SafeNext]_mcvars

\* Signed in and with nothing under way, the user the GUI shows is the one the
\* server knows on the connection, whatever timed out before; unless a login
\* that was given up has overtaken.
SameUser ==
    /\ ~overtaken
    /\ logged /\ ready = <<>> /\ writer # NoConn /\ (\A r \in Ids : coro[r] = "none")
    /\ socket[writer] = "open" /\ toServer[writer] = <<>>
    => who[writer] = me

\* The server answers LIST_PEERS only on a connection that has logged in, so
\* the list leaves the client itself out; with the same exception.
LoginComesFirst ==
    [][\A c \in Conns :
          /\ ~overtaken
          /\ toServer[c] # <<>> /\ Head(toServer[c]) = ListPeers /\ toServer'[c] = Tail(toServer[c])
          /\ socket'[c] = "open"
          => who[c] # NoUser]_vars

(***************************************************************************)
(* Liveness of the impatient: anything may happen on one connection, and   *)
(* Fairness is all that is assumed.                                        *)
(***************************************************************************)
HangingStep == Next /\ \A c, d \in Conns : socket'[c] # "unused" /\ socket'[d] # "unused" => c = d

(***************************************************************************)
(* Liveness of the patient: a user who signs in over and over until it     *)
(* works.  The server answers a request that reaches it in time and        *)
(* accepts the password, the network does not break connections, and one   *)
(* connection is not closed by the server.                                 *)
(***************************************************************************)
Retry == \E r \in Ids, u \in Users : ~SignedIn /\ BeginLogin(r, u)
Answerable(r) ==
    /\ writer # NoConn /\ socket[writer] = "open"
    /\ Write(r) \in Range(ready) \/ UnderWay(r)
SlowTimer(r) == Timer(r) /\ ~Answerable(r)
PatientStep ==
    \/ Retry \/ WriteStep \/ StartCoroutine \/ ReadStep
    \/ \E r \in Ids : Return(r) \/ Discard(r) \/ Expire(r) \/ SlowTimer(r)
    \/ \E r \in Ids, c \in Conns : Opened(r, c)
    \/ \E c \in Conns : ServePost(c) \/ Serve(c, TRUE)
    \/ \E c, d \in Conns : socket[d] = "unused" /\ d # c /\ ServerCloses(c)
PatientFairness ==
    /\ WF_vars(patient /\ Retry) /\ WF_vars(patient /\ StartCoroutine)
    /\ WF_vars(patient /\ ReadStep) /\ WF_vars(patient /\ WriteStep)
    /\ SF_vars(patient /\ WriteRefused)
    /\ \A r \in Ids :
          /\ WF_vars(patient /\ Return(r)) /\ WF_vars(patient /\ Expire(r))
          /\ WF_vars(patient /\ SlowTimer(r))
          /\ \A c \in Conns : WF_vars(patient /\ Opened(r, c))
    /\ \A c \in Conns : WF_vars(patient /\ ServePost(c)) /\ WF_vars(patient /\ Serve(c, TRUE))

LiveInit == Init /\ overtaken = FALSE /\ patient \in BOOLEAN
LiveNext ==
    /\ UNCHANGED <<overtaken, patient>>
    /\ IF patient THEN PatientStep ELSE HangingStep

LiveSpec ==
    /\ LiveInit /\ [][LiveNext]_mcvars
    /\ patient \/ Fairness
    /\ PatientFairness

\* The patient user is signed in, again and again, on a connection that works.
LoginSucceeds == patient => []<>SignedIn

Symmetry == Permutations(Conns) \cup Permutations(Users) \cup Permutations(Ids)
=============================================================================
