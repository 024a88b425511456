--------------------------- MODULE MCPollScreens ---------------------------
(* Small instances of PollScreens for TLC. *)
EXTENDS PollScreens, TLC

\* world: what a behaviour is about.
\* missed: client -> the polls that were released or closed while the client
\* was not connected.
\* picked: client -> poll -> the options the user picked in the view of it.
VARIABLES world, missed, picked

mcvars == <<vars, world, missed, picked>>

Told == [p \in Polls |-> poll[p] \cap {"released", "closed"}]

Remembered ==
    /\ missed' = [c \in Clients |-> missed[c] \cup
                    {p \in Polls : c \notin online' /\ Told'[p] # {}}]
    /\ picked' = [c \in Clients |-> [p \in Polls |->
                    picked[c][p] \cup {o \in Options : screen[c] = p /\ Choose(c, o)}]]

\* Every behaviour, with its history.
TraceInit ==
    /\ Init
    /\ missed = [c \in Clients |-> {}]
    /\ picked = [c \in Clients |-> [p \in Polls |-> {}]]
TraceNext == Next /\ UNCHANGED world /\ Remembered
TraceSpec == TraceInit /\ [][TraceNext]_mcvars

(***************************************************************************)
(* Bounds.  In the world "vote" connections last and voters look at polls  *)
(* and vote, and stay in the view of a poll once they voted in it; in the  *)
(* world "roam" they come and go.  Administrators look at their dashboard, *)
(* and close a poll that is closed while the loop is still telling of it.  *)
(***************************************************************************)
MCInit == TraceInit /\ world \in {"vote", "roam"}

MCNext ==
    /\ UNCHANGED world
    /\ \/ ServerStep /\ \A a \in Admins : ~ListPolls(a)
       \/ \E a \in Admins, p \in Polls :
             \/ CreatePoll(a, p) \/ ReleasePoll(a, p)
             \/ ("open" \in poll[p] \/ "closed" \notin poll[p]) /\ ClosePoll(a, p)
       \/ world = "roam" /\ \E c \in Clients \ Admins : GoOffline(c) \/ ComeBack(c)
       \/ \E c \in Clients : Handle(c)
       \/ world = "vote" /\ \E c \in Clients \ Admins :
             \/ HandleOther(c) \/ CastVote(c)
             \/ (\A p \in Polls : ballot[c][p] = {}) /\ ShowDashboard(c)
             \/ \E p \in Polls : ShowPoll(c, p)
             \/ \E o \in Options \ {choice[c]} : Choose(c, o)
    /\ Remembered

MCSpec == MCInit /\ [][MCNext]_mcvars /\ Fairness

\* A client that shows a window as open when it is closed is about to be told.
OpenDoomed ==
    \A c \in Clients, p \in Polls :
        /\ Status(c, p) = "Open" /\ "open" \notin poll[p] /\ p \notin missed[c]
        => \/ \E i \in 1..Len(inbox[c]) : inbox[c][i].type = "RESULTS_PUBLISHED" /\ inbox[c][i].poll = p
           \/ \E k \in DOMAIN task : \E i \in 1..Len(task[k]) :
                 /\ task[k][i].msg.type = "RESULTS_PUBLISHED" /\ task[k][i].msg.poll = p
                 /\ c \in Recipients(task[k][i])

\* Everybody who is there all the time comes to show the results.
EveryoneLearns ==
    \A c \in Clients, p \in Polls :
        "released" \in poll[p] ~> Status(c, p) = "Results" \/ p \in missed[c]

\* A vote on record is for an option that its voter picked in the view of that
\* poll, or for the first one, on which the view is set whenever it is drawn.
VotesPicked ==
    \A c \in Clients, p \in Polls : votes[p][c] \in picked[c][p] \cup {FirstOption, NoOption}
=============================================================================
