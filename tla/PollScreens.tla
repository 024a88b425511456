---------------------------- MODULE PollScreens ----------------------------
(***************************************************************************)
(* What the clients know and show of the polls: an administrator creates,  *)
(* releases and closes them, the window loop closes them, the server       *)
(* broadcasts that, and every client's controller keeps the three caches   *)
(* its screens are drawn from.                                             *)
(*                                                                         *)
(* A broadcast is one write a recipient, and every write may wait for the  *)
(* recipient to read: the dispatch of an administrator's request and the   *)
(* window loop are tasks that overlap.  VoteServer says when the loop      *)
(* closes a window, TokenCustody how a ballot travels; here a client has   *)
(* one token a poll, which it may submit again and again until it learns   *)
(* what became of it, and messages of other kinds are just handled.        *)
(* Percentages follow from the totals; the turnout is left out.            *)
(***************************************************************************)
EXTENDS Integers, Sequences, FiniteSets

CONSTANTS
    Clients,
    Admins,      \* clients signed in as administrators
    Polls,
    Options,     \* the options of every poll
    FirstOption, \* the one that is rendered first
    Loop,        \* the task of the window loop
    Dashboard,   \* the screen that shows no single poll
    NoOption,
    NoResult,
    MaxInbox     \* bounds what is under way to a client when a request is made

Tallies == [Options -> 0..Cardinality(Clients)]

ASSUME ScreensAssumption ==
    /\ Admins \subseteq Clients /\ Loop \notin Clients /\ IsFiniteSet(Clients)
    /\ FirstOption \in Options /\ NoOption \notin Options
    /\ Dashboard \notin Polls /\ NoResult \notin Tallies /\ MaxInbox \in Nat

VARIABLES
    \* Of the server.
    poll,     \* poll -> its flags; "open" is that its window is there and open
    votes,    \* poll -> client -> the option of the ballot that was recorded
    task,     \* administrator's dispatch or Loop -> its remaining sends
    online,   \* the clients in the peer directory
    inbox,    \* client -> messages written to it and not handled
    \* Of each client's controller.
    cache,    \* polls: poll -> the flags the client was told
    windows,  \* open_windows
    results,  \* results
    \* Of each client's window.
    screen,   \* the poll whose view is shown, or Dashboard
    choice,   \* choice_var of that view
    ballot    \* poll -> the options of the ballots that were cast

server == <<poll, votes, task>>
controller == <<cache, windows, results>>
gui == <<screen, choice, ballot>>
vars == <<server, online, inbox, controller, gui>>

Flags == {"listed", "released", "closed"}

PollsList(s)   == [type |-> "POLLS_LIST", polls |-> s]
Opened(p)      == [type |-> "WINDOW_OPENED", poll |-> p]
Closed(p)      == [type |-> "WINDOW_CLOSED", poll |-> p]
Results(p, ts) == [type |-> "RESULTS_PUBLISHED", poll |-> p, totals |-> ts]

Messages ==
    [type : {"POLLS_LIST"}, polls : [Polls -> SUBSET Flags]]
        \cup [type : {"WINDOW_OPENED", "WINDOW_CLOSED"}, poll : Polls]
        \cup [type : {"RESULTS_PUBLISHED"}, poll : Polls, totals : Tallies]

\* A send that is left: of a message to the clients to, or to everybody who is
\* in the directory when the broadcast begins.
SendTo(ds, msg) == [all |-> FALSE, to |-> ds, msg |-> msg]
Broadcast(msg)  == [all |-> TRUE, to |-> {}, msg |-> msg]
Sends == [all : BOOLEAN, to : SUBSET Clients, msg : Messages]

TypeOK ==
    /\ poll \in [Polls -> SUBSET (Flags \cup {"open"})]
    /\ votes \in [Polls -> [Clients -> Options \cup {NoOption}]]
    /\ task \in [Admins \cup {Loop} -> Seq(Sends)]
    /\ online \subseteq Clients
    /\ inbox \in [Clients -> Seq(Messages)]
    /\ cache \in [Clients -> [Polls -> SUBSET Flags]]
    /\ windows \in [Clients -> SUBSET Polls]
    /\ results \in [Clients -> [Polls -> Tallies \cup {NoResult}]]
    /\ screen \in [Clients -> Polls \cup {Dashboard}]
    /\ choice \in [Clients -> Options \cup {NoOption}]
    /\ ballot \in [Clients -> [Polls -> SUBSET Options]]

Init ==
    /\ poll = [p \in Polls |-> {}]
    /\ votes = [p \in Polls |-> [c \in Clients |-> NoOption]]
    /\ task = [k \in Admins \cup {Loop} |-> <<>>]
    /\ online = Clients
    /\ inbox = [c \in Clients |-> <<>>]
    /\ cache = [c \in Clients |-> [p \in Polls |-> {}]]
    /\ windows = [c \in Clients |-> {}]
    /\ results = [c \in Clients |-> [p \in Polls |-> NoResult]]
    /\ screen = [c \in Clients |-> Dashboard]
    /\ choice = [c \in Clients |-> NoOption]
    /\ ballot = [c \in Clients |-> [p \in Polls |-> {}]]

(***************************************************************************)
(* The server's handlers and its loop: each changes the poll at once and   *)
(* leaves its sends to do.  A connection's next request is read when the   *)
(* dispatch of the one before is over.                                     *)
(***************************************************************************)
HasRoom(c) == Len(inbox[c]) < MaxInbox

Reads(a) == a \in online /\ task[a] = <<>>

Marked(p, flags) == poll' = [poll EXCEPT ![p] = flags]

Starts(k, sends) == task' = [task EXCEPT ![k] = sends]

\* handle_create_poll.  The reply ends the administrator's request.
CreatePoll(a, p) ==
    /\ Reads(a) /\ poll[p] = {}
    /\ Marked(p, {"listed"})
    /\ UNCHANGED <<votes, task, online, inbox, controller, gui>>

\* handle_release_poll: its message goes to the administrator and then to all.
\* The OK before it ends the administrator's request.
ReleasePoll(a, p) ==
    /\ Reads(a) /\ "listed" \in poll[p] /\ "released" \notin poll[p]
    /\ Marked(p, poll[p] \cup {"released", "open"})
    /\ Starts(a, <<SendTo({a}, Opened(p)), Broadcast(Opened(p))>>)
    /\ UNCHANGED <<votes, online, inbox, controller, gui>>

\* The votes for each option, when each client voted for vs[c].
Tally(vs) == [o \in Options |-> Cardinality({c \in Clients : vs[c] = o})]

Totals(p) == Tally(votes[p])

\* _close_window_and_publish.
CloseWindow(p) == Marked(p, (poll[p] \ {"open"}) \cup {"closed"})

\* handle_close_poll, of any poll: a draft, or one that was closed already.
ClosePoll(a, p) ==
    /\ Reads(a) /\ "listed" \in poll[p]
    /\ CloseWindow(p)
    /\ Starts(a, <<SendTo({a}, Closed(p)), SendTo({a}, Results(p, Totals(p))),
                   Broadcast(Closed(p)), Broadcast(Results(p, Totals(p)))>>)
    /\ UNCHANGED <<votes, online, inbox, controller, gui>>

\* _maybe_advance_window when the window is due.
LoopClose(p) ==
    /\ task[Loop] = <<>> /\ "open" \in poll[p]
    /\ CloseWindow(p)
    /\ Starts(Loop, <<Broadcast(Closed(p)), Broadcast(Results(p, Totals(p)))>>)
    /\ UNCHANGED <<votes, online, inbox, controller, gui>>

\* Mutant: the list says of each poll whether its window is open, too.
TellAll(p) == poll[p]

Tell(p) == poll[p] \cap Flags

\* handle_list_polls, for the login and the Refresh button.  Its only reply is
\* written before anything else runs.
ListPolls(c) ==
    /\ c \in online /\ HasRoom(c)
    /\ c \in Admins => task[c] = <<>>
    /\ inbox' = [inbox EXCEPT ![c] = Append(@, PollsList([p \in Polls |-> Tell(p)]))]
    /\ UNCHANGED <<server, online, controller, gui>>

\* Mutant: a ballot that is late is taken all the same.
AcceptingReleased(p) == "released" \in poll[p]

Accepting(p) == "open" \in poll[p] /\ "closed" \notin poll[p]

\* handle_submit_vote of a ballot that was cast, with a token of the window.
\* Ballots that come after it are double spends, which leave the vote as it is.
RecordVote(c, p, o) ==
    /\ o \in ballot[c][p] /\ votes[p][c] = NoOption /\ Accepting(p)
    /\ votes' = [votes EXCEPT ![p][c] = o]
    /\ UNCHANGED <<poll, task, online, inbox, controller, gui>>

\* _dispatch and _broadcast: one write of a task.  A broadcast takes its
\* recipients from the directory when it begins.
Recipients(s) == IF s.all THEN online ELSE s.to

Step(k) ==
    /\ task[k] # <<>>
    /\ LET s == Head(task[k]) IN
       \/ /\ Recipients(s) = {}
          /\ Starts(k, Tail(task[k]))
          /\ UNCHANGED inbox
       \/ \E c \in Recipients(s) :
             /\ HasRoom(c)
             /\ inbox' = [inbox EXCEPT ![c] = Append(@, s.msg)]
             /\ LET rest == Recipients(s) \ {c} IN
                Starts(k, IF rest = {} THEN Tail(task[k])
                          ELSE <<SendTo(rest, s.msg)>> \o Tail(task[k]))
    /\ UNCHANGED <<poll, votes, online, controller, gui>>

(***************************************************************************)
(* A connection is lost, with the end of what was under way on it and with *)
(* its place in the broadcasts that have begun.  The client keeps its      *)
(* controller, and may log in again once its dispatch is over.             *)
(***************************************************************************)
Without(c, sends) == [i \in 1..Len(sends) |-> [sends[i] EXCEPT !.to = @ \ {c}]]

GoOffline(c) ==
    /\ c \in online
    /\ online' = online \ {c}
    /\ \E n \in 0..Len(inbox[c]) : inbox' = [inbox EXCEPT ![c] = SubSeq(@, 1, n)]
    /\ task' = [k \in DOMAIN task |-> Without(c, task[k])]
    /\ UNCHANGED <<poll, votes, controller, gui>>

ComeBack(c) ==
    /\ c \in Clients \ online
    /\ c \in Admins => task[c] = <<>>
    /\ online' = online \cup {c}
    /\ UNCHANGED <<server, inbox, controller, gui>>

(***************************************************************************)
(* The controller handles the first message of its inbox, and the view     *)
(* that is shown is refreshed after every message.                         *)
(***************************************************************************)
\* _poll_status of the dashboard; the view of a poll has the first two as well.
Status(c, p) ==
    CASE results[c][p] # NoResult -> "Results"
      [] results[c][p] = NoResult /\ p \in windows[c] -> "Open"
      [] OTHER -> IF "closed" \in cache[c][p] THEN "Closed"
                  ELSE IF "released" \in cache[c][p] THEN "Released" ELSE "Draft"

Votable(c) == screen[c] \in Polls /\ Status(c, screen[c]) = "Open"

\* Mutant: the options are rendered anew with another one chosen.
RefreshLast(c) ==
    choice' = [choice EXCEPT ![c] =
        IF Votable(c)' THEN CHOOSE o \in Options : o # FirstOption ELSE @]

\* refresh renders the options of an open poll anew, with the first one chosen.
Refresh(c) == choice' = [choice EXCEPT ![c] = IF Votable(c)' THEN FirstOption ELSE @]

First(c, type) == inbox[c] # <<>> /\ Head(inbox[c]).type = type

\* What every handler does besides: the message is taken, the view refreshed.
Handled(c) ==
    /\ inbox' = [inbox EXCEPT ![c] = Tail(@)]
    /\ UNCHANGED <<server, online, screen, ballot>>
    /\ Refresh(c)

\* _on_polls_list: what was known of a listed poll is overwritten.
HandleList(c) ==
    /\ First(c, "POLLS_LIST")
    /\ LET s == Head(inbox[c]).polls IN
       cache' = [cache EXCEPT ![c] = [p \in Polls |-> IF "listed" \in s[p] THEN s[p] ELSE @[p]]]
    /\ UNCHANGED <<windows, results>>
    /\ Handled(c)

\* Mutant: an opening starts the poll afresh.
HandleOpenedAfresh(c) ==
    /\ First(c, "WINDOW_OPENED")
    /\ LET p == Head(inbox[c]).poll IN
       /\ windows' = [windows EXCEPT ![c] = @ \cup {p}]
       /\ cache' = [cache EXCEPT ![c][p] = {"listed"}]
    /\ UNCHANGED results
    /\ Handled(c)

\* _on_window_opened: the poll is known from now on, and keeps its flags.
HandleOpened(c) ==
    /\ First(c, "WINDOW_OPENED")
    /\ LET p == Head(inbox[c]).poll IN
       /\ windows' = [windows EXCEPT ![c] = @ \cup {p}]
       /\ cache' = [cache EXCEPT ![c][p] = @ \cup {"listed"}]
    /\ UNCHANGED results
    /\ Handled(c)

\* _on_window_closed.
HandleClosed(c) ==
    /\ First(c, "WINDOW_CLOSED")
    /\ windows' = [windows EXCEPT ![c] = @ \ {Head(inbox[c]).poll}]
    /\ UNCHANGED <<cache, results>>
    /\ Handled(c)

\* Mutant: results are taken only of a poll whose window is known to be open.
HandleResultsOfOpen(c) ==
    /\ First(c, "RESULTS_PUBLISHED")
    /\ LET p == Head(inbox[c]).poll IN
       results' = IF p \in windows[c] THEN [results EXCEPT ![c][p] = Head(inbox[c]).totals]
                  ELSE results
    /\ UNCHANGED <<cache, windows>>
    /\ Handled(c)

\* _on_results_published.
HandleResults(c) ==
    /\ First(c, "RESULTS_PUBLISHED")
    /\ results' = [results EXCEPT ![c][Head(inbox[c]).poll] = Head(inbox[c]).totals]
    /\ UNCHANGED <<cache, windows>>
    /\ Handled(c)

Handle(c) == HandleList(c) \/ HandleOpened(c) \/ HandleClosed(c) \/ HandleResults(c)

\* A message of another kind: announcements, tokens, trades, answers, relays.
HandleOther(c) == UNCHANGED <<server, online, inbox, controller, screen, ballot>> /\ Refresh(c)

(***************************************************************************)
(* The user.                                                               *)
(***************************************************************************)
\* A double click in the dashboard, whose rows are the polls of the cache.
ShowPoll(c, p) ==
    /\ screen[c] = Dashboard /\ "listed" \in cache[c][p]
    /\ screen' = [screen EXCEPT ![c] = p]
    /\ choice' = [choice EXCEPT ![c] = IF Status(c, p) = "Open" THEN FirstOption ELSE NoOption]
    /\ UNCHANGED <<server, online, inbox, controller, ballot>>

ShowDashboard(c) ==
    /\ screen[c] # Dashboard
    /\ screen' = [screen EXCEPT ![c] = Dashboard]
    /\ choice' = [choice EXCEPT ![c] = NoOption]
    /\ UNCHANGED <<server, online, inbox, controller, ballot>>

\* A radio button.
Choose(c, o) ==
    /\ Votable(c)
    /\ choice' = [choice EXCEPT ![c] = o]
    /\ UNCHANGED <<server, online, inbox, controller, screen, ballot>>

\* _on_vote, by a client that was given a token, and as often as it likes: the
\* token stays held until its holder is told that it is gone.
CastVote(c) ==
    /\ Votable(c) /\ c \in online /\ c \notin Admins /\ choice[c] # NoOption
    /\ ballot' = [ballot EXCEPT ![c][screen[c]] = @ \cup {choice[c]}]
    /\ UNCHANGED <<server, online, inbox, controller, screen>>
    /\ Refresh(c)

AdminStep == \E a \in Admins, p \in Polls : CreatePoll(a, p) \/ ReleasePoll(a, p) \/ ClosePoll(a, p)

ServerStep ==
    \/ \E p \in Polls : LoopClose(p)
    \/ \E k \in DOMAIN task : Step(k)
    \/ \E c \in Clients : ListPolls(c)
    \/ \E c \in Clients, p \in Polls, o \in Options : RecordVote(c, p, o)

ConnectionStep == \E c \in Clients : GoOffline(c) \/ ComeBack(c)

ControllerStep == \E c \in Clients : Handle(c) \/ HandleOther(c)

UserStep ==
    \/ \E c \in Clients, p \in Polls : ShowPoll(c, p)
    \/ \E c \in Clients : ShowDashboard(c) \/ CastVote(c)
    \/ \E c \in Clients, o \in Options : Choose(c, o)

Next == AdminStep \/ ServerStep \/ ConnectionStep \/ ControllerStep \/ UserStep

Spec == Init /\ [][Next]_vars

\* A window comes to be due, and clients handle what is written to them.  A write
\* that waits goes on whenever its client has read, for every task that waits in
\* drain is woken then, however fast other messages fill the buffer again.
Fairness ==
    /\ \A p \in Polls : WF_vars(LoopClose(p))
    /\ \A k \in Admins \cup {Loop} : SF_vars(Step(k))
    /\ \A c \in Clients : WF_vars(Handle(c))
-----------------------------------------------------------------------------
\* Whoever shows the results of a poll shows the same: those of every ballot
\* that was ever recorded, of a poll that is closed.
ResultsTrue ==
    \A c \in Clients, p \in Polls :
        results[c][p] # NoResult => "closed" \in poll[p] /\ results[c][p] = Totals(p)

\* The flags of a poll a client has been told never turn back, however lists,
\* broadcasts and reconnections cross.
FlagsKept == [][\A c \in Clients, p \in Polls : cache[c][p] \subseteq cache'[c][p]]_vars
=============================================================================
