------------------------- MODULE PollScreensProofs -------------------------
(***************************************************************************)
(* Proofs about PollScreens, for any clients, polls and options: first     *)
(* what holds of the component whatever its users do, then, of its         *)
(* instances in MCPollScreens, what a client that stayed connected is      *)
(* about to be told and what a user's vote says.                           *)
(***************************************************************************)
EXTENDS MCPollScreens, FiniteSetTheorems, SequenceTheorems, TLAPS

Tasks == Admins \cup {Loop}

(***************************************************************************)
(* The inductive invariant.  Whatever is under way to a client is true of  *)
(* the polls now, since what it says of a poll never turns false; what a   *)
(* client was told is true likewise, and the lists that are under way to   *)
(* it say one after the other no less than it knows.                       *)
(***************************************************************************)
TrueMessages ==
    {m \in Messages :
        /\ m.type = "POLLS_LIST" => \A p \in Polls : m.polls[p] \subseteq poll[p]
        /\ m.type = "WINDOW_OPENED" => {"listed", "released"} \subseteq poll[m.poll]
        /\ m.type = "RESULTS_PUBLISHED" =>
              "closed" \in poll[m.poll] /\ m.totals = Totals(m.poll)}

\* Lists come only from handle_list_polls; no task sends one.
TrueSends == {m \in TrueMessages : m.type # "POLLS_LIST"}

UnderWayTrue ==
    /\ \A c \in Clients : \A i \in 1..Len(inbox[c]) : inbox[c][i] \in TrueMessages
    /\ \A k \in Tasks : \A i \in 1..Len(task[k]) : task[k][i].msg \in TrueSends

CacheTrue == \A c \in Clients, p \in Polls : cache[c][p] \subseteq poll[p]

\* A list says no less than the client knows of the polls that are on it, and
\* no less than the lists before it.
ListsInOrder ==
    \A c \in Clients : \A i \in 1..Len(inbox[c]) : inbox[c][i].type = "POLLS_LIST" =>
        /\ \A p \in Polls : "listed" \in inbox[c][i].polls[p] =>
              cache[c][p] \subseteq inbox[c][i].polls[p]
        /\ \A j \in i..Len(inbox[c]) : inbox[c][j].type = "POLLS_LIST" =>
              \A p \in Polls : inbox[c][i].polls[p] \subseteq inbox[c][j].polls[p]

IInv == TypeOK /\ ResultsTrue /\ UnderWayTrue /\ CacheTrue /\ ListsInOrder

\* What a step may do to polls and votes.
Growing ==
    \A p \in Polls :
        /\ poll[p] \cap Flags \subseteq poll'[p]
        /\ "closed" \in poll[p] => votes'[p] = votes[p]

\* The totals of a poll count some of the clients for each option.
LEMMA TotalsType == ASSUME NEW p \in Polls PROVE Totals(p) \in Tallies
<1> SUFFICES ASSUME NEW o \in Options
             PROVE  Cardinality({c \in Clients : votes[p][c] = o}) \in 0..Cardinality(Clients)
  BY DEF Totals, Tally, Tallies
<1>1. {c \in Clients : votes[p][c] = o} \subseteq Clients
  OBVIOUS
<1>2. IsFiniteSet(Clients)
  BY ScreensAssumption
<1>3. /\ IsFiniteSet({c \in Clients : votes[p][c] = o})
      /\ Cardinality({c \in Clients : votes[p][c] = o}) <= Cardinality(Clients)
  BY <1>1, <1>2, FS_Subset
<1> QED
  BY <1>2, <1>3, FS_CardinalityType

\* The messages and sends that the actions make are well typed.
LEMMA MessageTypes ==
    /\ \A p \in Polls : Opened(p) \in Messages /\ Closed(p) \in Messages
    /\ \A p \in Polls : Results(p, Totals(p)) \in Messages
    /\ \A s \in [Polls -> SUBSET Flags] : PollsList(s) \in Messages
    /\ \A ds \in SUBSET Clients, m \in Messages : SendTo(ds, m) \in Sends
    /\ \A m \in Messages : Broadcast(m) \in Sends
<1>1. \A p \in Polls : Opened(p) \in Messages /\ Closed(p) \in Messages
  BY DEF Messages, Opened, Closed
<1>2. \A p \in Polls : Results(p, Totals(p)) \in Messages
  BY TotalsType DEF Messages, Results
<1>3. \A s \in [Polls -> SUBSET Flags] : PollsList(s) \in Messages
  BY DEF Messages, PollsList
<1>4. \A ds \in SUBSET Clients, m \in Messages : SendTo(ds, m) \in Sends
  BY DEF Sends, SendTo
<1>5. \A m \in Messages : Broadcast(m) \in Sends
  BY DEF Sends, Broadcast
<1> QED
  BY <1>1, <1>2, <1>3, <1>4, <1>5

\* A connection that is lost takes its client out of the sends that are left.
LEMMA WithoutType ==
    ASSUME NEW c \in Clients, NEW sends \in Seq(Sends)
    PROVE  /\ Without(c, sends) \in Seq(Sends)
           /\ Len(Without(c, sends)) = Len(sends)
           /\ \A i \in 1..Len(sends) : Without(c, sends)[i].msg = sends[i].msg
<1> DEFINE f == Without(c, sends)
<1>1. Len(sends) \in Nat /\ DOMAIN f = 1..Len(sends)
  BY DEF Without
<1>2. ASSUME NEW i \in 1..Len(sends)
      PROVE  f[i] \in Sends /\ f[i].msg = sends[i].msg
  <2>1. sends[i] \in Sends /\ f[i] = [sends[i] EXCEPT !.to = @ \ {c}]
    BY DEF Without
  <2> QED
    BY <2>1 DEF Sends
<1>3. f \in [1..Len(sends) -> Sends]
  BY <1>1, <1>2 DEF Without
<1>4. f \in Seq(Sends)
  BY <1>1, <1>3, SeqDef
<1>5. Len(f) = Len(sends)
  BY <1>1, <1>4
<1> QED
  BY <1>2, <1>4, <1>5

(***************************************************************************)
(* Types.                                                                  *)
(***************************************************************************)
LEMMA InitTypes == Init => TypeOK
  BY DEF Init, TypeOK

\* What the server does to polls and votes, and the sends it leaves to do.
LEMMA ServerTypes ==
    ASSUME TypeOK,
           \/ AdminStep
           \/ \E p \in Polls : LoopClose(p)
           \/ \E c \in Clients, p \in Polls, o \in Options : RecordVote(c, p, o)
    PROVE  TypeOK'
<1> USE DEF TypeOK
<1>1. ASSUME NEW a \in Admins, NEW p \in Polls, CreatePoll(a, p) PROVE TypeOK'
  BY <1>1 DEF CreatePoll, Marked, Flags, controller, gui
<1>2. ASSUME NEW a \in Admins, NEW p \in Polls, ReleasePoll(a, p) PROVE TypeOK'
  <2>1. {a} \in SUBSET Clients
    BY ScreensAssumption
  <2>2. <<SendTo({a}, Opened(p)), Broadcast(Opened(p))>> \in Seq(Sends)
    BY <2>1, MessageTypes
  <2> QED
    BY <1>2, <2>2 DEF ReleasePoll, Marked, Starts, Flags, controller, gui
<1>3. ASSUME NEW a \in Admins, NEW p \in Polls, ClosePoll(a, p) PROVE TypeOK'
  <2>1. {a} \in SUBSET Clients
    BY ScreensAssumption
  <2>2. <<SendTo({a}, Closed(p)), SendTo({a}, Results(p, Totals(p))),
          Broadcast(Closed(p)), Broadcast(Results(p, Totals(p)))>> \in Seq(Sends)
    BY <2>1, MessageTypes
  <2> QED
    BY <1>3, <2>2 DEF ClosePoll, CloseWindow, Marked, Starts, Flags, controller, gui
<1>4. ASSUME NEW p \in Polls, LoopClose(p) PROVE TypeOK'
  <2>1. <<Broadcast(Closed(p)), Broadcast(Results(p, Totals(p)))>> \in Seq(Sends)
    BY MessageTypes
  <2> QED
    BY <1>4, <2>1 DEF LoopClose, CloseWindow, Marked, Starts, Flags, controller, gui
<1>5. ASSUME NEW c \in Clients, NEW p \in Polls, NEW o \in Options, RecordVote(c, p, o)
      PROVE  TypeOK'
  BY <1>5 DEF RecordVote, controller, gui
<1> QED
  BY <1>1, <1>2, <1>3, <1>4, <1>5 DEF AdminStep

\* What is written to clients, and lost.
LEMMA WriteTypes ==
    ASSUME TypeOK,
           \/ \E k \in DOMAIN task : Step(k)
           \/ \E c \in Clients : ListPolls(c)
           \/ ConnectionStep
    PROVE  TypeOK'
<1> USE DEF TypeOK
<1>1. ASSUME NEW k \in Tasks, Step(k) PROVE TypeOK'
  <2>1. task[k] \in Seq(Sends) /\ task[k] # <<>>
    BY <1>1 DEF Step, Tasks
  <2>2. Head(task[k]) \in Sends /\ Tail(task[k]) \in Seq(Sends)
    BY <2>1
  <2>3. Recipients(Head(task[k])) \in SUBSET Clients /\ Head(task[k]).msg \in Messages
    BY <2>2 DEF Recipients, Sends
  <2>4. CASE Recipients(Head(task[k])) = {} /\ Starts(k, Tail(task[k])) /\ UNCHANGED inbox
    BY <1>1, <2>2, <2>4 DEF Step, Starts, controller, gui
  <2>5. ASSUME NEW c \in Recipients(Head(task[k])),
               inbox' = [inbox EXCEPT ![c] = Append(@, Head(task[k]).msg)],
               NEW s \in Seq(Sends), Starts(k, s)
        PROVE  TypeOK'
    <3>1. inbox' \in [Clients -> Seq(Messages)]
      BY <2>3, <2>5
    <3> QED
      BY <1>1, <2>5, <3>1 DEF Step, Starts, controller, gui
  <2>6. ASSUME NEW c \in Recipients(Head(task[k]))
        PROVE  <<SendTo(Recipients(Head(task[k])) \ {c}, Head(task[k]).msg)>> \o Tail(task[k])
                  \in Seq(Sends)
    <3>1. SendTo(Recipients(Head(task[k])) \ {c}, Head(task[k]).msg) \in Sends
      BY <2>3, MessageTypes
    <3> QED
      BY <2>2, <3>1
  <2> QED
    BY <1>1, <2>2, <2>4, <2>5, <2>6 DEF Step
<1>2. ASSUME NEW c \in Clients, ListPolls(c) PROVE TypeOK'
  <2>1. PollsList([p \in Polls |-> Tell(p)]) \in Messages
    BY MessageTypes DEF Tell, Flags
  <2>2. inbox' \in [Clients -> Seq(Messages)]
    BY <1>2, <2>1 DEF ListPolls
  <2> QED
    BY <1>2, <2>2 DEF ListPolls, server, controller, gui
<1>3. ASSUME NEW c \in Clients, GoOffline(c) PROVE TypeOK'
  <2>1. inbox' \in [Clients -> Seq(Messages)]
    BY <1>3 DEF GoOffline
  <2>2. ASSUME NEW k \in Tasks PROVE Without(c, task[k]) \in Seq(Sends)
    BY WithoutType DEF Tasks
  <2>3. task' \in [Tasks -> Seq(Sends)]
    BY <1>3, <2>2 DEF GoOffline, Tasks
  <2> QED
    BY <1>3, <2>1, <2>3 DEF GoOffline, Tasks, controller, gui
<1>4. ASSUME NEW c \in Clients, ComeBack(c) PROVE TypeOK'
  BY <1>4 DEF ComeBack, server, controller, gui
<1> QED
  BY <1>1, <1>2, <1>3, <1>4 DEF ConnectionStep, Tasks

\* What the controllers and the users do.
LEMMA ClientTypes ==
    ASSUME TypeOK, ControllerStep \/ UserStep
    PROVE  TypeOK'
<1> USE DEF TypeOK
<1>1. ASSUME NEW c \in Clients, Handled(c), inbox[c] # <<>>,
             cache' \in [Clients -> [Polls -> SUBSET Flags]],
             windows' \in [Clients -> SUBSET Polls],
             results' \in [Clients -> [Polls -> Tallies \cup {NoResult}]]
      PROVE  TypeOK'
  BY <1>1, ScreensAssumption DEF Handled, Refresh, server
<1>2. ASSUME NEW c \in Clients, inbox[c] # <<>>
      PROVE  Head(inbox[c]) \in Messages
  BY <1>2
<1>3. ASSUME NEW c \in Clients, HandleList(c) PROVE TypeOK'
  <2>1. Head(inbox[c]).polls \in [Polls -> SUBSET Flags]
    BY <1>2, <1>3 DEF HandleList, First, Messages
  <2> DEFINE s == Head(inbox[c]).polls
  <2>2. cache' = [cache EXCEPT ![c] =
                     [p \in Polls |-> IF "listed" \in s[p] THEN s[p] ELSE cache[c][p]]]
    BY <1>3 DEF HandleList
  <2>3. cache[c] \in [Polls -> SUBSET Flags] /\ s \in [Polls -> SUBSET Flags]
    BY <2>1
  <2> HIDE DEF s
  <2>4. [p \in Polls |-> IF "listed" \in s[p] THEN s[p] ELSE cache[c][p]] \in [Polls -> SUBSET Flags]
    BY <2>3
  <2>5. cache' \in [Clients -> [Polls -> SUBSET Flags]]
    BY <2>2, <2>4
  <2> QED
    BY <1>1, <1>3, <2>5 DEF HandleList, First
<1>4. ASSUME NEW c \in Clients, HandleOpened(c) PROVE TypeOK'
  <2>1. Head(inbox[c]).poll \in Polls
    BY <1>2, <1>4 DEF HandleOpened, First, Messages
  <2> QED
    BY ZenonT(40), <1>1, <1>4, <2>1 DEF HandleOpened, First, Flags
<1>5. ASSUME NEW c \in Clients, HandleClosed(c) PROVE TypeOK'
  BY <1>1, <1>5 DEF HandleClosed, First
<1>6. ASSUME NEW c \in Clients, HandleResults(c) PROVE TypeOK'
  <2>1. Head(inbox[c]).poll \in Polls /\ Head(inbox[c]).totals \in Tallies
    BY <1>2, <1>6 DEF HandleResults, First, Messages
  <2> QED
    BY <1>1, <1>6, <2>1 DEF HandleResults, First
<1>7. ASSUME NEW c \in Clients, HandleOther(c) PROVE TypeOK'
  BY <1>7, ScreensAssumption DEF HandleOther, Refresh, server, controller
<1>8. ASSUME NEW c \in Clients, NEW p \in Polls, ShowPoll(c, p) PROVE TypeOK'
  BY <1>8, ScreensAssumption DEF ShowPoll, server, controller
<1>9. ASSUME NEW c \in Clients, ShowDashboard(c) PROVE TypeOK'
  BY <1>9 DEF ShowDashboard, server, controller
<1>10. ASSUME NEW c \in Clients, NEW o \in Options, Choose(c, o) PROVE TypeOK'
  BY <1>10 DEF Choose, server, controller
<1>11. ASSUME NEW c \in Clients, CastVote(c) PROVE TypeOK'
  <2>1. screen[c] \in Polls
    BY <1>11 DEF CastVote, Votable
  <2> QED
    BY <1>11, <2>1, ScreensAssumption DEF CastVote, Refresh, server, controller
<1> QED
  BY <1>3, <1>4, <1>5, <1>6, <1>7, <1>8, <1>9, <1>10, <1>11
  DEF ControllerStep, UserStep, Handle

LEMMA TypeStep == TypeOK /\ [Next]_vars => TypeOK'
<1> SUFFICES ASSUME TypeOK, [Next]_vars PROVE TypeOK'
  OBVIOUS
<1>1. CASE UNCHANGED vars
  BY <1>1 DEF vars, server, controller, gui, TypeOK
<1> QED
  BY <1>1, ServerTypes, WriteTypes, ClientTypes DEF Next, ServerStep

\* Every variable keeps its type: no handler of the controller or of the server
\* leaves a cache, a queue or a ballot with something else in it.
THEOREM TypesKept == Spec => []TypeOK
  BY InitTypes, TypeStep, PTL DEF Spec

(***************************************************************************)
(* What a step does to the polls, to what is under way, and to what a      *)
(* client knows.                                                           *)
(***************************************************************************)
\* Flags of a poll are never taken back, and its votes stay once it is closed.
LEMMA GrowingStep == ASSUME TypeOK, [Next]_vars PROVE Growing
<1> USE DEF TypeOK, Growing, Flags
<1>1. CASE UNCHANGED <<poll, votes>>
  BY <1>1
<1>2. ASSUME NEW a \in Admins, NEW p \in Polls, CreatePoll(a, p) PROVE Growing
  BY <1>2 DEF CreatePoll, Marked
<1>3. ASSUME NEW a \in Admins, NEW p \in Polls, ReleasePoll(a, p) PROVE Growing
  BY <1>3 DEF ReleasePoll, Marked
<1>4. ASSUME NEW a \in Admins, NEW p \in Polls, ClosePoll(a, p) PROVE Growing
  BY <1>4 DEF ClosePoll, CloseWindow, Marked
<1>5. ASSUME NEW p \in Polls, LoopClose(p) PROVE Growing
  BY <1>5 DEF LoopClose, CloseWindow, Marked
<1>6. ASSUME NEW c \in Clients, NEW p \in Polls, NEW o \in Options, RecordVote(c, p, o)
      PROVE  Growing
  BY <1>6 DEF RecordVote, Accepting
<1>7. CASE ConnectionStep \/ ControllerStep \/ UserStep \/ UNCHANGED vars
  BY <1>1, <1>7
  DEF ConnectionStep, GoOffline, ComeBack, ControllerStep, Handle, HandleList, HandleOpened,
      HandleClosed, HandleResults, Handled, HandleOther, UserStep, ShowPoll, ShowDashboard,
      Choose, CastVote, vars, server
<1>8. ASSUME NEW c \in Clients, ListPolls(c) PROVE Growing
  BY <1>1, <1>8 DEF ListPolls, server
<1>9. ASSUME NEW k \in DOMAIN task, Step(k) PROVE Growing
  BY <1>1, <1>9 DEF Step
<1> QED
  BY <1>2, <1>3, <1>4, <1>5, <1>6, <1>7, <1>8, <1>9 DEF Next, AdminStep, ServerStep

\* What is true of the polls stays true, even of the lists, which hold flags only.
LEMMA TrueStaysTrue == ASSUME TypeOK, Growing PROVE TrueMessages \subseteq TrueMessages'
<1> SUFFICES ASSUME NEW m \in TrueMessages PROVE m \in TrueMessages'
  OBVIOUS
<1>1. m \in Messages
  BY DEF TrueMessages
<1>2. CASE m.type = "POLLS_LIST"
  <2>1. \A p \in Polls : m.polls[p] \subseteq Flags
    BY <1>1, <1>2 DEF Messages
  <2> QED
    BY <1>1, <1>2, <2>1 DEF TrueMessages, Growing
<1>3. CASE m.type = "WINDOW_OPENED" \/ m.type = "WINDOW_CLOSED"
  <2>1. m.poll \in Polls
    BY <1>1, <1>3 DEF Messages
  <2> QED
    BY <1>1, <1>3, <2>1 DEF TrueMessages, Growing, Flags
<1>4. CASE m.type = "RESULTS_PUBLISHED"
  <2>1. m.poll \in Polls
    BY <1>1, <1>4 DEF Messages
  <2> QED
    BY <1>1, <1>4, <2>1 DEF TrueMessages, Growing, Flags, Totals
<1> QED
  BY <1>1, <1>2, <1>3, <1>4 DEF Messages

\* A message is appended to what is under way to a client, or the end of it is
\* lost, or its first message is handled; only then does the client learn.
LEMMA InboxStep ==
    ASSUME TypeOK, UnderWayTrue, [Next]_vars, NEW c \in Clients
    PROVE  \/ inbox'[c] = inbox[c] /\ cache'[c] = cache[c]
           \/ /\ \E m \in TrueSends \cup {PollsList([p \in Polls |-> Tell(p)])} :
                    inbox'[c] = Append(inbox[c], m)
              /\ cache'[c] = cache[c]
           \/ /\ \E n \in 0..Len(inbox[c]) : inbox'[c] = SubSeq(inbox[c], 1, n)
              /\ cache'[c] = cache[c] /\ c \notin online'
           \/ /\ inbox[c] # <<>> /\ inbox'[c] = Tail(inbox[c]) /\ Handle(c)
              /\ cache'[c] = cache[c] \/ HandleList(c) \/ HandleOpened(c)
<1> DEFINE Goal ==
           \/ inbox'[c] = inbox[c] /\ cache'[c] = cache[c]
           \/ /\ \E m \in TrueSends \cup {PollsList([p \in Polls |-> Tell(p)])} :
                    inbox'[c] = Append(inbox[c], m)
              /\ cache'[c] = cache[c]
           \/ /\ \E n \in 0..Len(inbox[c]) : inbox'[c] = SubSeq(inbox[c], 1, n)
              /\ cache'[c] = cache[c] /\ c \notin online'
           \/ /\ inbox[c] # <<>> /\ inbox'[c] = Tail(inbox[c]) /\ Handle(c)
              /\ cache'[c] = cache[c] \/ HandleList(c) \/ HandleOpened(c)
<1>1. CASE UNCHANGED <<inbox, cache>>
  BY <1>1
<1>2. CASE \/ AdminStep \/ \E p \in Polls : LoopClose(p)
           \/ \E d \in Clients, p \in Polls, o \in Options : RecordVote(d, p, o)
  BY <1>1, <1>2 DEF AdminStep, CreatePoll, ReleasePoll, ClosePoll, LoopClose, RecordVote, controller
<1>3. ASSUME NEW k \in Tasks, Step(k) PROVE Goal
  <2>1. cache' = cache /\ Head(task[k]).msg \in TrueSends
    <3>1. task[k] \in Seq(Sends) /\ task[k] # <<>>
      BY <1>3 DEF Step, Tasks, TypeOK
    <3>2. 1 \in 1..Len(task[k]) /\ Head(task[k]) = task[k][1]
      BY <3>1
    <3> QED
      BY <1>3, <3>2 DEF Step, UnderWayTrue, controller
  <2>2. CASE inbox' = inbox
    BY <2>1, <2>2
  <2>3. ASSUME NEW d \in Recipients(Head(task[k])),
               inbox' = [inbox EXCEPT ![d] = Append(@, Head(task[k]).msg)]
        PROVE  Goal
    BY <2>1, <2>3 DEF TypeOK
  <2> QED
    BY <1>3, <2>2, <2>3 DEF Step
<1>4. ASSUME NEW d \in Clients, ListPolls(d) PROVE Goal
  BY <1>4 DEF ListPolls, TypeOK, controller
<1>5. ASSUME NEW d \in Clients, GoOffline(d) PROVE Goal
  BY <1>5 DEF GoOffline, TypeOK, controller
<1>6. ASSUME NEW d \in Clients, ComeBack(d) PROVE Goal
  BY <1>1, <1>6 DEF ComeBack, controller
<1>7. ASSUME NEW d \in Clients, Handle(d) PROVE Goal
  <2>1. inbox[d] # <<>> /\ inbox' = [inbox EXCEPT ![d] = Tail(@)]
    BY <1>7 DEF Handle, HandleList, HandleOpened, HandleClosed, HandleResults, First, Handled
  <2>2. cache' = cache \/ HandleList(d) \/ HandleOpened(d)
    BY <1>7 DEF Handle, HandleClosed, HandleResults
  <2>3. CASE d = c
    BY <1>7, <2>1, <2>2, <2>3 DEF TypeOK
  <2>4. CASE d # c
    BY <2>1, <2>2, <2>4 DEF TypeOK, HandleList, HandleOpened
  <2> QED
    BY <2>3, <2>4
<1>8. ASSUME NEW d \in Clients, HandleOther(d) PROVE Goal
  BY <1>1, <1>8 DEF HandleOther, controller
<1>9. CASE UserStep \/ UNCHANGED vars
  BY <1>1, <1>9 DEF UserStep, ShowPoll, ShowDashboard, Choose, CastVote, vars, controller
<1> QED
  BY <1>2, <1>3, <1>4, <1>5, <1>6, <1>7, <1>8, <1>9
  DEF Next, ServerStep, ConnectionStep, ControllerStep, Tasks, TypeOK

\* What the tasks have left to send is true, of polls and tallies as they are
\* after the step too.
LEMMA TaskStep ==
    ASSUME TypeOK, UnderWayTrue, [Next]_vars, TrueSends \subseteq TrueSends', NEW k \in Tasks
    PROVE  \A i \in 1..Len(task'[k]) : task'[k][i].msg \in TrueSends'
<1> DEFINE AllTrue(q) == \A i \in 1..Len(q) : q[i].msg \in TrueSends'
<1>1. AllTrue(task[k]) /\ task[k] \in Seq(Sends)
  BY DEF UnderWayTrue, TypeOK, Tasks
<1>2. CASE UNCHANGED task
  BY <1>1, <1>2
<1>3. ASSUME NEW p \in Polls, {"listed", "released"} \subseteq poll'[p]
      PROVE  Opened(p) \in TrueSends'
  BY <1>3, MessageTypes DEF TrueSends, TrueMessages, Opened
<1>4. ASSUME NEW p \in Polls PROVE Closed(p) \in TrueSends'
  BY <1>4, MessageTypes DEF TrueSends, TrueMessages, Closed
<1>5. ASSUME NEW p \in Polls, "closed" \in poll'[p], votes' = votes
      PROVE  Results(p, Totals(p)) \in TrueSends'
  BY <1>5, MessageTypes DEF TrueSends, TrueMessages, Results, Totals
<1>6. ASSUME NEW a \in Admins, NEW p \in Polls, ReleasePoll(a, p) PROVE AllTrue(task'[k])
  <2>1. Opened(p) \in TrueSends'
    BY <1>3, <1>6 DEF ReleasePoll, Marked, TypeOK
  <2> QED
    BY <1>1, <1>6, <2>1 DEF ReleasePoll, Starts, SendTo, Broadcast, TypeOK, Tasks
<1>7. ASSUME NEW p \in Polls, CloseWindow(p), votes' = votes
      PROVE  Closed(p) \in TrueSends' /\ Results(p, Totals(p)) \in TrueSends'
  BY <1>4, <1>5, <1>7 DEF CloseWindow, Marked, TypeOK
<1>8. ASSUME NEW a \in Admins, NEW p \in Polls, ClosePoll(a, p) PROVE AllTrue(task'[k])
  BY <1>1, <1>7, <1>8 DEF ClosePoll, Starts, SendTo, Broadcast, TypeOK, Tasks
<1>9. ASSUME NEW p \in Polls, LoopClose(p) PROVE AllTrue(task'[k])
  BY <1>1, <1>7, <1>9 DEF LoopClose, Starts, SendTo, Broadcast, TypeOK, Tasks
<1>10. ASSUME NEW j \in Tasks, Step(j) PROVE AllTrue(task'[k])
  <2> DEFINE s == Head(task[j])
  <2>1. task[j] \in Seq(Sends) /\ task[j] # <<>> /\ AllTrue(task[j])
    BY <1>10 DEF Step, UnderWayTrue, TypeOK, Tasks
  <2>2. s.msg \in TrueSends' /\ Tail(task[j]) \in Seq(Sends) /\ AllTrue(Tail(task[j]))
    BY <2>1
  <2>3. ASSUME NEW ds PROVE AllTrue(<<SendTo(ds, s.msg)>> \o Tail(task[j]))
    BY <2>2 DEF SendTo
  <2> HIDE DEF s
  <2>4. \E q : Starts(j, q) /\ AllTrue(q)
    BY <1>10, <2>2, <2>3 DEF Step, s
  <2> QED
    BY <1>1, <2>4 DEF Starts, TypeOK, Tasks
<1>11. ASSUME NEW d \in Clients, GoOffline(d) PROVE AllTrue(task'[k])
  <2>1. task'[k] = Without(d, task[k])
    BY <1>11 DEF GoOffline, TypeOK, Tasks
  <2> QED
    BY <1>1, <2>1, WithoutType
<1>12. CASE UNCHANGED vars \/ ControllerStep \/ UserStep
  BY <1>2, <1>12
  DEF vars, server, ControllerStep, Handle, HandleList, HandleOpened, HandleClosed, HandleResults,
      Handled, HandleOther, UserStep, ShowPoll, ShowDashboard, Choose, CastVote
<1>13. CASE \/ \E a \in Admins, p \in Polls : CreatePoll(a, p)
            \/ \E c \in Clients : ListPolls(c) \/ ComeBack(c)
            \/ \E c \in Clients, p \in Polls, o \in Options : RecordVote(c, p, o)
  BY <1>2, <1>13 DEF CreatePoll, ListPolls, ComeBack, RecordVote, server
<1> QED
  BY <1>6, <1>8, <1>9, <1>10, <1>11, <1>12, <1>13
  DEF Next, AdminStep, ServerStep, ConnectionStep, Tasks, TypeOK

(***************************************************************************)
(* The inductive invariant.                                                *)
(***************************************************************************)
LEMMA InitInv == Init => IInv
<1> SUFFICES ASSUME Init PROVE IInv
  OBVIOUS
<1>1. TypeOK
  BY InitTypes
<1>2. ResultsTrue /\ UnderWayTrue /\ CacheTrue /\ ListsInOrder
  BY DEF Init, ResultsTrue, UnderWayTrue, CacheTrue, ListsInOrder, Tasks
<1> QED
  BY <1>1, <1>2 DEF IInv

\* The list at the head of what is under way is true, and no less than what
\* the client knows.
LEMMA HeadList ==
    ASSUME IInv, NEW c \in Clients, HandleList(c)
    PROVE  /\ Head(inbox[c]) = inbox[c][1] /\ inbox[c][1].type = "POLLS_LIST"
           /\ 1 \in 1..Len(inbox[c])
           /\ \A p \in Polls :
                 /\ inbox[c][1].polls[p] \subseteq poll[p]
                 /\ "listed" \in inbox[c][1].polls[p] => cache[c][p] \subseteq inbox[c][1].polls[p]
<1>1. inbox[c] \in Seq(Messages) /\ inbox[c] # <<>> /\ Head(inbox[c]).type = "POLLS_LIST"
  BY DEF IInv, TypeOK, HandleList, First
<1>2. Head(inbox[c]) = inbox[c][1] /\ 1 \in 1..Len(inbox[c])
  BY <1>1
<1>3. inbox[c][1] \in TrueMessages
  BY <1>2 DEF IInv, UnderWayTrue
<1> QED
  BY <1>1, <1>2, <1>3 DEF IInv, ListsInOrder, TrueMessages

\* What a client knows of a poll after a step.
LEMMA CacheStep ==
    ASSUME IInv, [Next]_vars, NEW c \in Clients, NEW p \in Polls
    PROVE  cache[c][p] \subseteq cache'[c][p] /\ cache'[c][p] \subseteq poll'[p]
<1>1. TypeOK /\ UnderWayTrue /\ cache[c][p] \subseteq poll[p]
  BY DEF IInv, CacheTrue
<1>2. Growing /\ cache[c][p] \subseteq poll'[p]
  BY <1>1, GrowingStep DEF Growing, TypeOK
<1>3. CASE cache'[c] = cache[c]
  BY <1>2, <1>3
<1>4. CASE HandleList(c)
  BY <1>1, <1>2, <1>4, HeadList DEF HandleList, Handled, server, TypeOK
<1>5. CASE HandleOpened(c)
  <2>1. Head(inbox[c]) \in TrueMessages /\ Head(inbox[c]).type = "WINDOW_OPENED"
    BY <1>1, <1>5 DEF HandleOpened, First, TypeOK, UnderWayTrue
  <2>2. "listed" \in poll[Head(inbox[c]).poll]
    BY <2>1 DEF TrueMessages
  <2> QED
    BY <1>1, <1>2, <1>5, <2>2 DEF HandleOpened, Handled, server, TypeOK
<1> QED
  BY <1>1, <1>3, <1>4, <1>5, InboxStep

\* Results change only when the controller handles true ones.
LEMMA ResultsStep ==
    ASSUME IInv, [Next]_vars, NEW c \in Clients, NEW p \in Polls,
           results'[c][p] # NoResult
    PROVE  "closed" \in poll'[p] /\ results'[c][p] = Totals(p)'
<1>1. TypeOK /\ UnderWayTrue /\ ResultsTrue /\ Growing
  BY GrowingStep DEF IInv
<1>2. CASE results'[c][p] = results[c][p]
  BY <1>1, <1>2 DEF ResultsTrue, Growing, Flags, Totals
<1>3. ASSUME NEW d \in Clients, HandleResults(d) PROVE "closed" \in poll'[p] /\ results'[c][p] = Totals(p)'
  <2>1. Head(inbox[d]) \in TrueMessages /\ Head(inbox[d]).type = "RESULTS_PUBLISHED"
    BY <1>1, <1>3 DEF HandleResults, First, TypeOK, UnderWayTrue
  <2>2. /\ "closed" \in poll[Head(inbox[d]).poll]
        /\ Head(inbox[d]).totals = Totals(Head(inbox[d]).poll)
    BY <2>1 DEF TrueMessages
  <2>3. CASE d = c /\ Head(inbox[d]).poll = p
    BY <1>1, <1>3, <2>2, <2>3 DEF HandleResults, Handled, server, TypeOK, Totals
  <2>4. CASE ~ (d = c /\ Head(inbox[d]).poll = p)
    BY <1>1, <1>2, <1>3, <2>4 DEF HandleResults, TypeOK
  <2> QED
    BY <2>3, <2>4
<1>4. CASE UNCHANGED results
  BY <1>2, <1>4
<1>5. CASE AdminStep \/ ServerStep \/ ConnectionStep
  BY <1>4, <1>5
  DEF AdminStep, CreatePoll, ReleasePoll, ClosePoll, ServerStep, LoopClose, Step, ListPolls,
      RecordVote, ConnectionStep, GoOffline, ComeBack, controller
<1>6. CASE ControllerStep \/ UserStep \/ UNCHANGED vars
  BY <1>3, <1>4, <1>6
  DEF ControllerStep, Handle, HandleList, HandleOpened, HandleClosed, HandleOther, UserStep,
      ShowPoll, ShowDashboard, Choose, CastVote, vars, controller
<1> QED
  BY <1>5, <1>6 DEF Next

\* Lists stay in order: a new one is behind the older ones and says no less,
\* and a client that handles one learns no more than the next one says.
LEMMA OrderStep ==
    ASSUME IInv, [Next]_vars, NEW c \in Clients, NEW i \in 1..Len(inbox'[c]),
           inbox'[c][i].type = "POLLS_LIST"
    PROVE  /\ \A p \in Polls : "listed" \in inbox'[c][i].polls[p] =>
                 cache'[c][p] \subseteq inbox'[c][i].polls[p]
           /\ \A j \in i..Len(inbox'[c]) : inbox'[c][j].type = "POLLS_LIST" =>
                 \A p \in Polls : inbox'[c][i].polls[p] \subseteq inbox'[c][j].polls[p]
<1> DEFINE L == PollsList([p \in Polls |-> Tell(p)])
           q == inbox[c]
           Ordered ==
             /\ \A p \in Polls : "listed" \in inbox'[c][i].polls[p] =>
                   cache'[c][p] \subseteq inbox'[c][i].polls[p]
             /\ \A j \in i..Len(inbox'[c]) : inbox'[c][j].type = "POLLS_LIST" =>
                   \A p \in Polls : inbox'[c][i].polls[p] \subseteq inbox'[c][j].polls[p]
<1>1. TypeOK /\ UnderWayTrue /\ CacheTrue /\ ListsInOrder
  BY DEF IInv
<1>2. q \in Seq(Messages) /\ Len(q) \in Nat
  BY <1>1 DEF TypeOK
<1>3. CASE inbox'[c] = q /\ cache'[c] = cache[c]
  BY <1>1, <1>3 DEF ListsInOrder
<1>4. ASSUME NEW n \in 0..Len(q), inbox'[c] = SubSeq(q, 1, n), cache'[c] = cache[c]
      PROVE  Ordered
  <2>1. Len(inbox'[c]) = n /\ \A j \in 1..n : inbox'[c][j] = q[j]
    BY <1>2, <1>4
  <2> QED
    BY <1>1, <1>2, <1>4, <2>1 DEF ListsInOrder
<1>5. ASSUME NEW m \in TrueSends \cup {L}, inbox'[c] = Append(q, m), cache'[c] = cache[c]
      PROVE  Ordered
  <2>1. /\ Len(inbox'[c]) = Len(q) + 1
        /\ \A j \in 1..Len(q) : inbox'[c][j] = q[j]
        /\ inbox'[c][Len(q) + 1] = m
    BY <1>2, <1>5
  <2>2. m.type = "POLLS_LIST" => \A p \in Polls : m.polls[p] = poll[p] \cap Flags
    BY DEF TrueSends, PollsList, Tell
  <2>3. ASSUME NEW j \in 1..Len(q), q[j].type = "POLLS_LIST", NEW p \in Polls
        PROVE  q[j].polls[p] \subseteq poll[p] \cap Flags
    BY <1>1, <1>2, <2>3 DEF UnderWayTrue, TrueMessages, Messages
  <2>4. CASE i = Len(q) + 1
    BY <1>1, <1>2, <1>5, <2>1, <2>2, <2>4 DEF CacheTrue, TypeOK
  <2>5. CASE i \in 1..Len(q)
    <3>1. \A p \in Polls : "listed" \in q[i].polls[p] => cache'[c][p] \subseteq q[i].polls[p]
      BY <1>1, <1>5, <2>1, <2>5 DEF ListsInOrder
    <3>2. ASSUME NEW j \in i..Len(inbox'[c]), inbox'[c][j].type = "POLLS_LIST", NEW p \in Polls
          PROVE  q[i].polls[p] \subseteq inbox'[c][j].polls[p]
      <4>1. CASE j \in i..Len(q)
        BY SMTT(20), <1>1, <1>2, <2>1, <2>5, <3>2, <4>1 DEF ListsInOrder
      <4>2. CASE j = Len(q) + 1
        BY <2>1, <2>2, <2>3, <2>5, <3>2, <4>2
      <4> QED
        BY <1>2, <2>1, <2>5, <4>1, <4>2
    <3> QED
      BY <2>1, <2>5, <3>1, <3>2
  <2> QED
    BY SMTT(20), <1>2, <2>1, <2>4, <2>5
<1>6. CASE q # <<>> /\ inbox'[c] = Tail(q)
            /\ (cache'[c] = cache[c] \/ HandleList(c) \/ HandleOpened(c))
  <2>1. /\ Len(inbox'[c]) = Len(q) - 1
        /\ \A j \in 1..Len(inbox'[c]) : inbox'[c][j] = q[j + 1]
    BY <1>2, <1>6
  <2>2. i + 1 \in 1..Len(q) /\ q[i + 1].type = "POLLS_LIST" /\ inbox'[c][i] = q[i + 1]
    BY <1>2, <2>1
  <2>3. ASSUME NEW p \in Polls, "listed" \in q[i + 1].polls[p]
        PROVE  cache'[c][p] \subseteq q[i + 1].polls[p]
    <3>1. cache[c][p] \subseteq q[i + 1].polls[p]
      BY <1>1, <2>2, <2>3 DEF ListsInOrder
    <3>2. CASE HandleList(c)
      <4>1. q[1].polls[p] \subseteq q[i + 1].polls[p]
        BY <1>1, <1>2, <2>2, <3>2, HeadList DEF ListsInOrder
      <4> QED
        BY <1>1, <3>1, <3>2, <4>1, HeadList DEF HandleList, TypeOK
    <3>3. CASE HandleOpened(c)
      BY <1>1, <2>3, <3>1, <3>3 DEF HandleOpened, TypeOK
    <3> QED
      BY <1>6, <3>1, <3>2, <3>3
  <2>4. ASSUME NEW j \in i..Len(inbox'[c]), inbox'[c][j].type = "POLLS_LIST", NEW p \in Polls
        PROVE  q[i + 1].polls[p] \subseteq inbox'[c][j].polls[p]
    <3>1. j + 1 \in (i + 1)..Len(q) /\ inbox'[c][j] = q[j + 1]
      BY <1>2, <2>1
    <3> QED
      BY <1>1, <2>2, <2>4, <3>1 DEF ListsInOrder
  <2> QED
    BY <2>2, <2>3, <2>4
<1> HIDE DEF Ordered
<1>7. Ordered
  BY <1>1, <1>3, <1>4, <1>5, <1>6, InboxStep DEF Ordered
<1> QED
  BY <1>7 DEF Ordered

\* Whatever is under way is true after a step.
LEMMA UnderWayStep == ASSUME IInv, [Next]_vars PROVE UnderWayTrue'
<1>1. TypeOK /\ UnderWayTrue /\ TypeOK'
  BY TypeStep DEF IInv
<1>2. TrueMessages \subseteq TrueMessages'
  BY <1>1, GrowingStep, TrueStaysTrue
<1>3. TrueSends \subseteq TrueSends'
  BY <1>2 DEF TrueSends
<1>4. ASSUME NEW c \in Clients, NEW i \in 1..Len(inbox'[c]) PROVE inbox'[c][i] \in TrueMessages'
  <2> DEFINE q == inbox[c]
             L == PollsList([p \in Polls |-> Tell(p)])
  <2>1. q \in Seq(Messages) /\ \A j \in 1..Len(q) : q[j] \in TrueMessages'
    BY <1>1, <1>2 DEF TypeOK, UnderWayTrue
  <2>2. L \in TrueMessages'
    <3>1. L \in Messages
      BY MessageTypes DEF Tell
    <3>2. \A p \in Polls : L.polls[p] \subseteq poll'[p]
      BY <1>1, GrowingStep DEF PollsList, Tell, Growing
    <3> QED
      BY <3>1, <3>2 DEF TrueMessages, PollsList
  <2>3. TrueSends \subseteq TrueMessages'
    BY <1>2 DEF TrueSends
  <2> HIDE DEF L
  <2>4. CASE inbox'[c] = q
    BY <2>1, <2>4
  <2>5. ASSUME NEW m \in TrueSends \cup {L}, inbox'[c] = Append(q, m)
        PROVE  inbox'[c][i] \in TrueMessages'
    BY <2>1, <2>2, <2>3, <2>5
  <2>6. ASSUME NEW n \in 0..Len(q), inbox'[c] = SubSeq(q, 1, n)
        PROVE  inbox'[c][i] \in TrueMessages'
    BY <2>1, <2>6
  <2>7. CASE q # <<>> /\ inbox'[c] = Tail(q)
    BY <2>1, <2>7
  <2> QED
    BY <1>1, <2>4, <2>5, <2>6, <2>7, InboxStep DEF L
<1>5. \A k \in Tasks : \A i \in 1..Len(task'[k]) : task'[k][i].msg \in TrueSends'
  BY <1>1, <1>3, TaskStep
<1> QED
  BY <1>4, <1>5 DEF UnderWayTrue, Tasks

LEMMA InvStep == ASSUME IInv, [Next]_vars PROVE IInv'
<1>1. TypeOK'
  BY TypeStep DEF IInv
<1>2. ResultsTrue'
  BY ResultsStep DEF ResultsTrue
<1>3. UnderWayTrue'
  BY UnderWayStep
<1>4. CacheTrue'
  BY CacheStep DEF CacheTrue
<1>5. ListsInOrder'
  BY OrderStep DEF ListsInOrder
<1> QED
  BY <1>1, <1>2, <1>3, <1>4, <1>5 DEF IInv

LEMMA InvAlways == Spec => []IInv
  BY InitInv, InvStep, PTL DEF Spec

\* ResultsTrue: whatever broadcasts of the loop and of administrators overlap,
\* and whoever reconnects, _on_results_published never stores anything but the
\* final tally of a closed poll.
THEOREM ResultsAlwaysTrue == Spec => []ResultsTrue
  BY InvAlways, PTL DEF IInv

\* FlagsKept: the overwriting of _on_polls_list and the openings that come late
\* never turn a flag of a poll back.
THEOREM FlagsNeverTurnBack == Spec => FlagsKept
<1>1. IInv /\ [Next]_vars => [\A c \in Clients, p \in Polls : cache[c][p] \subseteq cache'[c][p]]_vars
  BY CacheStep
<1> QED
  BY <1>1, InvAlways, PTL DEF Spec, FlagsKept

(***************************************************************************)
(* Behaviours with their history, TraceSpec: every behaviour of            *)
(* PollScreens is one, and every behaviour that TLC checks.                *)
(***************************************************************************)
LEMMA TraceStep == ASSUME [TraceNext]_mcvars PROVE [Next]_vars
  BY DEF TraceNext, mcvars

LEMMA BoundedIsTrace == MCSpec => TraceSpec
<1>1. ASSUME MCNext PROVE TraceNext
  <2>1. CASE ServerStep
    BY <1>1, <2>1 DEF MCNext, TraceNext, Next
  <2>2. CASE \E a \in Admins, p \in Polls : CreatePoll(a, p) \/ ReleasePoll(a, p) \/ ClosePoll(a, p)
    BY <1>1, <2>2 DEF MCNext, TraceNext, Next, AdminStep
  <2>3. CASE \E c \in Clients : GoOffline(c) \/ ComeBack(c)
    BY <1>1, <2>3 DEF MCNext, TraceNext, Next, ConnectionStep
  <2>4. CASE \E c \in Clients : Handle(c) \/ HandleOther(c)
    BY <1>1, <2>4 DEF MCNext, TraceNext, Next, ControllerStep
  <2>5. CASE \E c \in Clients :
               \/ ShowDashboard(c) \/ CastVote(c)
               \/ \E p \in Polls : ShowPoll(c, p)
               \/ \E o \in Options : Choose(c, o)
    BY <1>1, <2>5 DEF MCNext, TraceNext, Next, UserStep
  <2> QED
    BY <1>1, <2>1, <2>2, <2>3, <2>4, <2>5 DEF MCNext
<1>2. MCInit => TraceInit
  BY DEF MCInit
<1> QED
  BY <1>1, <1>2, PTL DEF MCSpec, TraceSpec

\* A poll that was released is open until it is closed, and only a poll that
\* was released is in the windows of a client.
ReleasedOpens ==
    \A p \in Polls : "released" \in poll[p] => "open" \in poll[p] \/ "closed" \in poll[p]

WindowsReleased == \A c \in Clients : \A p \in windows[c] : "released" \in poll[p]

LEMMA ReleasedStep == ASSUME TypeOK, ReleasedOpens, [Next]_vars PROVE ReleasedOpens'
<1>1. CASE UNCHANGED poll
  BY <1>1 DEF ReleasedOpens
<1>2. ASSUME NEW p \in Polls, CloseWindow(p) PROVE ReleasedOpens'
  BY <1>2 DEF CloseWindow, Marked, ReleasedOpens, TypeOK
<1>3. ASSUME NEW a \in Admins, NEW p \in Polls, CreatePoll(a, p) \/ ReleasePoll(a, p)
      PROVE  ReleasedOpens'
  <2>1. \A q \in Polls \ {p} : poll'[q] = poll[q]
    BY <1>3 DEF CreatePoll, ReleasePoll, Marked, TypeOK
  <2>2. poll'[p] = {"listed"} \/ "open" \in poll'[p]
    BY <1>3 DEF CreatePoll, ReleasePoll, Marked, TypeOK
  <2> QED
    BY <2>1, <2>2 DEF ReleasedOpens
<1>4. CASE ServerStep
  <2>1. (\E p \in Polls : CloseWindow(p)) \/ UNCHANGED poll
    BY <1>4 DEF ServerStep, LoopClose, Step, ListPolls, RecordVote, server
  <2> QED
    BY <1>1, <1>2, <2>1
<1>5. CASE ConnectionStep \/ ControllerStep \/ UserStep \/ UNCHANGED vars
  BY <1>1, <1>5
  DEF ConnectionStep, GoOffline, ComeBack, ControllerStep, Handle, HandleList, HandleOpened,
      HandleClosed, HandleResults, Handled, HandleOther, UserStep, ShowPoll, ShowDashboard, Choose,
      CastVote, server, vars
<1> QED
  BY <1>2, <1>3, <1>4, <1>5 DEF Next, AdminStep, ClosePoll

LEMMA WindowsStep == ASSUME IInv, WindowsReleased, [Next]_vars PROVE WindowsReleased'
<1>1. TypeOK /\ UnderWayTrue /\ Growing
  BY GrowingStep DEF IInv
<1>2. CASE UNCHANGED windows
  <2> SUFFICES ASSUME NEW c \in Clients, NEW p \in windows'[c] PROVE "released" \in poll'[p]
    BY DEF WindowsReleased
  <2>1. p \in Polls /\ "released" \in poll[p]
    BY <1>1, <1>2 DEF WindowsReleased, TypeOK
  <2> QED
    BY <1>1, <2>1 DEF Growing, Flags
<1>3. ASSUME NEW c \in Clients, HandleOpened(c) PROVE WindowsReleased'
  <2>1. inbox[c] # <<>> /\ Head(inbox[c]).type = "WINDOW_OPENED"
    BY <1>3 DEF HandleOpened, First
  <2>2. inbox[c] \in Seq(Messages)
    BY <1>1 DEF TypeOK
  <2>3. 1 \in 1..Len(inbox[c]) /\ Head(inbox[c]) = inbox[c][1]
    BY <2>1, <2>2
  <2>4. "released" \in poll[Head(inbox[c]).poll]
    BY <1>1, <2>1, <2>3 DEF UnderWayTrue, TrueMessages
  <2> QED
    BY <1>1, <1>3, <2>4 DEF HandleOpened, Handled, server, WindowsReleased, TypeOK
<1>4. ASSUME NEW c \in Clients, HandleClosed(c) PROVE WindowsReleased'
  BY <1>1, <1>4 DEF HandleClosed, Handled, server, WindowsReleased, TypeOK
<1>5. CASE AdminStep \/ ServerStep \/ ConnectionStep
  BY <1>2, <1>5
  DEF AdminStep, CreatePoll, ReleasePoll, ClosePoll, ServerStep, LoopClose, Step, ListPolls,
      RecordVote, ConnectionStep, GoOffline, ComeBack, controller
<1>6. CASE ControllerStep \/ UserStep \/ UNCHANGED vars
  BY <1>2, <1>3, <1>4, <1>6
  DEF ControllerStep, Handle, HandleList, HandleResults, HandleOther, UserStep, ShowPoll,
      ShowDashboard, Choose, CastVote, vars, controller
<1> QED
  BY <1>5, <1>6 DEF Next

(***************************************************************************)
(* Of a poll that is closed, whoever has been connected ever since shows   *)
(* the results or is about to be sent them.                                *)
(***************************************************************************)
Carries(msg, p) == msg.type = "RESULTS_PUBLISHED" /\ msg.poll = p

InInbox(c, p) == \E i \in 1..Len(inbox[c]) : Carries(inbox[c][i], p)

\* A send reaches a client when it begins while the clients on are connected.
Reaches(s, c, on) == IF s.all THEN c \in on ELSE c \in s.to

InTask(c, p) ==
    \E k \in Tasks : \E i \in 1..Len(task[k]) :
        Carries(task[k][i].msg, p) /\ Reaches(task[k][i], c, online)

Shown(c, p) == results[c][p] # NoResult

ResultsComing ==
    \A c \in Clients, p \in Polls :
        /\ Told[p] # {} /\ p \notin missed[c] => c \in online
        /\ "closed" \in poll[p] /\ p \notin missed[c] =>
              Shown(c, p) \/ InInbox(c, p) \/ InTask(c, p)

\* Results that are shown are not taken away.
LEMMA ShownStays ==
    ASSUME TypeOK, [Next]_vars, NEW c \in Clients, NEW p \in Polls, Shown(c, p)
    PROVE  Shown(c, p)'
<1>1. CASE UNCHANGED results
  BY <1>1 DEF Shown
<1>2. ASSUME NEW d \in Clients, HandleResults(d) PROVE Shown(c, p)'
  <2>1. Head(inbox[d]) \in Messages /\ Head(inbox[d]).type = "RESULTS_PUBLISHED"
    BY <1>2 DEF HandleResults, First, TypeOK
  <2>2. Head(inbox[d]).totals # NoResult
    BY <2>1, ScreensAssumption DEF Messages
  <2> QED
    BY <1>2, <2>2 DEF HandleResults, Shown, TypeOK
<1>3. CASE AdminStep \/ ServerStep \/ ConnectionStep
  BY <1>1, <1>3
  DEF AdminStep, CreatePoll, ReleasePoll, ClosePoll, ServerStep, LoopClose, Step, ListPolls,
      RecordVote, ConnectionStep, GoOffline, ComeBack, controller
<1>4. CASE ControllerStep \/ UserStep \/ UNCHANGED vars
  BY <1>1, <1>2, <1>4
  DEF ControllerStep, Handle, HandleList, HandleOpened, HandleClosed, HandleOther, UserStep,
      ShowPoll, ShowDashboard, Choose, CastVote, vars, controller
<1> QED
  BY <1>3, <1>4 DEF Next

\* Results that are under way to a client whose connection lasts stay so until
\* the client shows them.
LEMMA InboxKeeps ==
    ASSUME TypeOK, UnderWayTrue, [Next]_vars, NEW c \in Clients, NEW p \in Polls,
           InInbox(c, p), c \in online'
    PROVE  InInbox(c, p)' \/ Shown(c, p)'
<1> DEFINE q == inbox[c]
<1>1. q \in Seq(Messages) /\ Len(q) \in Nat
  BY DEF TypeOK
<1>2. PICK i \in 1..Len(q) : Carries(q[i], p)
  BY DEF InInbox
<1>3. CASE inbox'[c] = q
  BY <1>2, <1>3 DEF InInbox
<1>4. ASSUME NEW m, inbox'[c] = Append(q, m) PROVE InInbox(c, p)'
  <2>1. i \in 1..Len(inbox'[c]) /\ inbox'[c][i] = q[i]
    BY <1>1, <1>4
  <2> QED
    BY <1>2, <2>1 DEF InInbox
<1>5. CASE q # <<>> /\ inbox'[c] = Tail(q) /\ Handle(c)
  <2>1. CASE i = 1
    <3>1. Carries(Head(q), p)
      BY <1>1, <1>2, <2>1
    <3>2. HandleResults(c)
      BY <1>5, <3>1 DEF Handle, HandleList, HandleOpened, HandleClosed, First, Carries
    <3>3. Head(q) \in Messages /\ results'[c][p] = Head(q).totals
      BY <1>1, <1>5, <3>1, <3>2 DEF HandleResults, Carries, TypeOK
    <3> QED
      BY <3>1, <3>3, ScreensAssumption DEF Messages, Carries, Shown
  <2>2. CASE i # 1
    <3>1. i - 1 \in 1..Len(inbox'[c]) /\ inbox'[c][i - 1] = q[i]
      BY <1>1, <1>5, <2>2
    <3> QED
      BY <1>2, <3>1 DEF InInbox
  <2> QED
    BY <2>1, <2>2
<1> HIDE DEF q
<1> QED
  BY <1>3, <1>4, <1>5, InboxStep DEF q

\* A send that is left to do to a client stays until it is done.
LEMMA TaskKeeps ==
    ASSUME TypeOK, [Next]_vars, NEW c \in Clients, NEW p \in Polls,
           InTask(c, p), c \in online, c \in online'
    PROVE  InInbox(c, p)' \/ InTask(c, p)'
<1>1. PICK k \in Tasks : \E i \in 1..Len(task[k]) :
          Carries(task[k][i].msg, p) /\ Reaches(task[k][i], c, online)
  BY DEF InTask
<1>2. PICK i \in 1..Len(task[k]) : Carries(task[k][i].msg, p) /\ Reaches(task[k][i], c, online)
  BY <1>1
<1>3. task[k] \in Seq(Sends) /\ task[k] # <<>> /\ Len(task[k]) \in Nat /\ task[k][i] \in Sends
  <2>1. task[k] \in Seq(Sends)
    BY DEF TypeOK, Tasks
  <2> QED
    BY <1>2, <2>1
<1>4. Reaches(task[k][i], c, online')
  BY <1>2 DEF Reaches
<1>5. CASE task'[k] = task[k]
  BY <1>2, <1>4, <1>5 DEF InTask
<1>6. ASSUME NEW j \in Tasks, NEW s, task[j] = <<>>, Starts(j, s) PROVE task'[k] = task[k]
  BY <1>3, <1>6 DEF Starts, TypeOK
<1>7. ASSUME NEW j \in Tasks, Step(j) PROVE InInbox(c, p)' \/ InTask(c, p)'
  <2>1. CASE j # k
    <3>1. task'[k] = task[k]
      BY <1>7, <2>1 DEF Step, Starts, TypeOK, Tasks
    <3> QED
      BY <1>5, <3>1
  <2>2. ASSUME j = k, Starts(k, Tail(task[k])), i # 1 PROVE InTask(c, p)'
    <3>1. task'[k] = Tail(task[k])
      BY <2>2 DEF Starts, TypeOK, Tasks
    <3>2. i - 1 \in 1..Len(task'[k]) /\ task'[k][i - 1] = task[k][i]
      BY <1>3, <2>2, <3>1
    <3> QED
      BY <1>2, <1>4, <3>2 DEF InTask
  <2>3. ASSUME j = k, NEW ds, c \in ds \/ i # 1,
               Starts(k, <<SendTo(ds, Head(task[k]).msg)>> \o Tail(task[k]))
        PROVE  InTask(c, p)'
    <3> DEFINE t == SendTo(ds, Head(task[k]).msg)
    <3>1. task'[k] = <<t>> \o Tail(task[k])
      BY <2>3 DEF Starts, TypeOK, Tasks
    <3> HIDE DEF t
    <3>2. /\ Len(task'[k]) = Len(task[k]) /\ task'[k][1] = t
          /\ i # 1 => task'[k][i] = task[k][i]
      BY <1>3, <3>1
    <3>3. CASE i # 1
      BY <1>2, <1>4, <3>2, <3>3 DEF InTask
    <3>4. CASE i = 1
      <4>1. t.msg = task[k][1].msg /\ c \in t.to
        BY <1>3, <2>3, <3>4 DEF t, SendTo
      <4>2. Reaches(t, c, online')
        BY <4>1 DEF Reaches, t, SendTo
      <4> QED
        BY <1>2, <3>2, <3>4, <4>1, <4>2 DEF InTask
    <3> QED
      BY <3>3, <3>4
  <2>4. ASSUME j = k, i = 1, NEW d \in Recipients(Head(task[k])), d = c,
               inbox' = [inbox EXCEPT ![d] = Append(@, Head(task[k]).msg)]
        PROVE  InInbox(c, p)'
    <3>1. Carries(Head(task[k]).msg, p)
      BY <1>2, <1>3, <2>4
    <3>2. inbox'[c] = Append(inbox[c], Head(task[k]).msg) /\ Len(inbox[c]) \in Nat
      BY <2>4 DEF TypeOK
    <3>3. /\ Len(inbox[c]) + 1 \in 1..Len(inbox'[c])
          /\ inbox'[c][Len(inbox[c]) + 1] = Head(task[k]).msg
      BY <3>2 DEF TypeOK
    <3> QED
      BY <3>1, <3>3 DEF InInbox
  <2>5. i = 1 => c \in Recipients(Head(task[k]))
    BY <1>2, <1>3 DEF Reaches, Recipients
  <2> QED
    BY <1>7, <2>1, <2>2, <2>3, <2>4, <2>5 DEF Step
<1>8. ASSUME NEW d \in Clients, GoOffline(d) PROVE InTask(c, p)'
  <2>1. d # c /\ task'[k] = Without(d, task[k])
    BY <1>8 DEF GoOffline, TypeOK, Tasks
  <2>2. Len(task'[k]) = Len(task[k]) /\ task'[k][i].msg = task[k][i].msg
    BY <1>3, <2>1, WithoutType
  <2>3. task'[k][i] = [task[k][i] EXCEPT !.to = @ \ {d}]
    BY <2>1 DEF Without
  <2>4. /\ task'[k][i].all = task[k][i].all
        /\ c \in task[k][i].to => c \in task'[k][i].to
    BY <1>3, <2>1, <2>3 DEF Sends
  <2>5. Reaches(task'[k][i], c, online')
    BY <1>4, <2>4 DEF Reaches
  <2> QED
    BY <1>2, <2>2, <2>5 DEF InTask
<1>9. CASE AdminStep \/ \E r \in Polls : LoopClose(r)
  BY <1>5, <1>6, <1>9
  DEF AdminStep, CreatePoll, ReleasePoll, ClosePoll, LoopClose, Reads, Tasks
<1>10. CASE \/ \E d \in Clients : ListPolls(d) \/ ComeBack(d)
            \/ \E d \in Clients, r \in Polls, o \in Options : RecordVote(d, r, o)
            \/ ControllerStep \/ UserStep \/ UNCHANGED vars
  BY <1>5, <1>10
  DEF ListPolls, ComeBack, RecordVote, ControllerStep, Handle, HandleList, HandleOpened,
      HandleClosed, HandleResults, Handled, HandleOther, UserStep, ShowPoll, ShowDashboard, Choose,
      CastVote, server, vars
<1> QED
  BY <1>7, <1>8, <1>9, <1>10 DEF Next, ServerStep, ConnectionStep, Tasks, TypeOK

\* A poll that is closed was closed before, or its results are left to be sent
\* to everybody.
LEMMA ClosedStep ==
    ASSUME TypeOK, [Next]_vars, NEW p \in Polls, "closed" \in poll'[p]
    PROVE  \/ "closed" \in poll[p]
           \/ /\ online' = online
              /\ \E k \in Tasks : \E i \in 1..Len(task'[k]) :
                    Carries(task'[k][i].msg, p) /\ task'[k][i].all
<1> DEFINE Goal ==
           \/ "closed" \in poll[p]
           \/ /\ online' = online
              /\ \E k \in Tasks : \E i \in 1..Len(task'[k]) :
                    Carries(task'[k][i].msg, p) /\ task'[k][i].all
<1>1. CASE UNCHANGED poll
  BY <1>1
<1>2. ASSUME NEW a \in Admins, NEW q \in Polls, CreatePoll(a, q) \/ ReleasePoll(a, q)
      PROVE  Goal
  <2>1. poll'[p] \in {poll[p], {"listed"}, poll[p] \cup {"released", "open"}}
    BY <1>2 DEF CreatePoll, ReleasePoll, Marked, TypeOK
  <2> QED
    BY <2>1
<1>3. ASSUME NEW q \in Polls, q # p, CloseWindow(q) PROVE Goal
  BY <1>3 DEF CloseWindow, Marked, TypeOK
<1>4. ASSUME NEW k \in Tasks, NEW s, Starts(k, s), online' = online, NEW i \in 1..Len(s),
             s[i] = Broadcast(Results(p, Totals(p)))
      PROVE  Goal
  <2>1. task'[k] = s
    BY <1>4 DEF Starts, TypeOK, Tasks
  <2>2. Carries(s[i].msg, p) /\ s[i].all
    BY <1>4 DEF Broadcast, Results, Carries
  <2> QED
    BY <1>4, <2>1, <2>2
<1>5. ASSUME NEW a \in Admins, NEW q \in Polls, ClosePoll(a, q) PROVE Goal
  <2>1. CASE q # p
    BY <1>3, <1>5, <2>1 DEF ClosePoll
  <2>2. CASE q = p
    <3> DEFINE s == <<SendTo({a}, Closed(p)), SendTo({a}, Results(p, Totals(p))),
                      Broadcast(Closed(p)), Broadcast(Results(p, Totals(p)))>>
    <3>1. 4 \in 1..Len(s) /\ s[4] = Broadcast(Results(p, Totals(p)))
      OBVIOUS
    <3>2. a \in Tasks /\ Starts(a, s) /\ online' = online
      BY <1>5, <2>2 DEF ClosePoll, Tasks
    <3> HIDE DEF s, Goal
    <3> QED
      BY <1>4, <3>1, <3>2
  <2> QED
    BY <2>1, <2>2
<1>6. ASSUME NEW q \in Polls, LoopClose(q) PROVE Goal
  <2>1. CASE q # p
    BY <1>3, <1>6, <2>1 DEF LoopClose
  <2>2. CASE q = p
    <3> DEFINE s == <<Broadcast(Closed(p)), Broadcast(Results(p, Totals(p)))>>
    <3>1. 2 \in 1..Len(s) /\ s[2] = Broadcast(Results(p, Totals(p)))
      OBVIOUS
    <3>2. Loop \in Tasks /\ Starts(Loop, s) /\ online' = online
      BY <1>6, <2>2 DEF LoopClose, Tasks
    <3> HIDE DEF s, Goal
    <3> QED
      BY <1>4, <3>1, <3>2
  <2> QED
    BY <2>1, <2>2
<1>7. CASE \/ \E k \in DOMAIN task : Step(k)
           \/ \E c \in Clients : ListPolls(c)
           \/ \E c \in Clients, q \in Polls, o \in Options : RecordVote(c, q, o)
           \/ ConnectionStep
  BY <1>1, <1>7 DEF Step, ListPolls, RecordVote, ConnectionStep, GoOffline, ComeBack, server
<1>8. CASE ControllerStep \/ UserStep \/ UNCHANGED vars
  BY <1>1, <1>8
  DEF ControllerStep, Handle, HandleList, HandleOpened, HandleClosed, HandleResults, Handled,
      HandleOther, UserStep, ShowPoll, ShowDashboard, Choose, CastVote, server, vars
<1> QED
  BY <1>2, <1>5, <1>6, <1>7, <1>8 DEF Next, AdminStep, ServerStep

\* Who is said to have missed nothing of a poll is connected, and has been
\* since the poll was released or closed.
LEMMA PresentStep ==
    ASSUME TypeOK, ResultsComing, [TraceNext]_mcvars, NEW c \in Clients, NEW p \in Polls,
           Told'[p] # {}, p \notin missed'[c]
    PROVE  p \notin missed[c] /\ c \in online'
<1>1. CASE TraceNext
  BY <1>1 DEF TraceNext, Remembered
<1>2. CASE UNCHANGED mcvars
  BY <1>2 DEF mcvars, vars, server, Told, ResultsComing
<1> QED
  BY <1>1, <1>2

LEMMA ComingStep ==
    ASSUME TypeOK, UnderWayTrue, ResultsComing, [TraceNext]_mcvars
    PROVE  ResultsComing'
<1>0. [Next]_vars
  BY TraceStep
<1>1. ASSUME NEW c \in Clients, NEW p \in Polls, "closed" \in poll'[p], p \notin missed'[c]
      PROVE  Shown(c, p)' \/ InInbox(c, p)' \/ InTask(c, p)'
  <2>1. p \notin missed[c] /\ c \in online'
    BY <1>1, PresentStep DEF Told
  <2>2. CASE "closed" \in poll[p]
    <3>1. c \in online
      BY <2>1, <2>2 DEF ResultsComing, Told
    <3>2. Shown(c, p) \/ InInbox(c, p) \/ InTask(c, p)
      BY <2>1, <2>2 DEF ResultsComing
    <3> QED
      BY <1>0, <2>1, <3>1, <3>2, ShownStays, InboxKeeps, TaskKeeps
  <2>3. CASE "closed" \notin poll[p]
    <3>1. \E k \in Tasks : \E i \in 1..Len(task'[k]) :
              Carries(task'[k][i].msg, p) /\ task'[k][i].all
      BY <1>0, <1>1, <2>3, ClosedStep
    <3> QED
      BY <2>1, <3>1 DEF InTask, Reaches
  <2> QED
    BY <2>2, <2>3
<1> QED
  BY <1>1, PresentStep DEF ResultsComing

\* What a client shows and what is about to reach it, of every poll.
DoomInv == IInv /\ ReleasedOpens /\ WindowsReleased /\ ResultsComing

LEMMA DoomInit == TraceInit => DoomInv
<1> SUFFICES ASSUME TraceInit PROVE DoomInv
  OBVIOUS
<1>1. IInv
  BY InitInv DEF TraceInit
<1>2. ReleasedOpens /\ WindowsReleased /\ ResultsComing
  BY DEF TraceInit, Init, ReleasedOpens, WindowsReleased, ResultsComing, Told
<1> QED
  BY <1>1, <1>2 DEF DoomInv

LEMMA DoomStep == ASSUME DoomInv, [TraceNext]_mcvars PROVE DoomInv'
<1>1. [Next]_vars /\ TypeOK /\ UnderWayTrue
  BY TraceStep DEF DoomInv, IInv
<1> QED
  BY <1>1, InvStep, ReleasedStep, WindowsStep, ComingStep DEF DoomInv

\* A window that is shown as open when it is not was released, hence closed.
LEMMA DoomSafe == DoomInv => OpenDoomed
<1> SUFFICES ASSUME DoomInv, NEW c \in Clients, NEW p \in Polls,
                    Status(c, p) = "Open", "open" \notin poll[p], p \notin missed[c]
             PROVE  \/ \E i \in 1..Len(inbox[c]) :
                          inbox[c][i].type = "RESULTS_PUBLISHED" /\ inbox[c][i].poll = p
                    \/ \E k \in DOMAIN task : \E i \in 1..Len(task[k]) :
                          /\ task[k][i].msg.type = "RESULTS_PUBLISHED" /\ task[k][i].msg.poll = p
                          /\ c \in Recipients(task[k][i])
  BY DEF OpenDoomed
<1>1. ~Shown(c, p) /\ p \in windows[c]
  BY DEF Status, Shown
<1>2. "closed" \in poll[p]
  BY <1>1 DEF DoomInv, WindowsReleased, ReleasedOpens
<1>3. InInbox(c, p) \/ InTask(c, p)
  BY <1>1, <1>2 DEF DoomInv, ResultsComing
<1>4. DOMAIN task = Tasks
  BY DEF DoomInv, IInv, TypeOK, Tasks
<1> QED
  BY <1>3, <1>4 DEF InInbox, InTask, Carries, Reaches, Recipients

\* OpenDoomed: whatever broadcasts overlap, a window that a client shows as
\* open when _close_window_and_publish has closed it is about to be corrected,
\* if the client was connected all the time since the release.
THEOREM OpenAlwaysDoomed == TraceSpec => []OpenDoomed
  BY DoomInit, DoomStep, DoomSafe, PTL DEF TraceSpec

(***************************************************************************)
(* What a vote says: whatever a view holds, and hence every ballot and     *)
(* every vote on record, was picked in the view of that poll, or is the    *)
(* first option.                                                           *)
(***************************************************************************)
Usual == {FirstOption, NoOption}

ChoicesPicked ==
    \A c \in Clients, p \in Polls : screen[c] = p => choice[c] \in picked[c][p] \cup Usual

BallotsPicked ==
    \A c \in Clients, p \in Polls : ballot[c][p] \subseteq picked[c][p] \cup Usual

\* What was picked is remembered.
LEMMA PickedGrows ==
    ASSUME [TraceNext]_mcvars, NEW c \in Clients, NEW p \in Polls
    PROVE  /\ picked[c][p] \subseteq picked'[c][p]
           /\ \A o \in Options : screen[c] = p /\ Choose(c, o) => o \in picked'[c][p]
                                                                  \/ UNCHANGED mcvars
  BY DEF TraceNext, Remembered, mcvars

\* A view holds what it held, or what its user picks, or it is drawn anew.
LEMMA ViewStep ==
    ASSUME TypeOK, [Next]_vars, NEW c \in Clients
    PROVE  \/ screen'[c] = screen[c] /\ choice'[c] \in {choice[c]} \cup Usual
           \/ choice'[c] \in Usual
           \/ \E o \in Options : Choose(c, o) /\ screen'[c] = screen[c] /\ choice'[c] = o
<1>1. CASE AdminStep \/ ServerStep \/ ConnectionStep \/ UNCHANGED vars
  BY <1>1
  DEF AdminStep, CreatePoll, ReleasePoll, ClosePoll, ServerStep, LoopClose, Step, ListPolls,
      RecordVote, ConnectionStep, GoOffline, ComeBack, gui, vars
<1>2. ASSUME NEW d \in Clients, Refresh(d), UNCHANGED screen
      PROVE  screen'[c] = screen[c] /\ choice'[c] \in {choice[c]} \cup Usual
  BY <1>2 DEF Refresh, Usual, TypeOK
<1>3. CASE ControllerStep
  BY <1>2, <1>3
  DEF ControllerStep, Handle, HandleList, HandleOpened, HandleClosed, HandleResults, Handled,
      HandleOther
<1>4. ASSUME NEW d \in Clients, ShowDashboard(d) \/ \E p \in Polls : ShowPoll(d, p)
      PROVE  \/ screen'[c] = screen[c] /\ choice'[c] = choice[c]
             \/ choice'[c] \in Usual
  BY <1>4 DEF ShowPoll, ShowDashboard, Usual, TypeOK
<1>5. ASSUME NEW d \in Clients, NEW o \in Options, Choose(d, o)
      PROVE  \/ screen'[c] = screen[c] /\ choice'[c] = choice[c]
             \/ Choose(c, o) /\ screen'[c] = screen[c] /\ choice'[c] = o
  BY <1>5 DEF Choose, TypeOK
<1>6. ASSUME NEW d \in Clients, CastVote(d)
      PROVE  screen'[c] = screen[c] /\ choice'[c] \in {choice[c]} \cup Usual
  BY <1>2, <1>6 DEF CastVote
<1> QED
  BY <1>1, <1>3, <1>4, <1>5, <1>6 DEF Next, UserStep

LEMMA ChoiceStep == ASSUME TypeOK, ChoicesPicked, [TraceNext]_mcvars PROVE ChoicesPicked'
<1> SUFFICES ASSUME NEW c \in Clients, NEW p \in Polls, screen'[c] = p
             PROVE  choice'[c] \in picked'[c][p] \cup Usual
  BY DEF ChoicesPicked, Usual
<1>1. CASE UNCHANGED mcvars
  BY <1>1 DEF mcvars, vars, gui, ChoicesPicked
<1>2. CASE screen'[c] = screen[c] /\ choice'[c] \in {choice[c]} \cup Usual
  BY <1>2, PickedGrows DEF ChoicesPicked
<1>3. ASSUME NEW o \in Options, Choose(c, o), screen'[c] = screen[c], choice'[c] = o
      PROVE  choice'[c] \in picked'[c][p] \cup Usual
  BY <1>1, <1>3, PickedGrows
<1> QED
  BY <1>2, <1>3, TraceStep, ViewStep

\* A ballot is what the view of its poll holds.
LEMMA BallotStep ==
    ASSUME TypeOK, ChoicesPicked, BallotsPicked, [TraceNext]_mcvars
    PROVE  BallotsPicked'
<1> SUFFICES ASSUME NEW c \in Clients, NEW p \in Polls
             PROVE  ballot'[c][p] \subseteq picked'[c][p] \cup Usual
  BY DEF BallotsPicked, Usual
<1>1. CASE ballot' = ballot
  BY <1>1, PickedGrows DEF BallotsPicked
<1>2. ASSUME NEW d \in Clients, CastVote(d)
      PROVE  \/ ballot'[c][p] = ballot[c][p]
             \/ screen[c] = p /\ ballot'[c][p] = ballot[c][p] \cup {choice[c]}
  BY <1>2 DEF CastVote, TypeOK
<1>3. CASE \E d \in Clients : CastVote(d)
  BY <1>2, <1>3, PickedGrows DEF BallotsPicked, ChoicesPicked
<1>4. CASE AdminStep \/ ServerStep \/ ConnectionStep
  BY <1>1, <1>4
  DEF AdminStep, CreatePoll, ReleasePoll, ClosePoll, ServerStep, LoopClose, Step, ListPolls,
      RecordVote, ConnectionStep, GoOffline, ComeBack, gui
<1>5. CASE ControllerStep \/ UserStep \/ UNCHANGED vars
  BY <1>1, <1>3, <1>5
  DEF ControllerStep, Handle, HandleList, HandleOpened, HandleClosed, HandleResults, Handled,
      HandleOther, UserStep, ShowPoll, ShowDashboard, Choose, vars, gui
<1> QED
  BY <1>4, <1>5, TraceStep DEF Next

\* A vote on record is one of the ballots.
LEMMA VoteStep ==
    ASSUME TypeOK, BallotsPicked, VotesPicked, [TraceNext]_mcvars
    PROVE  VotesPicked'
<1> SUFFICES ASSUME NEW c \in Clients, NEW p \in Polls
             PROVE  votes'[p][c] \in picked'[c][p] \cup Usual
  BY DEF VotesPicked, Usual
<1>0. votes[p][c] \in picked[c][p] \cup Usual
  BY DEF VotesPicked, Usual
<1>1. CASE votes' = votes
  BY <1>0, <1>1, PickedGrows
<1>2. ASSUME NEW d \in Clients, NEW q \in Polls, NEW o \in Options, RecordVote(d, q, o)
      PROVE  votes'[p][c] = votes[p][c] \/ votes'[p][c] \in ballot[c][p]
  BY <1>2 DEF RecordVote, TypeOK
<1>3. CASE \E d \in Clients, q \in Polls, o \in Options : RecordVote(d, q, o)
  BY <1>0, <1>2, <1>3, PickedGrows DEF BallotsPicked
<1>4. CASE AdminStep \/ ServerStep \/ ConnectionStep
  BY <1>1, <1>3, <1>4
  DEF AdminStep, CreatePoll, ReleasePoll, ClosePoll, ServerStep, LoopClose, Step, ListPolls,
      ConnectionStep, GoOffline, ComeBack, server
<1>5. CASE ControllerStep \/ UserStep \/ UNCHANGED vars
  BY <1>1, <1>5
  DEF ControllerStep, Handle, HandleList, HandleOpened, HandleClosed, HandleResults, Handled,
      HandleOther, UserStep, ShowPoll, ShowDashboard, Choose, CastVote, vars, server
<1> QED
  BY <1>4, <1>5, TraceStep DEF Next

\* VotesPicked: however often _on_vote is pressed, whatever is handled between a
\* pick and the press and whichever of the ballots handle_submit_vote gets
\* first, a vote on record is for an option that the voter picked in the view of
\* that poll, or for the first one, on which refresh sets the view.
THEOREM VotesAlwaysPicked == TraceSpec => []VotesPicked
<1> DEFINE PInv == TypeOK /\ ChoicesPicked /\ BallotsPicked /\ VotesPicked
<1>1. TraceInit => PInv
  BY InitTypes, ScreensAssumption
  DEF TraceInit, Init, ChoicesPicked, BallotsPicked, VotesPicked, Usual
<1>2. PInv /\ [TraceNext]_mcvars => PInv'
  BY TraceStep, TypeStep, ChoiceStep, BallotStep, VoteStep
<1> QED
  BY <1>1, <1>2, PTL DEF TraceSpec
=============================================================================
