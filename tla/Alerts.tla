-------------------------------- MODULE Alerts --------------------------------
(***************************************************************************)
(* Several nodes that watch the same peers and announce their outages in   *)
(* one chat (internal/worker/alerts.go), and the notices they tell each    *)
(* other of it with (the notice stream of internal/worker/sync.go,         *)
(* storeSyncedNotices in internal/api/api.go).                             *)
(*                                                                         *)
(* Time goes in periods.  A period begins with the stamp of each node's    *)
(* round of checks; the checks are written, and the alerts evaluated, some *)
(* time later in it, in either order.  A notice is therefore later than    *)
(* the checks of its period, and earlier than those of the next one.       *)
(***************************************************************************)
EXTENDS Integers, Sequences, FiniteSets

CONSTANTS Node,         \* the alerting nodes
          Rank,         \* Rank[n]: n's place among them, in the order of their ids
          Late,         \* those of them that meet the targets only later
          Target,       \* the peers they watch
          DownAfter, UpAfter, Repeat, Stagger,   \* in periods
          Backfill,     \* backfillWindow, in periods
          Delay,        \* periods a notice takes to arrive at most
          OwnRoutes,    \* whether the routes of two nodes may fail separately
          MaxTime,      \* bound: the last period
          Settled,      \* bound: the period from which routes do not change
          MaxChanges,   \* bound: changes of a route
          MaxFailures,  \* bound: failures of a message or of the write after it
          MaxLosses,    \* bound: pushes lost
          MaxStops      \* bound: times a node stops

ASSUME AlertsAssumption ==
  /\ Rank \in [Node -> 0..(Cardinality(Node) - 1)]
  /\ \A n, m \in Node : Rank[n] = Rank[m] => n = m
  /\ Late \subseteq Node
  /\ OwnRoutes \in BOOLEAN
  /\ {DownAfter, UpAfter, Repeat, Stagger, Backfill, Delay, MaxTime, Settled,
      MaxChanges, MaxFailures, MaxLosses, MaxStops} \subseteq Nat

Period == 0..MaxTime

VARIABLES now,
          link,       \* link[n][x]: whether n's checks of x succeed
          edge,       \* edge[n][x]: what EdgeStreak says of the route from n to x
          due,        \* due[n]: the targets n has still to consider in this period
          checked,    \* the nodes whose checks of this period are written
          sending,    \* sending[n]: the message n is at, if any
          notices,    \* notices[n]: AlertNotices of n
          mark,       \* mark[n]: lastNotice
          mail,       \* the notices of pushes in flight
          up,         \* the nodes that run
          met,        \* the nodes that know the targets
          chat,       \* the messages, in the order they arrived
          changes, failures, losses, stops

counts == <<changes, failures, losses, stops>>
vars   == <<now, link, edge, due, checked, sending, notices, mark, mail, up, met, chat, counts>>

\* "no" is the millisecond of the timestamp: the order of all notices.
Notice == [from : Node, to : Target, no : Nat, at : Period, down : BOOLEAN]

\* "failedAt" and "failures" are not in the code: the last check that failed, and
\* how many have in a row.
Edge == [found : BOOLEAN, ok : BOOLEAN, since : Period, failedAt : Int, failures : Nat]

Unmet == [found |-> FALSE, ok |-> FALSE, since |-> 0, failedAt |-> -1, failures |-> 0]
Fine  == [Unmet EXCEPT !.found = TRUE, !.ok = TRUE]

\* A message, with the state it was decided in: when the last outage was
\* announced (-1 if none was), and the sender's own checks.
Message == [by : Node, to : Target, down : BOOLEAN, at : Period, recorded : BOOLEAN,
            announced : Int, failedAt : Int, failures : Nat]

NoMessage == [step |-> "none"]

Init == /\ now = 0
        /\ link = [n \in Node |-> [x \in Target |-> TRUE]]
        /\ edge = [n \in Node |-> [x \in Target |-> IF n \in Late THEN Unmet ELSE Fine]]
        /\ due = [n \in Node |-> {}]
        /\ checked = Node
        /\ sending = [n \in Node |-> NoMessage]
        /\ notices = [n \in Node |-> {}]
        /\ mark = [n \in Node |-> 0]
        /\ mail = {}
        /\ up = Node
        /\ met = Node \ Late
        /\ chat = <<>>
        /\ changes = 0 /\ failures = 0 /\ losses = 0 /\ stops = 0

-----------------------------------------------------------------------------
\* Time, the routes, and what the checks find.

Of(n, S) == {k \in S : k.from = n}

Tick == /\ now < MaxTime
        /\ \A n \in up : /\ n \in checked
                         /\ due[n] = {}
                         /\ sending[n] = NoMessage
                         /\ \A m \in up, k \in Of(n, notices[n]) :
                               k.at + Delay <= now => k \in notices[m]
        /\ now' = now + 1
        /\ due' = [n \in Node |-> IF n \in up THEN Target ELSE {}]
        /\ checked' = {}
        /\ UNCHANGED <<link, edge, sending, notices, mark, mail, up, met, chat, counts>>

\* A target fails or returns, for every node between two rounds of checks, or for
\* one node's route at any time.
Change(x) ==
  /\ changes < MaxChanges
  /\ now < Settled
  /\ changes' = changes + 1
  /\ IF OwnRoutes
     THEN \E n \in Node : link' = [link EXCEPT ![n][x] = ~@]
     ELSE /\ checked \cap up = {}
          /\ link' = [n \in Node |-> [link[n] EXCEPT ![x] = ~@]]
  /\ UNCHANGED <<now, edge, due, checked, sending, notices, mark, mail, up, met, chat,
                 failures, losses, stops>>

\* Faults: a run is dated from its newest check, from the oldest check there is, or
\* from after the check that began it.
NewestCheck(e, ok) == now
OldestCheck(e, ok) == e.since
AfterCheck(e, ok)  == IF e.found /\ e.ok = ok THEN e.since ELSE now + 1

\* When the run began that a check with this result belongs to.
RunBegan(e, ok) == IF e.found /\ e.ok = ok THEN e.since ELSE now

\* EdgeStreak once the check is written.
Streak(e, ok) == [found    |-> TRUE,
                  ok       |-> ok,
                  since    |-> RunBegan(e, ok),
                  failedAt |-> IF ok THEN e.failedAt ELSE now,
                  failures |-> IF ok THEN 0 ELSE e.failures + 1]

\* The checks of n's round are written, with the stamp of its start.
Check(n) ==
  /\ n \in up \ checked
  /\ checked' = checked \cup {n}
  /\ edge' = IF n \in met
             THEN [edge EXCEPT ![n] = [x \in Target |-> Streak(@[x], link[n][x])]]
             ELSE edge
  /\ UNCHANGED <<now, link, due, sending, notices, mark, mail, up, met, chat, counts>>

\* n is introduced to the targets.
Meet(n) == /\ n \in up \ met
           /\ now < Settled
           /\ met' = met \cup {n}
           /\ UNCHANGED <<now, link, edge, due, checked, sending, notices, mark, mail, up, chat,
                          counts>>

-----------------------------------------------------------------------------
\* One round of alerts.

Greatest(S) == CHOOSE i \in S : \A j \in S : j <= i

\* LatestNotice, as the set of it or nothing.
LatestNotice(n, x) ==
  {k \in notices[n] : k.to = x /\ \A l \in notices[n] : l.to = x => l.no <= k.no}

\* A fault: the window is the stagger's alone.
DecideWithoutWindow(e, last, delay) ==
  IF ~e.ok
  THEN /\ now - e.since >= DownAfter + delay
       /\ \A k \in last : k.down => LET quiet == IF e.since > k.at THEN e.since ELSE k.at
                                    IN  now - quiet >= 1 + delay
  ELSE /\ last # {}
       /\ \A k \in last : k.down /\ e.since > k.at
       /\ now - e.since >= UpAfter + delay

\* A fault: every node takes its turn at once.
NoDelay(n) == 0

RankDelay(n) == Rank[n] * Stagger

\* A fault: a recovery is announced whoever saw the failure.
DecideAnyRecovery(e, last, delay) ==
  IF ~e.ok
  THEN now - e.since >= DownAfter + delay /\
       (last = {} \/ \E k \in last : k.down => now - k.at >= Repeat + delay)
  ELSE \E k \in last : k.down /\ now - e.since >= UpAfter + delay

\* Whether to send, given the route and the latest notice.  A repeat is due a
\* window after the report or the start of the run, whichever is later.
Decide(e, last, delay) ==
  IF ~e.ok
  THEN /\ now - e.since >= DownAfter + delay
       /\ \A k \in last : k.down => LET quiet == IF e.since > k.at THEN e.since ELSE k.at
                                    IN  now - quiet >= Repeat + delay
  ELSE /\ last # {}
       /\ \A k \in last : k.down /\ e.since > k.at
       /\ now - e.since >= UpAfter + delay

\* consider reads the route and the latest notice, and decides.
Consider(n, x) ==
  /\ n \in up
  /\ x \in due[n]
  /\ sending[n] = NoMessage
  /\ due' = [due EXCEPT ![n] = @ \ {x}]
  /\ LET e    == edge[n][x]
         last == LatestNotice(n, x)
     IN  sending' = IF ~e.found \/ ~Decide(e, last, RankDelay(n))
                    THEN sending
                    ELSE [sending EXCEPT ![n] =
                            [step |-> "send",
                             message |-> [by |-> n, to |-> x, down |-> ~e.ok, at |-> now,
                                          recorded |-> FALSE,
                                          announced |-> Greatest({-1} \cup {k.at : k \in last}),
                                          failedAt |-> e.failedAt, failures |-> e.failures]]]
  /\ UNCHANGED <<now, link, edge, checked, notices, mark, mail, up, met, chat, counts>>

\* Telegram has the message.
Send(n) == /\ n \in up
           /\ sending[n].step = "send"
           /\ chat' = Append(chat, sending[n].message)
           /\ sending' = [sending EXCEPT ![n] = [step |-> "record", index |-> Len(chat) + 1]]
           /\ UNCHANGED <<now, link, edge, due, checked, notices, mark, mail, up, met, counts>>

Announced == UNION {Of(n, notices[n]) : n \in Node}

\* InsertNotices, with the time it is called at.
Record(n) ==
  /\ n \in up
  /\ sending[n].step = "record"
  /\ LET i == sending[n].index
     IN  /\ notices' = [notices EXCEPT ![n] = @ \cup
                          {[from |-> n, to |-> chat[i].to, at |-> now, down |-> chat[i].down,
                            no |-> Cardinality(Announced) + 1]}]
         /\ chat' = [chat EXCEPT ![i].recorded = TRUE]
  /\ sending' = [sending EXCEPT ![n] = NoMessage]
  /\ UNCHANGED <<now, link, edge, due, checked, mark, mail, up, met, counts>>

\* The message, or the write after it, fails: the next period tries again.
Fail(n) == /\ n \in up
           /\ sending[n] # NoMessage
           /\ failures < MaxFailures
           /\ failures' = failures + 1
           /\ sending' = [sending EXCEPT ![n] = NoMessage]
           /\ UNCHANGED <<now, link, edge, due, checked, notices, mark, mail, up, met, chat,
                          changes, losses, stops>>

-----------------------------------------------------------------------------
\* The notice stream.

\* OwnNoticesSince: from the mark onwards, the one at the mark included.
OwnNoticesSince(n) == {k \in Of(n, notices[n]) : k.no >= mark[n]}

\* A round pushes to every other node, and its mark moves to the newest notice.
Push(n) ==
  /\ n \in up
  /\ OwnNoticesSince(n) # {}
  /\ mail' = mail \cup {[to |-> m, notices |-> OwnNoticesSince(n)] : m \in Node \ {n}}
  /\ mark' = [mark EXCEPT ![n] = Greatest({k.no : k \in OwnNoticesSince(n)})]
  /\ UNCHANGED <<now, link, edge, due, checked, sending, notices, up, met, chat, counts>>

\* MaxNoticeTimestamp of m about n, as a set.
MaxNotice(n, m) == {k.no : k \in Of(n, notices[m])}

\* storeSyncedNotices.
Receive(p) ==
  /\ p \in mail
  /\ p.to \in up
  /\ notices' = [notices EXCEPT ![p.to] = @ \cup
                   {k \in p.notices : \A i \in MaxNotice(k.from, p.to) : k.no > i}]
  /\ mail' = mail \ {p}
  /\ UNCHANGED <<now, link, edge, due, checked, sending, mark, up, met, chat, counts>>

\* The push fails: its node is down, or it is lost on the way.
Lose(p) == /\ p \in mail
           /\ p.to \in up => losses < MaxLosses
           /\ losses' = IF p.to \in up THEN losses + 1 ELSE losses
           /\ mail' = mail \ {p}
           /\ UNCHANGED <<now, link, edge, due, checked, sending, notices, mark, up, met, chat,
                          changes, failures, stops>>

-----------------------------------------------------------------------------
\* A node stops, and starts: its alerts are evaluated at once, its notices are
\* offered again from a backfill window ago.

Stop(n) == /\ n \in up
           /\ up # {n} \/ Cardinality(Node) = 1
           /\ stops < MaxStops
           /\ stops' = stops + 1
           /\ up' = up \ {n}
           /\ sending' = [sending EXCEPT ![n] = NoMessage]
           /\ due' = [due EXCEPT ![n] = {}]
           /\ UNCHANGED <<now, link, edge, checked, notices, mark, mail, met, chat,
                          changes, failures, losses>>

Recent(n) == {k \in Of(n, notices[n]) : k.at >= now - Backfill}

Start(n) == /\ n \notin up
            /\ up' = up \cup {n}
            /\ due' = [due EXCEPT ![n] = Target]
            /\ mark' = [mark EXCEPT ![n] =
                          Greatest({0} \cup {k.no : k \in Of(n, notices[n]) \ Recent(n)}) + 1]
            /\ UNCHANGED <<now, link, edge, checked, sending, notices, mail, met, chat, counts>>

Next == \/ Tick
        \/ \E x \in Target : Change(x)
        \/ \E n \in Node : \/ Check(n) \/ Meet(n)
                           \/ \E x \in Target : Consider(n, x)
                           \/ Send(n) \/ Record(n) \/ Fail(n)
                           \/ Push(n)
                           \/ Stop(n) \/ Start(n)
        \/ \E p \in mail : Receive(p) \/ Lose(p)

Spec == Init /\ [][Next]_vars

\* The tickers of a node that runs keep coming round, and what is sent arrives
\* unless it fails.  Nobody has to start a node.
Fairness == /\ WF_vars(Tick)
            /\ \A n \in Node : /\ WF_vars(Check(n))
                               /\ \A x \in Target : WF_vars(Consider(n, x))
                               /\ WF_vars(Send(n)) /\ WF_vars(Record(n))
                               /\ WF_vars(Push(n))
            /\ \A m \in Node : WF_vars(\E p \in mail : p.to = m /\ Receive(p))

FairSpec == Spec /\ Fairness

-----------------------------------------------------------------------------
TypeOK == /\ now \in Period
          /\ link \in [Node -> [Target -> BOOLEAN]]
          /\ edge \in [Node -> [Target -> Edge]]
          /\ due \in [Node -> SUBSET Target]
          /\ checked \subseteq Node
          /\ \A n \in Node :
               \/ sending[n] = NoMessage
               \/ sending[n].step = "send" /\ sending[n].message \in Message
               \/ sending[n].step = "record" /\ sending[n].index \in 1..Len(chat)
          /\ \A n \in Node : notices[n] \subseteq Notice
          /\ mark \in [Node -> Nat]
          /\ \A p \in mail : p.to \in Node /\ p.notices \subseteq Notice
          /\ up \subseteq Node
          /\ met \subseteq Node
          /\ chat \in Seq(Message)
          /\ changes \in 0..MaxChanges
          /\ failures \in 0..MaxFailures
          /\ losses \in 0..MaxLosses
          /\ stops \in 0..MaxStops

\* The messages about x, by their places in the chat.
About(x) == {i \in 1..Len(chat) : chat[i].to = x}

Between(i, j, x) == {h \in About(x) : i < h /\ h < j}

\* "Several alerting nodes do not produce several messages", "no round of alerts
\* ever comes due on two nodes at once" (README.md): an outage that one node has
\* announced, and recorded, is not announced again by another within the repeat
\* window, unless its end was announced in between.
OneVoice ==
  \A x \in Target : \A i, j \in About(x) :
    (i < j /\ chat[i].down /\ chat[j].down /\ chat[i].recorded
           /\ chat[j].at - chat[i].at < Repeat)
       => \E h \in Between(i, j, x) : ~chat[h].down

\* Whatever is lost, restarted or seen from different routes, and whatever others
\* say, a node does not repeat its own report within the window, unless somebody
\* announced the end meanwhile.
NobodyEchoes ==
  \A x \in Target : \A i, j \in About(x) :
    (i < j /\ chat[i].down /\ chat[j].down /\ chat[i].by = chat[j].by /\ chat[i].recorded
           /\ chat[j].at - chat[i].at < Repeat)
       => \E h \in About(x) : h < j /\ ~chat[h].down /\ chat[h].at >= chat[i].at

\* A recovery is announced once, and only after the outage was.
RecoveryAnswersReport ==
  \A x \in Target : \A j \in About(x) : ~chat[j].down =>
    \E i \in About(x) : /\ i < j
                        /\ chat[i].down
                        /\ \A h \in Between(i, j, x) : chat[h].recorded => chat[h].down

\* "A blip shorter than DownAfterSeconds is not reported at all" (README.md): the
\* node that reports an outage has found the peer down at every check of that time.
BlipsAreQuiet == \A i \in 1..Len(chat) : chat[i].down => chat[i].failures >= DownAfter

\* Recovery is "only this node's business if this node saw the failure" (decide):
\* a check of its own failed since the report it answers, or in its period.
RecoveryIsOwn == \A i \in 1..Len(chat) : ~chat[i].down => chat[i].failedAt >= chat[i].announced

\* An outage that lasts is announced in the end, and stays the last word, though
\* the node whose turn it was has stopped or its message fails.
OutagesAreReported ==
  \A x \in Target :
    <>[](met = Node /\ \A n \in Node : ~link[n][x]) =>
      <>[](\E i \in About(x) : chat[i].down /\ Between(i, Len(chat) + 1, x) = {})

\* "An outage is reported once, ... and once more when it ends" (README.md).
OutagesAreClosed ==
  \A x \in Target :
    <>[](\A n \in Node : link[n][x]) =>
      <>[](\A i \in About(x) : chat[i].down => Between(i, Len(chat) + 1, x) # {})

\* The streams "are a window that the next round re-offers anyway" (round): what a
\* node has announced reaches the others, though a push is lost.
NoticesArrive ==
  \A n, m \in Node : <>[](Of(n, notices[n]) \subseteq notices[m])
=============================================================================
