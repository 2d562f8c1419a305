----------------------------- MODULE Alerts_proofs -----------------------------
(***************************************************************************)
(* Proofs about Alerts, for every set of nodes and of targets, every       *)
(* window, and routes, losses, failures and stops without number.          *)
(***************************************************************************)
EXTENDS Alerts, FiniteSetTheorems, WellFoundedInduction, TLAPS

LEMMA Constants == /\ DownAfter \in Nat /\ UpAfter \in Nat /\ Repeat \in Nat /\ Stagger \in Nat
                   /\ Backfill \in Nat /\ Delay \in Nat /\ MaxTime \in Nat /\ Settled \in Nat
                   /\ MaxChanges \in Nat /\ MaxFailures \in Nat /\ MaxLosses \in Nat
                   /\ MaxStops \in Nat /\ Late \subseteq Node /\ OwnRoutes \in BOOLEAN
  BY AlertsAssumption

-----------------------------------------------------------------------------
\* The operators.

\* A set of integers with an upper bound has a greatest one.
LEMMA HasGreatest ==
  ASSUME NEW S \in SUBSET Int, S # {}, NEW N \in Int, \A s \in S : s <= N
  PROVE  Greatest(S) \in S /\ \A s \in S : s <= Greatest(S)
<1> DEFINE below == {N - s : s \in S}
<1>1. below \subseteq Nat /\ below # {}
  <2>1. \A s \in S : N - s \in Nat
    OBVIOUS
  <2> QED
    BY <2>1
<1>2. PICK b \in below : \A c \in below : ~(<<c, b>> \in OpToRel(<, Nat))
  <2>1. IsWellFoundedOn(OpToRel(<, Nat), Nat)
    BY NatLessThanWellFounded
  <2> HIDE DEF below
  <2> QED
    BY <1>1, <2>1, WFMin, Zenon
<1>3. \A c \in below : ~(c < b)
  <2> HIDE DEF below
  <2> QED
    BY <1>1, <1>2 DEF OpToRel
<1>4. PICK g \in S : b = N - g
  BY <1>2
<1>5. \A s \in S : s <= g
  <2> SUFFICES ASSUME NEW s \in S
               PROVE  s <= g
    OBVIOUS
  <2>1. ~(N - s < N - g)
    BY <1>3, <1>4
  <2> QED
    BY <2>1
<1> QED
  BY <1>5 DEF Greatest

\* The delay a node's rank gives it.
LEMMA RankDelayIs == \A n \in Node : RankDelay(n) \in Nat
<1> SUFFICES ASSUME NEW n \in Node
             PROVE  RankDelay(n) \in Nat
  OBVIOUS
<1>1. Rank[n] \in 0..(Cardinality(Node) - 1)
  BY AlertsAssumption
<1>2. Rank[n] \in Nat
  BY <1>1
<1> QED
  BY <1>2, Constants DEF RankDelay

\* A check leaves a run that began no later than it.
LEMMA StreakType ==
  ASSUME NEW e \in Edge, NEW ok \in BOOLEAN, now \in Period
  PROVE  Streak(e, ok) \in Edge
<1>1. e.found \in BOOLEAN /\ e.ok \in BOOLEAN /\ e.since \in Period /\ e.failedAt \in Int
      /\ e.failures \in Nat
  BY DEF Edge
<1>2. RunBegan(e, ok) \in Period
  BY <1>1 DEF RunBegan
<1>3. (IF ok THEN e.failedAt ELSE now) \in Int
  BY <1>1, Constants DEF Period
<1>4. (IF ok THEN 0 ELSE e.failures + 1) \in Nat
  BY <1>1
<1>5. TRUE \in BOOLEAN
  OBVIOUS
<1> QED
  BY <1>2, <1>3, <1>4, <1>5 DEF Streak, Edge

-----------------------------------------------------------------------------
\* Types, and the order of the notices.

Sent == {NoMessage} \cup [step : {"send"}, message : Message] \cup [step : {"record"}, index : Nat]

\* TypeOK, with the shape of the variables it leaves open.
Typed == /\ now \in Period
         /\ link \in [Node -> [Target -> BOOLEAN]]
         /\ edge \in [Node -> [Target -> Edge]]
         /\ due \in [Node -> SUBSET Target]
         /\ checked \subseteq Node
         /\ sending \in [Node -> Sent]
         /\ \A n \in Node : sending[n].step = "record" => sending[n].index \in 1..Len(chat)
         /\ notices \in [Node -> SUBSET Notice]
         /\ mark \in [Node -> Nat]
         /\ mail \subseteq [to : Node, notices : SUBSET Notice]
         /\ up \subseteq Node
         /\ met \subseteq Node
         /\ chat \in Seq(Message)
         /\ changes \in 0..MaxChanges
         /\ failures \in 0..MaxFailures
         /\ losses \in 0..MaxLosses
         /\ stops \in 0..MaxStops

LEMMA TypedIsTypeOK == Typed => TypeOK
<1> SUFFICES ASSUME Typed
             PROVE  TypeOK
  OBVIOUS
<1>1. ASSUME NEW n \in Node
      PROVE  \/ sending[n] = NoMessage
             \/ sending[n].step = "send" /\ sending[n].message \in Message
             \/ sending[n].step = "record" /\ sending[n].index \in 1..Len(chat)
  <2>1. sending[n] \in Sent
    BY DEF Typed
  <2>2. CASE sending[n] \in [step : {"send"}, message : Message]
    BY <2>2
  <2>3. CASE sending[n] \in [step : {"record"}, index : Nat]
    BY <2>3 DEF Typed
  <2> QED
    BY <2>1, <2>2, <2>3 DEF Sent
<1>2. \A p \in mail : p.to \in Node /\ p.notices \subseteq Notice
  BY DEF Typed
<1>3. \A n \in Node : notices[n] \subseteq Notice
  BY DEF Typed
<1> QED
  BY <1>1, <1>2, <1>3 DEF Typed, TypeOK

\* What anybody knows its author knows, and the numbers of the notices are in the order
\* they were recorded in.
Ordered ==
  /\ IsFiniteSet(Announced)
  /\ \A n \in Node : notices[n] \subseteq Announced
  /\ \A p \in mail : p.notices \subseteq Announced
  /\ \A k \in Announced : k.no <= Cardinality(Announced) /\ k.at <= now
  /\ \A k, l \in Announced : k.no <= l.no => k.at <= l.at

LEMMA AnnouncedIs ==
  /\ \A k \in Announced : k.from \in Node /\ k \in notices[k.from]
  /\ \A n \in Node : Of(n, notices[n]) \subseteq Announced
  BY DEF Announced, Of

LEMMA AnnouncedType ==
  ASSUME Typed, Ordered
  PROVE  /\ Cardinality(Announced) \in Nat
         /\ \A k \in Announced : k \in Notice /\ k.no \in Nat /\ k.at \in Nat /\ k.at <= MaxTime
<1>1. Cardinality(Announced) \in Nat
  BY FS_CardinalityType DEF Ordered
<1>2. ASSUME NEW k \in Announced
      PROVE  k \in Notice
  BY AnnouncedIs DEF Typed
<1> QED
  BY <1>1, <1>2, Constants DEF Notice, Period

LEMMA TypedInit == Init => Typed /\ Ordered
<1> SUFFICES ASSUME Init
             PROVE  Typed /\ Ordered
  OBVIOUS
<1>1. Fine \in Edge /\ Unmet \in Edge
  <2>1. TRUE \in BOOLEAN /\ FALSE \in BOOLEAN
    OBVIOUS
  <2>2. 0 \in Period
    BY Constants DEF Period
  <2>3. Unmet \in Edge
    BY <2>1, <2>2 DEF Unmet, Edge
  <2>4. Fine \in Edge
    <3>1. Fine = [Unmet EXCEPT !.found = TRUE, !.ok = TRUE]
      BY DEF Fine
    <3> QED
      BY <2>1, <2>3, <3>1 DEF Edge
  <2> QED
    BY <2>3, <2>4
<1>2. edge \in [Node -> [Target -> Edge]]
  BY <1>1 DEF Init
<1>3. sending \in [Node -> Sent] /\ \A n \in Node : sending[n].step = "none"
  BY DEF Init, Sent, NoMessage
<1>4. Announced = {}
  BY DEF Init, Announced, Of
<1>5. Ordered
  BY <1>4, FS_EmptySet DEF Init, Ordered
<1>6. link \in [Node -> [Target -> BOOLEAN]]
  BY DEF Init
<1>7. /\ due \in [Node -> SUBSET Target] /\ notices \in [Node -> SUBSET Notice]
      /\ mark \in [Node -> Nat] /\ checked \subseteq Node /\ up \subseteq Node
      /\ met \subseteq Node /\ mail = {}
  BY DEF Init
<1>8. now \in Period /\ chat \in Seq(Message)
  BY Constants DEF Init, Period
<1>9. /\ changes \in 0..MaxChanges /\ failures \in 0..MaxFailures /\ losses \in 0..MaxLosses
      /\ stops \in 0..MaxStops
  BY Constants DEF Init
<1> QED
  BY <1>2, <1>3, <1>5, <1>6, <1>7, <1>8, <1>9 DEF Typed

\* What LatestNotice finds, where there is a notice at all: one that no other about the
\* target is later than.
LEMMA LatestIs ==
  ASSUME Typed, Ordered, NEW n \in Node, NEW x \in Target,
         NEW k \in notices[n], k.to = x
  PROVE  \E l \in LatestNotice(n, x) : l.at >= k.at
<1> DEFINE S == {l.no : l \in {m \in notices[n] : m.to = x}}
<1>1. \A l \in notices[n] : l \in Announced /\ l.no \in Nat /\ l.no <= Cardinality(Announced)
  BY AnnouncedType DEF Ordered
<1>2. S \in SUBSET Int /\ S # {} /\ Cardinality(Announced) \in Int
      /\ \A s \in S : s <= Cardinality(Announced)
  BY <1>1, AnnouncedType
<1>3. Greatest(S) \in S /\ \A s \in S : s <= Greatest(S)
  BY <1>2, HasGreatest
<1>4. PICK l \in notices[n] : l.to = x /\ l.no = Greatest(S)
  BY <1>3
<1>5. \A m \in notices[n] : m.to = x => m.no <= l.no
  BY <1>3, <1>4
<1>6. l \in LatestNotice(n, x)
  BY <1>4, <1>5 DEF LatestNotice
<1>7. k.at <= l.at
  BY <1>1, <1>4, <1>5 DEF Ordered
<1> QED
  BY <1>1, <1>6, <1>7, AnnouncedType

\* The greatest number a mark is taken from.
LEMMA GreatestNo ==
  ASSUME Typed, Ordered, NEW S \in SUBSET Announced, NEW Z \in SUBSET {0},
         S # {} \/ Z # {}
  PROVE  Greatest(Z \cup {k.no : k \in S}) \in Nat
<1> DEFINE T == Z \cup {k.no : k \in S}
<1>1. T \in SUBSET Nat /\ T # {} /\ \A s \in T : s <= Cardinality(Announced)
  <2>1. \A k \in S : k.no \in Nat /\ k.no <= Cardinality(Announced)
    BY AnnouncedType DEF Ordered
  <2>2. Cardinality(Announced) \in Nat
    BY AnnouncedType
  <2>3. T # {}
    OBVIOUS
  <2>4. ASSUME NEW s \in T
        PROVE  s \in Nat /\ s <= Cardinality(Announced)
    <3>1. s = 0 \/ \E k \in S : s = k.no
      OBVIOUS
    <3> QED
      BY <2>1, <2>2, <3>1
  <2> QED
    BY <2>3, <2>4
<1>2. T \in SUBSET Int /\ Cardinality(Announced) \in Int
  BY <1>1, AnnouncedType
<1> HIDE DEF T
<1>3. Greatest(T) \in T
  BY <1>1, <1>2, HasGreatest
<1>4. Greatest(T) \in Nat
  BY <1>1, <1>3
<1> QED
  BY <1>4 DEF T

\* When the last report was, for the message that answers it.
LEMMA GreatestAt ==
  ASSUME Typed, Ordered, NEW S \in SUBSET Announced
  PROVE  /\ Greatest({-1} \cup {k.at : k \in S}) \in Int
         /\ \/ Greatest({-1} \cup {k.at : k \in S}) = -1
            \/ \E l \in S : Greatest({-1} \cup {k.at : k \in S}) = l.at
<1> DEFINE T == {-1} \cup {k.at : k \in S}
<1>1. T \in SUBSET Int /\ T # {} /\ \A s \in T : s <= MaxTime
  BY AnnouncedType, Constants
<1>2. MaxTime \in Int
  BY Constants
<1>3. Greatest(T) \in T
  <2> HIDE DEF T
  <2> QED
    BY <1>1, <1>2, HasGreatest
<1>4. Greatest(T) = -1 \/ \E k \in S : Greatest(T) = k.at
  BY <1>3
<1>5. Greatest(T) \in Int
  BY <1>1, <1>3
<1> QED
  BY <1>4, <1>5

\* Most steps record nothing, and tell nobody anything new.
LEMMA OrderedStays ==
  ASSUME Typed, Ordered, UNCHANGED notices, now' \in Nat, now' >= now,
         \A p \in mail' : p.notices \subseteq Announced
  PROVE  Ordered'
<1>1. Announced' = Announced
  BY DEF Announced, Of
<1>2. now \in Nat
  BY Constants DEF Typed, Period
<1>3. \A k \in Announced : k.at <= now'
  BY <1>2, AnnouncedType DEF Ordered
<1> QED
  BY <1>1, <1>3 DEF Ordered

LEMMA TickTyped == ASSUME Typed, Ordered, Tick PROVE Typed' /\ Ordered'
<1>1. now' \in Period /\ now' \in Nat /\ now' >= now
  BY Constants DEF Tick, Typed, Period
<1>2. due' \in [Node -> SUBSET Target]
  BY DEF Tick
<1>3. checked' \subseteq Node
  BY DEF Tick
<1>4. Ordered'
  BY <1>1, OrderedStays DEF Tick, Ordered
<1> QED
  BY <1>1, <1>2, <1>3, <1>4 DEF Tick, Typed, counts

LEMMA ChangeTyped == ASSUME Typed, Ordered, NEW x \in Target, Change(x) PROVE Typed' /\ Ordered'
<1>1. link' \in [Node -> [Target -> BOOLEAN]]
  <2>1. CASE OwnRoutes
    <3>1. PICK n \in Node : link' = [link EXCEPT ![n][x] = ~@]
      BY <2>1 DEF Change
    <3>2. (~link[n][x]) \in BOOLEAN
      OBVIOUS
    <3> QED
      BY <3>1, <3>2 DEF Typed
  <2>2. CASE ~OwnRoutes
    <3>1. link' = [n \in Node |-> [link[n] EXCEPT ![x] = ~@]]
      BY <2>2 DEF Change
    <3>2. \A n \in Node : (~link[n][x]) \in BOOLEAN
      OBVIOUS
    <3> QED
      BY <3>1, <3>2 DEF Typed
  <2> QED
    BY <2>1, <2>2
<1>2. changes' \in 0..MaxChanges
  BY Constants DEF Change, Typed
<1>3. Ordered'
  BY OrderedStays, Constants DEF Change, Ordered, Typed, Period
<1> QED
  BY <1>1, <1>2, <1>3 DEF Change, Typed

LEMMA CheckTyped == ASSUME Typed, Ordered, NEW n \in Node, Check(n) PROVE Typed' /\ Ordered'
<1>1. edge' \in [Node -> [Target -> Edge]]
  <2>1. \A x \in Target : edge[n][x] \in Edge /\ link[n][x] \in BOOLEAN
    BY DEF Typed
  <2>2. [x \in Target |-> Streak(edge[n][x], link[n][x])] \in [Target -> Edge]
    BY <2>1, StreakType DEF Typed
  <2>3. \/ edge' = [edge EXCEPT ![n] = [x \in Target |-> Streak(edge[n][x], link[n][x])]]
        \/ edge' = edge
    BY DEF Check
  <2> QED
    BY <2>2, <2>3 DEF Typed
<1>2. checked' \subseteq Node
  BY DEF Check, Typed
<1>3. Ordered'
  BY OrderedStays, Constants DEF Check, Ordered, Typed, Period
<1> QED
  BY <1>1, <1>2, <1>3 DEF Check, Typed, counts

LEMMA MeetTyped == ASSUME Typed, Ordered, NEW n \in Node, Meet(n) PROVE Typed' /\ Ordered'
<1>1. met' \subseteq Node
  BY DEF Meet, Typed
<1>2. Ordered'
  BY OrderedStays, Constants DEF Meet, Ordered, Typed, Period
<1> QED
  BY <1>1, <1>2 DEF Meet, Typed, counts

\* The message a node goes on to send, if it sends one.
MessageOf(n, x) ==
  [by |-> n, to |-> x, down |-> ~edge[n][x].ok, at |-> now, recorded |-> FALSE,
   announced |-> Greatest({-1} \cup {k.at : k \in LatestNotice(n, x)}),
   failedAt |-> edge[n][x].failedAt, failures |-> edge[n][x].failures]

LEMMA MessageType ==
  ASSUME Typed, Ordered, NEW n \in Node, NEW x \in Target
  PROVE  MessageOf(n, x) \in Message
<1>1. edge[n][x] \in Edge
  BY DEF Typed
<1>2. (~edge[n][x].ok) \in BOOLEAN /\ FALSE \in BOOLEAN
  OBVIOUS
<1>3. edge[n][x].failedAt \in Int /\ edge[n][x].failures \in Nat
  BY <1>1 DEF Edge
<1>4. LatestNotice(n, x) \in SUBSET Announced
  BY DEF LatestNotice, Ordered
<1>5. Greatest({-1} \cup {k.at : k \in LatestNotice(n, x)}) \in Int
  BY <1>4, GreatestAt
<1>6. now \in Period
  BY DEF Typed
<1> QED
  BY <1>2, <1>3, <1>5, <1>6 DEF MessageOf, Message

\* Considering a target either leaves it at that, or a message to send.
LEMMA ConsiderIs ==
  ASSUME NEW n \in Node, NEW x \in Target, Consider(n, x)
  PROVE  \/ sending' = sending
         \/ /\ edge[n][x].found
            /\ Decide(edge[n][x], LatestNotice(n, x), RankDelay(n))
            /\ sending' = [sending EXCEPT ![n] = [step |-> "send", message |-> MessageOf(n, x)]]
  BY DEF Consider, MessageOf

LEMMA ConsiderTyped ==
  ASSUME Typed, Ordered, NEW n \in Node, NEW x \in Target, Consider(n, x)
  PROVE  Typed' /\ Ordered'
<1>1. due' \in [Node -> SUBSET Target]
  BY DEF Consider, Typed
<1>2. /\ sending' \in [Node -> Sent]
      /\ \A m \in Node : sending'[m].step = "record" => sending'[m].index \in 1..Len(chat)
  <2>1. CASE sending' = sending
    BY <2>1 DEF Typed
  <2>2. CASE sending' = [sending EXCEPT ![n] = [step |-> "send", message |-> MessageOf(n, x)]]
    <3>1. [step |-> "send", message |-> MessageOf(n, x)] \in Sent
      BY MessageType DEF Sent
    <3>2. sending'[n].step = "send" /\ \A m \in Node \ {n} : sending'[m] = sending[m]
      BY <2>2 DEF Typed
    <3> QED
      BY <2>2, <3>1, <3>2 DEF Typed
  <2> QED
    BY <2>1, <2>2, ConsiderIs
<1>3. Ordered'
  BY OrderedStays, Constants DEF Consider, Ordered, Typed, Period
<1>4. UNCHANGED <<now, link, edge, checked, notices, mark, mail, up, met, chat, counts>>
  BY DEF Consider
<1> QED
  BY <1>1, <1>2, <1>3, <1>4 DEF Typed, counts

LEMMA SendIs ==
  ASSUME Typed, NEW n \in Node, Send(n)
  PROVE  /\ sending[n].message \in Message
         /\ chat' \in Seq(Message)
         /\ Len(chat) \in Nat
         /\ Len(chat') = Len(chat) + 1
         /\ chat'[Len(chat) + 1] = sending[n].message
         /\ \A i \in 1..Len(chat) : chat'[i] = chat[i]
<1>1. sending[n] \in Sent /\ sending[n].step = "send"
  BY DEF Typed, Send
<1>2. sending[n].message \in Message
  BY <1>1 DEF Sent, NoMessage
<1>3. chat \in Seq(Message) /\ chat' = Append(chat, sending[n].message)
  BY DEF Typed, Send
<1> QED
  BY <1>2, <1>3

LEMMA SendTyped == ASSUME Typed, Ordered, NEW n \in Node, Send(n) PROVE Typed' /\ Ordered'
<1>1. chat' \in Seq(Message) /\ Len(chat) \in Nat /\ Len(chat') = Len(chat) + 1
  BY SendIs
<1>2. [step |-> "record", index |-> Len(chat) + 1] \in Sent
  BY <1>1 DEF Sent
<1>3. sending' = [sending EXCEPT ![n] = [step |-> "record", index |-> Len(chat) + 1]]
  BY DEF Send
<1>4. sending' \in [Node -> Sent]
  BY <1>2, <1>3 DEF Typed
<1>5. ASSUME NEW m \in Node, sending'[m].step = "record"
      PROVE  sending'[m].index \in 1..Len(chat')
  <2>1. CASE m = n
    BY <1>1, <1>3, <2>1 DEF Typed
  <2>2. CASE m # n
    <3>1. sending'[m] = sending[m]
      BY <1>3, <2>2 DEF Typed
    <3> QED
      BY <1>1, <1>5, <3>1 DEF Typed
  <2> QED
    BY <2>1, <2>2
<1>6. Ordered'
  BY OrderedStays, Constants DEF Send, Ordered, Typed, Period
<1> QED
  BY <1>1, <1>4, <1>5, <1>6 DEF Send, Typed, counts

\* The notice of a message that is recorded now.
NoticeOf(n) ==
  [from |-> n, to |-> chat[sending[n].index].to, at |-> now,
   down |-> chat[sending[n].index].down, no |-> Cardinality(Announced) + 1]

LEMMA RecordIs ==
  ASSUME Typed, Ordered, NEW n \in Node, Record(n)
  PROVE  /\ NoticeOf(n) \in Notice
         /\ notices' = [notices EXCEPT ![n] = @ \cup {NoticeOf(n)}]
         /\ Announced' = Announced \cup {NoticeOf(n)}
         /\ NoticeOf(n) \notin Announced
<1>1. sending[n].index \in 1..Len(chat)
  BY DEF Record, Typed
<1>2. chat[sending[n].index] \in Message
  BY <1>1 DEF Typed
<1>3. NoticeOf(n) \in Notice
  <2>1. Cardinality(Announced) + 1 \in Nat /\ now \in Period
    BY AnnouncedType DEF Typed
  <2>2. chat[sending[n].index].to \in Target /\ chat[sending[n].index].down \in BOOLEAN
    BY <1>2 DEF Message
  <2> QED
    BY <2>1, <2>2 DEF NoticeOf, Notice
<1>4. notices' = [notices EXCEPT ![n] = @ \cup {NoticeOf(n)}]
  BY DEF Record, NoticeOf
<1>5. notices'[n] = notices[n] \cup {NoticeOf(n)} /\ \A m \in Node \ {n} : notices'[m] = notices[m]
  BY <1>4 DEF Typed
<1>6. NoticeOf(n).from = n /\ NoticeOf(n).no = Cardinality(Announced) + 1
  BY DEF NoticeOf
<1>7. Announced' = Announced \cup {NoticeOf(n)}
  <2>1. Of(n, notices'[n]) = Of(n, notices[n]) \cup {NoticeOf(n)}
    BY <1>5, <1>6 DEF Of
  <2>2. \A m \in Node \ {n} : Of(m, notices'[m]) = Of(m, notices[m])
    BY <1>5
  <2>3. Announced' = UNION {Of(m, notices'[m]) : m \in Node}
    BY DEF Announced, Of
  <2> QED
    BY <2>1, <2>2, <2>3 DEF Announced
<1>8. NoticeOf(n) \notin Announced
  BY <1>6, AnnouncedType DEF Ordered
<1> QED
  BY <1>3, <1>4, <1>7, <1>8

LEMMA RecordChat ==
  ASSUME Typed, NEW n \in Node, Record(n)
  PROVE  /\ sending[n].index \in 1..Len(chat)
         /\ chat' \in Seq(Message)
         /\ Len(chat') = Len(chat)
         /\ chat' = [chat EXCEPT ![sending[n].index].recorded = TRUE]
         /\ \A i \in 1..Len(chat) : i # sending[n].index => chat'[i] = chat[i]
         /\ chat'[sending[n].index].recorded = TRUE
         /\ chat'[sending[n].index].by = chat[sending[n].index].by
         /\ chat'[sending[n].index].to = chat[sending[n].index].to
         /\ chat'[sending[n].index].down = chat[sending[n].index].down
         /\ chat'[sending[n].index].at = chat[sending[n].index].at
         /\ chat'[sending[n].index].announced = chat[sending[n].index].announced
         /\ chat'[sending[n].index].failedAt = chat[sending[n].index].failedAt
         /\ chat'[sending[n].index].failures = chat[sending[n].index].failures
<1> DEFINE i == sending[n].index
           c == chat[i]
<1>1. i \in 1..Len(chat) /\ chat \in Seq(Message)
  BY DEF Record, Typed
<1>2. c \in Message
  BY <1>1
<1>3. chat' = [chat EXCEPT ![i] = [c EXCEPT !.recorded = TRUE]]
  BY DEF Record
<1>4. [c EXCEPT !.recorded = TRUE] \in Message
  <2>1. TRUE \in BOOLEAN
    OBVIOUS
  <2> QED
    BY <1>2, <2>1 DEF Message
<1> HIDE DEF i
<1>5. chat' \in Seq(Message) /\ Len(chat') = Len(chat)
  BY <1>1, <1>3, <1>4
<1> HIDE DEF c
<1>6. chat'[i] = [c EXCEPT !.recorded = TRUE] /\ \A j \in 1..Len(chat) : j # i => chat'[j] = chat[j]
  <2>1. DOMAIN chat = 1..Len(chat)
    BY <1>1
  <2> QED
    BY <1>1, <1>3, <2>1
<1>7. /\ chat'[i].recorded = TRUE /\ chat'[i].by = c.by /\ chat'[i].to = c.to
      /\ chat'[i].down = c.down /\ chat'[i].at = c.at /\ chat'[i].announced = c.announced
      /\ chat'[i].failedAt = c.failedAt /\ chat'[i].failures = c.failures
  BY <1>2, <1>6 DEF Message
<1>8. chat' = [chat EXCEPT ![i].recorded = TRUE]
  BY DEF Record, i
<1> QED
  BY <1>1, <1>5, <1>6, <1>7, <1>8 DEF i, c

LEMMA RecordTyped == ASSUME Typed, Ordered, NEW n \in Node, Record(n) PROVE Typed' /\ Ordered'
<1>1. notices' \in [Node -> SUBSET Notice]
  <2>1. NoticeOf(n) \in Notice /\ notices' = [notices EXCEPT ![n] = @ \cup {NoticeOf(n)}]
    BY RecordIs
  <2> QED
    BY <2>1 DEF Typed
<1>2. chat' \in Seq(Message) /\ Len(chat') = Len(chat)
  BY RecordChat
<1>3. sending' = [sending EXCEPT ![n] = NoMessage]
  BY DEF Record
<1>4. sending' \in [Node -> Sent]
  BY <1>3 DEF Typed, Sent
<1>5. \A m \in Node : sending'[m].step = "record" => sending'[m].index \in 1..Len(chat')
  BY <1>2, <1>3 DEF Typed, NoMessage
<1>6. Ordered'
  <2> DEFINE k == NoticeOf(n)
  <2>1. k.no = Cardinality(Announced) + 1 /\ k.at = now
    BY DEF NoticeOf
  <2>2. Announced' = Announced \cup {k} /\ k \notin Announced
    BY RecordIs
  <2>3. now \in Nat /\ now' = now /\ mail' = mail
    BY Constants DEF Record, Typed, Period
  <2>4. notices' = [notices EXCEPT ![n] = @ \cup {k}]
    BY RecordIs
  <2> HIDE DEF k
  <2>5. IsFiniteSet(Announced') /\ Cardinality(Announced') = Cardinality(Announced) + 1
    BY <2>2, FS_AddElement DEF Ordered
  <2>6. \A m \in Node : notices'[m] \subseteq Announced'
    BY <2>2, <2>4 DEF Typed, Ordered
  <2>7. \A p \in mail' : p.notices \subseteq Announced'
    BY <2>2, <2>3 DEF Ordered
  <2>8. Cardinality(Announced) \in Nat
    BY AnnouncedType
  <2>9. \A l \in Announced : l.no \in Nat /\ l.no <= Cardinality(Announced) /\ l.at \in Nat /\ l.at <= now
    BY AnnouncedType DEF Ordered
  <2>10. \A l \in Announced' : l.no <= Cardinality(Announced') /\ l.at <= now'
    BY <2>1, <2>2, <2>3, <2>5, <2>8, <2>9
  <2>11. \A l, j \in Announced' : l.no <= j.no => l.at <= j.at
    BY <2>1, <2>2, <2>3, <2>8, <2>9 DEF Ordered
  <2> QED
    BY <2>5, <2>6, <2>7, <2>10, <2>11 DEF Ordered
<1> QED
  BY <1>1, <1>2, <1>4, <1>5, <1>6 DEF Record, Typed, counts

LEMMA FailTyped == ASSUME Typed, Ordered, NEW n \in Node, Fail(n) PROVE Typed' /\ Ordered'
<1>1. /\ sending' \in [Node -> Sent]
      /\ \A m \in Node : sending'[m].step = "record" => sending'[m].index \in 1..Len(chat)
  BY DEF Fail, Typed, Sent, NoMessage
<1>2. failures' \in 0..MaxFailures
  BY Constants DEF Fail, Typed
<1>3. Ordered'
  BY OrderedStays, Constants DEF Fail, Ordered, Typed, Period
<1> QED
  BY <1>1, <1>2, <1>3 DEF Fail, Typed

LEMMA PushTyped == ASSUME Typed, Ordered, NEW n \in Node, Push(n) PROVE Typed' /\ Ordered'
<1>1. OwnNoticesSince(n) \in SUBSET Announced /\ OwnNoticesSince(n) \in SUBSET Notice
  BY AnnouncedIs DEF OwnNoticesSince, Of, Typed
<1>2. mail' \subseteq [to : Node, notices : SUBSET Notice]
  BY <1>1 DEF Push, Typed
<1>3. mark' \in [Node -> Nat]
  <2>1. Greatest({} \cup {k.no : k \in OwnNoticesSince(n)}) \in Nat
    BY <1>1, GreatestNo DEF Push
  <2>2. {} \cup {k.no : k \in OwnNoticesSince(n)} = {k.no : k \in OwnNoticesSince(n)}
    OBVIOUS
  <2>3. Greatest({k.no : k \in OwnNoticesSince(n)}) \in Nat
    BY <2>1, <2>2, Zenon
  <2> QED
    BY <2>3 DEF Push, Typed
<1>4. \A p \in mail' : p.notices \subseteq Announced
  BY <1>1 DEF Push, Ordered
<1>5. Ordered'
  BY <1>4, OrderedStays, Constants DEF Push, Typed, Period
<1> QED
  BY <1>2, <1>3, <1>5 DEF Push, Typed, counts

\* What is received, its author has.
LEMMA ReceiveIs ==
  ASSUME Typed, Ordered, NEW p \in mail, Receive(p)
  PROVE  /\ Announced' = Announced
         /\ \A n \in Node : /\ notices[n] \subseteq notices'[n]
                            /\ notices'[n] \subseteq Announced
<1> DEFINE new == {k \in p.notices : \A i \in MaxNotice(k.from, p.to) : k.no > i}
<1>1. p.to \in Node /\ new \subseteq Announced
  BY DEF Typed, Ordered
<1>2. notices' = [notices EXCEPT ![p.to] = @ \cup new]
  BY DEF Receive
<1> HIDE DEF new
<1>3. \A n \in Node : notices'[n] = IF n = p.to THEN notices[n] \cup new ELSE notices[n]
  BY <1>2 DEF Typed
<1>4. \A n \in Node : Of(n, notices'[n]) = Of(n, notices[n])
  BY <1>1, <1>3, AnnouncedIs DEF Of
<1>5. Announced' = Announced
  BY <1>4 DEF Announced, Of
<1> QED
  BY <1>1, <1>3, <1>5 DEF Ordered

LEMMA ReceiveTyped == ASSUME Typed, Ordered, NEW p \in mail, Receive(p) PROVE Typed' /\ Ordered'
<1>1. notices' \in [Node -> SUBSET Notice]
  <2>1. p.notices \subseteq Notice
    BY DEF Typed
  <2>2. {k \in p.notices : \A i \in MaxNotice(k.from, p.to) : k.no > i} \subseteq Notice
    BY <2>1
  <2> QED
    BY <2>2 DEF Receive, Typed
<1>2. mail' \subseteq mail /\ now' = now
  BY DEF Receive
<1>3. Ordered'
  BY <1>2, ReceiveIs DEF Ordered
<1> QED
  BY <1>1, <1>2, <1>3 DEF Receive, Typed, counts

LEMMA LoseTyped == ASSUME Typed, Ordered, NEW p \in mail, Lose(p) PROVE Typed' /\ Ordered'
<1>1. losses' \in 0..MaxLosses
  BY Constants DEF Lose, Typed
<1>2. mail' \subseteq mail
  BY DEF Lose
<1>3. Ordered'
  BY <1>2, OrderedStays, Constants DEF Lose, Ordered, Typed, Period
<1> QED
  BY <1>1, <1>2, <1>3 DEF Lose, Typed

LEMMA StopTyped == ASSUME Typed, Ordered, NEW n \in Node, Stop(n) PROVE Typed' /\ Ordered'
<1>1. /\ sending' \in [Node -> Sent]
      /\ \A m \in Node : sending'[m].step = "record" => sending'[m].index \in 1..Len(chat)
  BY DEF Stop, Typed, Sent, NoMessage
<1>2. stops' \in 0..MaxStops /\ up' \subseteq Node /\ due' \in [Node -> SUBSET Target]
  BY Constants DEF Stop, Typed
<1>3. Ordered'
  BY OrderedStays, Constants DEF Stop, Ordered, Typed, Period
<1> QED
  BY <1>1, <1>2, <1>3 DEF Stop, Typed

LEMMA StartTyped == ASSUME Typed, Ordered, NEW n \in Node, Start(n) PROVE Typed' /\ Ordered'
<1>1. mark' \in [Node -> Nat]
  <2> DEFINE S == Of(n, notices[n]) \ Recent(n)
  <2>1. S \in SUBSET Announced
    BY AnnouncedIs
  <2>2. Greatest({0} \cup {k.no : k \in S}) \in Nat
    BY <2>1, GreatestNo
  <2>3. mark' = [mark EXCEPT ![n] = Greatest({0} \cup {k.no : k \in S}) + 1]
    BY DEF Start
  <2> HIDE DEF S
  <2> QED
    BY <2>2, <2>3 DEF Typed
<1>2. up' \subseteq Node /\ due' \in [Node -> SUBSET Target]
  BY DEF Start, Typed
<1>3. Ordered'
  BY OrderedStays, Constants DEF Start, Ordered, Typed, Period
<1> QED
  BY <1>1, <1>2, <1>3 DEF Start, Typed, counts

LEMMA TypedNext == Typed /\ Ordered /\ [Next]_vars => Typed' /\ Ordered'
<1> SUFFICES ASSUME Typed, Ordered, [Next]_vars
             PROVE  Typed' /\ Ordered'
  OBVIOUS
<1>1. CASE Tick
  BY <1>1, TickTyped
<1>2. ASSUME NEW x \in Target, Change(x)
      PROVE  Typed' /\ Ordered'
  BY <1>2, ChangeTyped
<1>3. ASSUME NEW n \in Node, \/ Check(n) \/ Meet(n)
                             \/ \E x \in Target : Consider(n, x)
                             \/ Send(n) \/ Record(n) \/ Fail(n)
                             \/ Push(n)
                             \/ Stop(n) \/ Start(n)
      PROVE  Typed' /\ Ordered'
  BY <1>3, CheckTyped, MeetTyped, ConsiderTyped, SendTyped, RecordTyped, FailTyped, PushTyped,
     StopTyped, StartTyped
<1>4. ASSUME NEW p \in mail, Receive(p) \/ Lose(p)
      PROVE  Typed' /\ Ordered'
  BY <1>4, ReceiveTyped, LoseTyped
<1>5. CASE UNCHANGED vars
  <2>1. Announced' = Announced
    BY <1>5 DEF vars, Announced, Of
  <2> QED
    BY <1>5, <2>1 DEF vars, counts, Typed, Ordered
<1> QED
  BY <1>1, <1>2, <1>3, <1>4, <1>5 DEF Next

LEMMA TypedAlways == Spec => [](Typed /\ Ordered)
  BY TypedInit, TypedNext, PTL DEF Spec

\* Every variable keeps its shape, whatever is sent, lost, failed and started again; the
\* numbers of the notices, and the marks among them, stay natural numbers.
THEOREM AlertsTypeCorrect == Spec => []TypeOK
  BY TypedAlways, TypedIsTypeOK, PTL

-----------------------------------------------------------------------------
\* No node repeats itself.

\* A message goes out, and is recorded, in the period it was decided in, by a node that
\* does nothing else meanwhile.
Present ==
  \A n \in Node :
    /\ sending[n].step = "send" =>
         /\ n \in up
         /\ sending[n].message.by = n
         /\ sending[n].message.at = now
         /\ ~sending[n].message.recorded
    /\ sending[n].step = "record" =>
         /\ n \in up
         /\ chat[sending[n].index].by = n
         /\ chat[sending[n].index].at = now
         /\ \A j \in 1..Len(chat) : chat[j].by = n => j <= sending[n].index

\* Every notice is that of a message in the chat.
Told ==
  \A k \in Announced : \E h \in 1..Len(chat) :
    chat[h].to = k.to /\ chat[h].down = k.down /\ chat[h].at = k.at

\* A message that was recorded its node has the notice of.
Remembered ==
  \A i \in 1..Len(chat) : chat[i].recorded =>
    \E k \in notices[chat[i].by] :
      k.to = chat[i].to /\ k.down = chat[i].down /\ k.at = chat[i].at

\* What NobodyEchoes says of the message c, were it the j-th.
Novel(c, j) ==
  \A i \in 1..Len(chat) :
    (i < j /\ chat[i].to = c.to /\ chat[i].down /\ c.down /\ chat[i].by = c.by
           /\ chat[i].recorded /\ c.at - chat[i].at < Repeat)
      => \E h \in 1..Len(chat) : /\ h < j
                                 /\ chat[h].to = c.to
                                 /\ ~chat[h].down
                                 /\ chat[h].at >= chat[i].at

Novelty ==
  /\ \A j \in 1..Len(chat) : Novel(chat[j], j)
  /\ \A n \in Node : sending[n].step = "send" => Novel(sending[n].message, Len(chat) + 1)

EchoInv == Typed /\ Ordered /\ Present /\ Told /\ Remembered /\ Novelty

LEMMA EchoImplies == EchoInv => NobodyEchoes
<1> SUFFICES ASSUME EchoInv, NEW x \in Target, NEW i \in About(x), NEW j \in About(x),
                    i < j, chat[i].down, chat[j].down, chat[i].by = chat[j].by,
                    chat[i].recorded, chat[j].at - chat[i].at < Repeat
             PROVE  \E h \in About(x) : h < j /\ ~chat[h].down /\ chat[h].at >= chat[i].at
  BY DEF NobodyEchoes
<1>1. i \in 1..Len(chat) /\ j \in 1..Len(chat) /\ chat[i].to = x /\ chat[j].to = x
  BY DEF About
<1>2. Novel(chat[j], j)
  BY <1>1 DEF EchoInv, Novelty
<1>3. PICK h \in 1..Len(chat) : /\ h < j
                                /\ chat[h].to = chat[j].to
                                /\ ~chat[h].down
                                /\ chat[h].at >= chat[i].at
  BY <1>1, <1>2 DEF Novel
<1> QED
  BY <1>1, <1>3 DEF About

LEMMA EchoInit == Init => EchoInv
<1> SUFFICES ASSUME Init
             PROVE  EchoInv
  OBVIOUS
<1>1. \A n \in Node : sending[n].step = "none"
  BY DEF Init, NoMessage
<1>2. Announced = {}
  BY DEF Init, Announced, Of
<1>3. chat = <<>> /\ 1..Len(chat) = {}
  BY DEF Init
<1>4. Present
  BY <1>1 DEF Present
<1>5. Told /\ Remembered
  BY <1>2, <1>3 DEF Told, Remembered
<1>6. Novelty
  BY <1>1, <1>3 DEF Novelty
<1> QED
  BY <1>4, <1>5, <1>6, TypedInit DEF EchoInv

\* The steps that add neither a message nor a notice, and at most give a message up.
LEMMA EchoQuiet ==
  ASSUME EchoInv, UNCHANGED <<chat, now>>, Announced' = Announced,
         \A n \in Node : notices[n] \subseteq notices'[n],
         \A n \in Node : sending'[n] = NoMessage \/ (sending'[n] = sending[n] /\ (n \in up => n \in up'))
  PROVE  Present' /\ Told' /\ Remembered' /\ Novelty'
<1> USE DEF EchoInv
<1>1. \A n \in Node : sending'[n].step \in {"send", "record"} =>
                        sending'[n] = sending[n] /\ (n \in up => n \in up')
  BY DEF NoMessage
<1>2. Present'
  BY <1>1 DEF Present
<1>3. Told'
  BY DEF Told
<1>4. Remembered'
  <2> SUFFICES ASSUME NEW i \in 1..Len(chat), chat[i].recorded
               PROVE  \E k \in notices'[chat[i].by] :
                        k.to = chat[i].to /\ k.down = chat[i].down /\ k.at = chat[i].at
    BY DEF Remembered
  <2>1. chat[i] \in Message
    BY DEF Typed
  <2>2. chat[i].by \in Node
    BY <2>1 DEF Message
  <2> QED
    BY <2>2 DEF Remembered
<1>5. Novelty'
  <2>1. \A j \in 1..Len(chat) : Novel(chat[j], j)'
    BY DEF Novelty, Novel
  <2>2. ASSUME NEW n \in Node, sending'[n].step = "send"
        PROVE  Novel(sending[n].message, Len(chat) + 1)'
    <3>1. sending'[n] = sending[n] /\ Novel(sending[n].message, Len(chat) + 1)
      BY <1>1, <2>2 DEF Novelty
    <3> QED
      BY <3>1 DEF Novel
  <2> QED
    BY <2>1, <2>2 DEF Novelty
<1> QED
  BY <1>2, <1>3, <1>4, <1>5

LEMMA EchoTick == ASSUME EchoInv, Tick PROVE Present' /\ Told' /\ Remembered' /\ Novelty'
<1> USE DEF EchoInv
<1>1. UNCHANGED <<chat, notices, sending>>
  BY DEF Tick
<1>2. ASSUME NEW n \in Node
      PROVE  sending[n].step \notin {"send", "record"}
  <2>1. n \in up => sending[n] = NoMessage
    BY DEF Tick
  <2> QED
    BY <2>1 DEF Present, NoMessage
<1>3. Present'
  BY <1>1, <1>2 DEF Present
<1>4. Told' /\ Remembered'
  BY <1>1 DEF Told, Remembered, Announced, Of
<1>5. Novelty'
  BY <1>1, <1>2 DEF Novelty, Novel
<1> QED
  BY <1>3, <1>4, <1>5

\* A message a node decides on is no echo: the notices it has read tell it so.
LEMMA DecidedIsNovel ==
  ASSUME EchoInv, NEW n \in Node, NEW x \in Target,
         Decide(edge[n][x], LatestNotice(n, x), RankDelay(n))
  PROVE  Novel(MessageOf(n, x), Len(chat) + 1)
<1> USE DEF EchoInv
<1> DEFINE e == edge[n][x]
           c == MessageOf(n, x)
<1>1. c.by = n /\ c.to = x /\ (c.down <=> ~e.ok) /\ c.at = now
  BY DEF MessageOf
<1> SUFFICES Novel(c, Len(chat) + 1)
  OBVIOUS
<1> HIDE DEF c
<1>a. Len(chat) \in Nat
  BY DEF Typed
<1> SUFFICES ASSUME NEW i \in 1..Len(chat), chat[i].to = x, chat[i].down, ~e.ok,
                    chat[i].by = n, chat[i].recorded, now - chat[i].at < Repeat
             PROVE  \E h \in 1..Len(chat) : /\ chat[h].to = x
                                            /\ ~chat[h].down
                                            /\ chat[h].at >= chat[i].at
  BY <1>1, <1>a DEF Novel
<1>2. PICK k \in notices[n] : k.to = x /\ k.at = chat[i].at
  BY DEF Remembered
<1>3. PICK l \in LatestNotice(n, x) : l.at >= k.at
  BY <1>2, LatestIs
<1>4. l \in Announced /\ l.to = x /\ l.at \in Nat /\ k.at \in Nat
  BY <1>2, AnnouncedType DEF LatestNotice, Ordered
<1>5. ~l.down
  <2> SUFFICES ASSUME l.down
               PROVE  FALSE
    OBVIOUS
  <2>1. e.since \in Nat /\ now \in Nat
    BY Constants DEF Typed, Edge, Period
  <2>2. now - (IF e.since > l.at THEN e.since ELSE l.at) >= Repeat + RankDelay(n)
    BY DEF Decide
  <2>3. RankDelay(n) \in Nat
    BY RankDelayIs
  <2>4. now - l.at >= Repeat
    BY <1>4, <2>1, <2>2, <2>3, Constants
  <2> QED
    BY <1>2, <1>3, <1>4, <2>1, <2>4, Constants
<1>6. PICK h \in 1..Len(chat) : chat[h].to = l.to /\ chat[h].down = l.down /\ chat[h].at = l.at
  BY <1>4 DEF Told
<1> QED
  BY <1>2, <1>3, <1>4, <1>5, <1>6

LEMMA EchoConsider ==
  ASSUME EchoInv, NEW n \in Node, NEW x \in Target, Consider(n, x)
  PROVE  Present' /\ Told' /\ Remembered' /\ Novelty'
<1> USE DEF EchoInv
<1>1. UNCHANGED <<chat, now, notices, up>> /\ Announced' = Announced
  BY DEF Consider, Announced, Of
<1>2. CASE sending' = sending
  BY <1>1, <1>2, EchoQuiet
<1>3. CASE /\ Decide(edge[n][x], LatestNotice(n, x), RankDelay(n))
           /\ sending' = [sending EXCEPT ![n] = [step |-> "send", message |-> MessageOf(n, x)]]
  <2> DEFINE c == MessageOf(n, x)
  <2>1. Novel(c, Len(chat) + 1)
    BY <1>3, DecidedIsNovel
  <2>2. c.by = n /\ c.at = now /\ ~c.recorded /\ n \in up
    BY DEF MessageOf, Consider
  <2>3. /\ sending'[n].step = "send" /\ sending'[n].message = c
        /\ \A m \in Node \ {n} : sending'[m] = sending[m]
    BY <1>3 DEF Typed
  <2> HIDE DEF c
  <2>4. Present'
    BY <1>1, <2>2, <2>3 DEF Present
  <2>5. Told' /\ Remembered'
    BY <1>1 DEF Told, Remembered
  <2>6. \A j \in 1..Len(chat) : Novel(chat[j], j)'
    BY <1>1 DEF Novelty, Novel
  <2>7. ASSUME NEW m \in Node, sending'[m].step = "send"
        PROVE  Novel(sending[m].message, Len(chat) + 1)'
    <3>1. CASE m = n
      BY <1>1, <2>1, <2>3, <3>1 DEF Novel
    <3>2. CASE m # n
      <4>1. sending'[m] = sending[m] /\ Novel(sending[m].message, Len(chat) + 1)
        BY <2>3, <2>7, <3>2 DEF Novelty
      <4> QED
        BY <1>1, <4>1 DEF Novel
    <3> QED
      BY <3>1, <3>2
  <2> QED
    BY <1>1, <2>4, <2>5, <2>6, <2>7 DEF Novelty
<1> QED
  BY <1>2, <1>3, ConsiderIs

LEMMA EchoSend ==
  ASSUME EchoInv, NEW n \in Node, Send(n)
  PROVE  Present' /\ Told' /\ Remembered' /\ Novelty'
<1> USE DEF EchoInv
<1> DEFINE c == sending[n].message
           end == Len(chat) + 1
<1>1. UNCHANGED <<now, notices, up>> /\ Announced' = Announced
  BY DEF Send, Announced, Of
<1>2. /\ c \in Message
      /\ Len(chat) \in Nat
      /\ Len(chat') = end
      /\ chat'[end] = c
      /\ \A i \in 1..Len(chat) : chat'[i] = chat[i]
  BY SendIs
<1>3. sending[n].step = "send" /\ c.by = n /\ c.at = now /\ ~c.recorded /\ n \in up
  BY DEF Send, Present
<1>4. Novel(c, end)
  BY <1>3 DEF Novelty
<1>5. /\ sending'[n].step = "record" /\ sending'[n].index = end
      /\ \A m \in Node \ {n} : sending'[m] = sending[m]
  BY DEF Send, Typed
<1> HIDE DEF c, end
<1>6. end = Len(chat) + 1 /\ end \in 1..Len(chat') /\ \A i \in 1..Len(chat') : i = end \/ i \in 1..Len(chat)
  BY <1>2 DEF end
<1>7. Present'
  <2>1. ASSUME NEW m \in Node, m # n, sending'[m].step = "record"
        PROVE  /\ m \in up
               /\ chat'[sending'[m].index].by = m
               /\ chat'[sending'[m].index].at = now
               /\ \A j \in 1..Len(chat') : chat'[j].by = m => j <= sending'[m].index
    <3>1. sending'[m] = sending[m] /\ sending[m].index \in 1..Len(chat)
      BY <1>5, <2>1 DEF Typed
    <3> QED
      BY <1>2, <1>3, <1>6, <2>1, <3>1 DEF Present
  <2>2. \A j \in 1..Len(chat') : j <= end
    BY <1>2, <1>6
  <2> QED
    BY <1>1, <1>2, <1>3, <1>5, <2>1, <2>2 DEF Present
<1>8. Told'
  BY <1>1, <1>2, <1>6 DEF Told
<1>9. Remembered'
  BY <1>1, <1>2, <1>3, <1>6 DEF Remembered
<1>10. ASSUME NEW d, NEW j \in 1..end, Novel(d, j)
       PROVE  \A i \in 1..Len(chat') :
                (i < j /\ chat'[i].to = d.to /\ chat'[i].down /\ d.down /\ chat'[i].by = d.by
                       /\ chat'[i].recorded /\ d.at - chat'[i].at < Repeat)
                  => \E h \in 1..Len(chat') : /\ h < j
                                              /\ chat'[h].to = d.to
                                              /\ ~chat'[h].down
                                              /\ chat'[h].at >= chat'[i].at
  BY <1>2, <1>6, <1>10 DEF Novel
<1>11. \A j \in 1..Len(chat') : Novel(chat[j], j)'
  <2> SUFFICES ASSUME NEW j \in 1..Len(chat')
               PROVE  Novel(chat[j], j)'
    OBVIOUS
  <2>1. Novel(chat'[j], j)
    BY <1>2, <1>4, <1>6 DEF Novelty
  <2> QED
    BY <1>2, <1>10, <2>1 DEF Novel
<1>12. ASSUME NEW m \in Node, sending'[m].step = "send"
       PROVE  Novel(sending[m].message, Len(chat) + 1)'
  <2>1. m # n /\ sending'[m] = sending[m]
    BY <1>5, <1>12
  <2>2. Novel(sending[m].message, end) /\ sending[m].message.by = m
    BY <1>6, <1>12, <2>1 DEF Novelty, Present
  <2> DEFINE d == sending[m].message
  <2>3. \A i \in 1..Len(chat') :
          (i < end /\ chat'[i].to = d.to /\ chat'[i].down /\ d.down /\ chat'[i].by = d.by
                   /\ chat'[i].recorded /\ d.at - chat'[i].at < Repeat)
            => \E h \in 1..Len(chat') : /\ h < end
                                        /\ chat'[h].to = d.to
                                        /\ ~chat'[h].down
                                        /\ chat'[h].at >= chat'[i].at
    BY <1>2, <1>6, <1>10, <2>2
  <2>4. chat'[end].by # d.by
    BY <1>2, <1>3, <2>1, <2>2
  <2>5. d = sending'[m].message
    BY <2>1
  <2> HIDE DEF d
  <2>6. \A i \in 1..Len(chat') :
          (i < Len(chat') + 1 /\ chat'[i].to = d.to /\ chat'[i].down /\ d.down /\ chat'[i].by = d.by
                   /\ chat'[i].recorded /\ d.at - chat'[i].at < Repeat)
            => \E h \in 1..Len(chat') : /\ h < Len(chat') + 1
                                        /\ chat'[h].to = d.to
                                        /\ ~chat'[h].down
                                        /\ chat'[h].at >= chat'[i].at
    BY <1>2, <1>6, <2>3, <2>4
  <2> QED
    BY <2>5, <2>6 DEF Novel
<1> QED
  BY <1>7, <1>8, <1>9, <1>11, <1>12 DEF Novelty

LEMMA EchoRecord ==
  ASSUME EchoInv, NEW n \in Node, Record(n)
  PROVE  Present' /\ Told' /\ Remembered' /\ Novelty'
<1> USE DEF EchoInv
<1> DEFINE idx == sending[n].index
           k == NoticeOf(n)
<1>1. UNCHANGED <<now, up>>
  BY DEF Record
<1>2. /\ Announced' = Announced \cup {k}
      /\ notices' = [notices EXCEPT ![n] = @ \cup {k}]
  BY RecordIs
<1>3. /\ idx \in 1..Len(chat)
      /\ Len(chat') = Len(chat)
      /\ \A i \in 1..Len(chat) : i # idx => chat'[i] = chat[i]
      /\ \A i \in 1..Len(chat) : /\ chat'[i].by = chat[i].by
                                 /\ chat'[i].to = chat[i].to
                                 /\ chat'[i].down = chat[i].down
                                 /\ chat'[i].at = chat[i].at
  BY RecordChat
<1>4. k.to = chat[idx].to /\ k.down = chat[idx].down /\ k.at = now
  BY DEF NoticeOf
<1>5. /\ chat[idx].by = n
      /\ chat[idx].at = now
      /\ \A j \in 1..Len(chat) : chat[j].by = n => j <= idx
  BY DEF Record, Present
<1>6. sending'[n] = NoMessage /\ \A m \in Node \ {n} : sending'[m] = sending[m]
  BY DEF Record, Typed
<1>7. \A m \in Node : notices[m] \subseteq notices'[m]
  BY <1>2 DEF Typed
<1>8. k \in notices'[n]
  BY <1>2 DEF Typed
<1>9. \A i \in 1..Len(chat) : chat[i].by \in Node
  <2>1. \A i \in 1..Len(chat) : chat[i] \in Message
    BY DEF Typed
  <2> QED
    BY <2>1 DEF Message
<1>a. Len(chat) \in Nat
  BY DEF Typed
<1> HIDE DEF idx, k
<1>10. Present'
  <2>1. ASSUME NEW m \in Node, sending'[m].step = "record"
        PROVE  /\ m \in up
               /\ chat'[sending'[m].index].by = m
               /\ chat'[sending'[m].index].at = now
               /\ \A j \in 1..Len(chat') : chat'[j].by = m => j <= sending'[m].index
    <3>1. sending'[m] = sending[m] /\ sending[m].index \in 1..Len(chat)
      BY <1>6, <2>1 DEF Typed, NoMessage
    <3> QED
      BY <1>3, <2>1, <3>1 DEF Present
  <2>2. ASSUME NEW m \in Node, sending'[m].step = "send"
        PROVE  sending'[m] = sending[m]
    BY <1>6, <2>2 DEF NoMessage
  <2> QED
    BY <1>1, <2>1, <2>2 DEF Present
<1>11. Told'
  BY <1>2, <1>3, <1>4, <1>5 DEF Told
<1>12. Remembered'
  <2> SUFFICES ASSUME NEW i \in 1..Len(chat), chat'[i].recorded
               PROVE  \E l \in notices'[chat[i].by] :
                        l.to = chat[i].to /\ l.down = chat[i].down /\ l.at = chat[i].at
    BY <1>3 DEF Remembered
  <2>1. CASE i = idx
    BY <1>4, <1>5, <1>8, <2>1
  <2>2. CASE i # idx
    BY <1>3, <1>7, <1>9, <2>2 DEF Remembered
  <2> QED
    BY <2>1, <2>2
<1>13. ASSUME NEW d, NEW e, NEW j \in 1..(Len(chat) + 1), Novel(d, j),
              e.to = d.to, e.down = d.down, e.by = d.by, e.at = d.at,
              d.by = n => j <= idx
       PROVE  \A i \in 1..Len(chat') :
                (i < j /\ chat'[i].to = e.to /\ chat'[i].down /\ e.down /\ chat'[i].by = e.by
                       /\ chat'[i].recorded /\ e.at - chat'[i].at < Repeat)
                  => \E h \in 1..Len(chat') : /\ h < j
                                              /\ chat'[h].to = e.to
                                              /\ ~chat'[h].down
                                              /\ chat'[h].at >= chat'[i].at
  <2> SUFFICES ASSUME NEW i \in 1..Len(chat), i < j, chat[i].to = d.to, chat[i].down, d.down,
                      chat[i].by = d.by, chat'[i].recorded, d.at - chat[i].at < Repeat
               PROVE  \E h \in 1..Len(chat) : /\ h < j
                                              /\ chat[h].to = d.to
                                              /\ ~chat[h].down
                                              /\ chat[h].at >= chat[i].at
    BY <1>3, <1>13
  <2>1. i # idx
    BY <1>3, <1>5, <1>13, <1>a
  <2>2. chat[i].recorded
    BY <1>3, <2>1
  <2> QED
    BY <1>13, <2>2 DEF Novel
<1>14. \A j \in 1..Len(chat') : Novel(chat[j], j)'
  <2> SUFFICES ASSUME NEW j \in 1..Len(chat)
               PROVE  Novel(chat[j], j)'
    BY <1>3
  <2>1. Novel(chat[j], j) /\ (chat[j].by = n => j <= idx) /\ j \in 1..(Len(chat) + 1)
    BY <1>5, <1>a DEF Novelty
  <2> QED
    BY <1>3, <1>13, <2>1 DEF Novel
<1>15. ASSUME NEW m \in Node, sending'[m].step = "send"
       PROVE  Novel(sending[m].message, Len(chat) + 1)'
  <2>1. m # n /\ sending'[m] = sending[m]
    BY <1>6, <1>15 DEF NoMessage
  <2>2. Novel(sending[m].message, Len(chat) + 1) /\ sending[m].message.by = m
    BY <1>15, <2>1 DEF Novelty, Present
  <2>3. Len(chat) + 1 \in 1..(Len(chat) + 1)
    BY <1>a
  <2> DEFINE d == sending[m].message
  <2>4. d = sending'[m].message /\ Len(chat') + 1 = Len(chat) + 1
    BY <1>3, <2>1
  <2> HIDE DEF d
  <2>5. \A i \in 1..Len(chat') :
          (i < Len(chat) + 1 /\ chat'[i].to = d.to /\ chat'[i].down /\ d.down
                   /\ chat'[i].by = d.by /\ chat'[i].recorded /\ d.at - chat'[i].at < Repeat)
            => \E h \in 1..Len(chat') : /\ h < Len(chat) + 1
                                        /\ chat'[h].to = d.to
                                        /\ ~chat'[h].down
                                        /\ chat'[h].at >= chat'[i].at
    <3>1. Novel(d, Len(chat) + 1) /\ d.by # n
      BY <2>1, <2>2 DEF d
    <3> QED
      BY <1>13, <2>3, <3>1
  <2> QED
    BY <2>4, <2>5 DEF Novel
<1> QED
  BY <1>10, <1>11, <1>12, <1>14, <1>15 DEF Novelty

LEMMA EchoNext == EchoInv /\ [Next]_vars => EchoInv'
<1> SUFFICES ASSUME EchoInv, [Next]_vars
             PROVE  EchoInv'
  OBVIOUS
<1>1. Typed' /\ Ordered'
  BY TypedNext DEF EchoInv
<1> SUFFICES Present' /\ Told' /\ Remembered' /\ Novelty'
  BY <1>1 DEF EchoInv
<1>2. ASSUME UNCHANGED <<chat, now, notices>>,
             \A n \in Node : sending'[n] = NoMessage
                               \/ (sending'[n] = sending[n] /\ (n \in up => n \in up'))
      PROVE  Present' /\ Told' /\ Remembered' /\ Novelty'
  BY <1>2, EchoQuiet DEF Announced, Of
<1>3. CASE Tick
  BY <1>3, EchoTick
<1>4. ASSUME NEW x \in Target, Change(x)
      PROVE  Present' /\ Told' /\ Remembered' /\ Novelty'
  BY <1>2, <1>4 DEF Change
<1>5. ASSUME NEW n \in Node, Check(n) \/ Meet(n) \/ Push(n) \/ Start(n)
      PROVE  Present' /\ Told' /\ Remembered' /\ Novelty'
  <2>1. UNCHANGED <<chat, now, notices, sending>> /\ up \subseteq up'
    BY <1>5 DEF Check, Meet, Push, Start
  <2> QED
    BY <1>2, <2>1
<1>6. ASSUME NEW n \in Node, NEW x \in Target, Consider(n, x)
      PROVE  Present' /\ Told' /\ Remembered' /\ Novelty'
  BY <1>6, EchoConsider
<1>7. ASSUME NEW n \in Node, Send(n) \/ Record(n)
      PROVE  Present' /\ Told' /\ Remembered' /\ Novelty'
  BY <1>7, EchoSend, EchoRecord
<1>8. ASSUME NEW n \in Node, Fail(n) \/ Stop(n)
      PROVE  Present' /\ Told' /\ Remembered' /\ Novelty'
  <2>1. /\ UNCHANGED <<chat, now, notices>>
        /\ sending' = [sending EXCEPT ![n] = NoMessage]
        /\ up \ {n} \subseteq up'
    BY <1>8 DEF Fail, Stop
  <2>2. sending'[n] = NoMessage /\ \A m \in Node \ {n} : sending'[m] = sending[m]
    BY <2>1 DEF EchoInv, Typed
  <2> QED
    BY <1>2, <2>1, <2>2
<1>9. ASSUME NEW p \in mail, Receive(p)
      PROVE  Present' /\ Told' /\ Remembered' /\ Novelty'
  <2>1. UNCHANGED <<chat, now, sending, up>>
    BY <1>9 DEF Receive
  <2>2. Announced' = Announced /\ \A n \in Node : notices[n] \subseteq notices'[n]
    BY <1>9, ReceiveIs DEF EchoInv
  <2> QED
    BY <2>1, <2>2, EchoQuiet
<1>10. ASSUME NEW p \in mail, Lose(p)
       PROVE  Present' /\ Told' /\ Remembered' /\ Novelty'
  BY <1>2, <1>10 DEF Lose
<1>11. CASE UNCHANGED vars
  BY <1>2, <1>11 DEF vars
<1> QED
  BY <1>3, <1>4, <1>5, <1>6, <1>7, <1>8, <1>9, <1>10, <1>11 DEF Next

\* No node repeats its own report within the window, unless somebody announced the end
\* meanwhile: whatever is lost, however often nodes stop, and whatever the others say
\* (decide, LatestNotice, InsertNotices).
THEOREM NoNodeEchoes == Spec => []NobodyEchoes
<1>1. Spec => []EchoInv
  BY EchoInit, EchoNext, PTL DEF Spec
<1> QED
  BY <1>1, EchoImplies, PTL

-----------------------------------------------------------------------------
\* What a message rests on, while no node stops: a node that runs checks a peer it has met
\* in every period.

\* The failures of a run that lasts are as many as its periods, the check of this one
\* included once it is written; a run of successes follows the last failure at once, if the
\* node knew the peer from the beginning.
Run(n, e) ==
  /\ e.failedAt >= -1
  /\ e.found => n \in met
  /\ e.found /\ ~e.ok => LET last == IF n \in checked THEN now ELSE now - 1
                         IN  e.failures > last - e.since /\ e.failedAt >= last
  /\ Late = {} => /\ e.found
                  /\ e.ok => e.since = 0 \/ e.failedAt >= e.since - 1

\* What BlipsAreQuiet and RecoveryIsOwn say of a message.
Grounded(c) == /\ c.down => c.failures >= DownAfter
               /\ Late = {} /\ ~c.down => c.failedAt >= c.announced

RunInv ==
  /\ Typed /\ Ordered
  /\ up = Node
  /\ \A n \in Node, x \in Target : Run(n, edge[n][x])
  /\ \A n \in Node : sending[n].step = "send" => Grounded(sending[n].message)
  /\ \A i \in 1..Len(chat) : Grounded(chat[i])

LEMMA RunInit == Init => RunInv
<1> SUFFICES ASSUME Init
             PROVE  RunInv
  OBVIOUS
<1>1. \A n \in Node : sending[n].step = "none"
  BY DEF Init, NoMessage
<1>2. chat = <<>> /\ 1..Len(chat) = {}
  BY DEF Init
<1>3. ASSUME NEW n \in Node, NEW x \in Target
      PROVE  Run(n, edge[n][x])
  <2>1. edge[n][x] = IF n \in Late THEN Unmet ELSE Fine
    BY <1>3 DEF Init
  <2>2. CASE n \in Late
    BY <2>1, <2>2 DEF Run, Unmet
  <2>3. CASE n \notin Late
    <3>1. Fine.ok /\ Fine.failedAt = -1 /\ Fine.since = 0 /\ Fine.found
      BY DEF Fine, Unmet
    <3>2. n \in met
      BY <2>3 DEF Init
    <3> QED
      BY <2>1, <2>3, <3>1, <3>2 DEF Run
  <2> QED
    BY <2>2, <2>3
<1>4. up = Node
  BY DEF Init
<1> QED
  BY <1>1, <1>2, <1>3, <1>4, TypedInit DEF RunInv

\* A check takes the run of its route on by a period.
LEMMA StreakRuns ==
  ASSUME RunInv, NEW n \in Node, NEW x \in Target, NEW ok \in BOOLEAN,
         NEW s, s = Streak(edge[n][x], ok),
         n \notin checked, n \in met, checked' = checked \cup {n}, now' = now, met' = met
  PROVE  Run(n, s)'
<1> DEFINE e == edge[n][x]
<1>1. e \in Edge /\ now \in Nat /\ Run(n, e)
  BY Constants DEF RunInv, Typed, Period
<1>2. e.since \in Nat /\ e.failedAt \in Int /\ e.failures \in Nat
  BY <1>1, Constants DEF Edge, Period
<1>3. /\ s.found
      /\ s.ok = ok
      /\ s.since = IF e.found /\ e.ok = ok THEN e.since ELSE now
      /\ s.failedAt = IF ok THEN e.failedAt ELSE now
      /\ s.failures = IF ok THEN 0 ELSE e.failures + 1
  BY DEF Streak, RunBegan
<1>4. e.found \in BOOLEAN /\ e.ok \in BOOLEAN
  BY <1>1 DEF Edge
<1> HIDE DEF e
<1>5. s.failedAt >= -1
  BY <1>1, <1>2, <1>3 DEF Run
<1>6. CASE ok
  <2>1. Late = {} => s.since = 0 \/ s.failedAt >= s.since - 1
    <3>1. CASE e.found /\ e.ok
      <4>1. s.since = e.since /\ s.failedAt = e.failedAt
        BY <1>3, <1>4, <1>6, <3>1
      <4> QED
        BY <1>1, <3>1, <4>1 DEF Run
    <3>2. CASE ~(e.found /\ e.ok)
      <4>1. s.since = now /\ s.failedAt = e.failedAt
        BY <1>3, <1>4, <1>6, <3>2
      <4> QED
        BY <1>1, <1>2, <3>2, <4>1 DEF Run
    <3> QED
      BY <3>1, <3>2
  <2>2. s.found /\ s.ok
    BY <1>3, <1>6
  <2> QED
    BY <1>5, <2>1, <2>2 DEF Run
<1>7. CASE ~ok
  <2>1. s.found /\ ~s.ok /\ s.failedAt = now /\ s.failures = e.failures + 1
    BY <1>3, <1>7
  <2>2. s.failures > now - s.since
    <3>1. CASE e.found /\ ~e.ok
      <4>1. s.since = e.since
        BY <1>3, <1>4, <1>7, <3>1
      <4> QED
        BY <1>1, <1>2, <2>1, <3>1, <4>1 DEF Run
    <3>2. CASE ~(e.found /\ ~e.ok)
      <4>1. s.since = now
        BY <1>3, <1>4, <1>7, <3>2
      <4> QED
        BY <1>1, <1>2, <2>1, <4>1
    <3> QED
      BY <3>1, <3>2
  <2> QED
    BY <1>1, <1>5, <2>1, <2>2 DEF Run
<1> QED
  BY <1>6, <1>7

\* A message a node decides on is grounded.
LEMMA DecidedIsGrounded ==
  ASSUME RunInv, NEW n \in Node, NEW x \in Target, edge[n][x].found,
         Decide(edge[n][x], LatestNotice(n, x), RankDelay(n))
  PROVE  Grounded(MessageOf(n, x))
<1> DEFINE e == edge[n][x]
           last == LatestNotice(n, x)
<1>1. e \in Edge /\ now \in Nat /\ Run(n, e)
  BY Constants DEF RunInv, Typed, Period
<1>2. e.since \in Nat /\ e.failedAt \in Int /\ e.failures \in Nat
  BY <1>1, Constants DEF Edge, Period
<1>3. RankDelay(n) \in Nat
  BY RankDelayIs
<1>4. CASE ~e.ok
  <2>1. now - e.since >= DownAfter + RankDelay(n)
    BY <1>4 DEF Decide
  <2>2. e.failures > now - 1 - e.since
    BY <1>1, <1>2, <1>4 DEF Run
  <2>3. e.failures >= DownAfter
    BY <1>1, <1>2, <1>3, <2>1, <2>2, Constants
  <2> QED
    BY <1>4, <2>3 DEF Grounded, MessageOf
<1>5. CASE e.ok
  <2> SUFFICES ASSUME Late = {}
               PROVE  e.failedAt >= Greatest({-1} \cup {k.at : k \in last})
    BY <1>5 DEF Grounded, MessageOf
  <2>1. last \in SUBSET Announced
    BY DEF LatestNotice, RunInv, Ordered
  <2>2. \A k \in last : e.since > k.at /\ k.at \in Nat
    BY <1>5, <2>1, AnnouncedType DEF Decide, RunInv
  <2>3. e.failedAt >= -1 /\ (e.since = 0 \/ e.failedAt >= e.since - 1)
    BY <1>1, <1>5 DEF Run
  <2>4. \A k \in last : e.failedAt >= k.at
    BY <1>2, <2>2, <2>3
  <2>5. \/ Greatest({-1} \cup {k.at : k \in last}) = -1
        \/ \E l \in last : Greatest({-1} \cup {k.at : k \in last}) = l.at
    BY <2>1, GreatestAt DEF RunInv
  <2> QED
    BY <2>3, <2>4, <2>5
<1> QED
  BY <1>4, <1>5

Routes   == \A n \in Node, x \in Target : Run(n, edge[n][x])
Messages == /\ \A n \in Node : sending[n].step = "send" => Grounded(sending[n].message)
            /\ \A i \in 1..Len(chat) : Grounded(chat[i])

\* Only time, checks and acquaintances touch the runs.
LEMMA RoutesNext == ASSUME RunInv, [Next]_vars PROVE Routes'
<1> USE DEF RunInv
<1>1. ASSUME UNCHANGED <<now, edge, checked, met>>
      PROVE  Routes'
  BY <1>1 DEF Routes, Run
<1>2. CASE Tick
  <2>1. UNCHANGED <<edge, met>> /\ now' = now + 1 /\ checked' = {} /\ checked = Node
    BY <1>2 DEF Tick, Typed
  <2>2. now \in Nat
    BY Constants DEF Typed, Period
  <2> SUFFICES ASSUME NEW n \in Node, NEW x \in Target
               PROVE  Run(n, edge[n][x])'
    BY DEF Routes
  <2>3. Run(n, edge[n][x]) /\ n \in checked /\ n \notin checked' /\ now' - 1 = now
    BY <2>1, <2>2
  <2>4. edge'[n][x] = edge[n][x]
    BY <2>1
  <2> QED
    BY <2>1, <2>3, <2>4 DEF Run
<1>3. ASSUME NEW n \in Node, Check(n)
      PROVE  Routes'
  <2>1. n \notin checked /\ checked' = checked \cup {n} /\ UNCHANGED <<now, met>>
    BY <1>3 DEF Check
  <2> SUFFICES ASSUME NEW m \in Node, NEW x \in Target
               PROVE  Run(m, edge[m][x])'
    BY DEF Routes
  <2>2. CASE m = n /\ n \in met
    <3>1. edge'[m][x] = Streak(edge[n][x], link[n][x])
      BY <1>3, <2>2 DEF Check, Typed
    <3>2. link[n][x] \in BOOLEAN
      BY DEF Typed
    <3> DEFINE s == Streak(edge[n][x], link[n][x])
    <3>3. \A t : t = s => Run(n, t)'
      BY <2>1, <2>2, <3>2, StreakRuns
    <3> QED
      BY <2>2, <3>1, <3>3 DEF Run
  <2>3. CASE m = n /\ n \notin met
    <3>1. edge'[m][x] = edge[m][x]
      BY <1>3, <2>3 DEF Check
    <3>2. Run(m, edge[m][x]) /\ ~edge[m][x].found
      BY <2>3 DEF Run
    <3> QED
      BY <2>1, <3>1, <3>2 DEF Run
  <2>4. CASE m # n
    <3>1. edge'[m][x] = edge[m][x] /\ (m \in checked' <=> m \in checked)
      BY <1>3, <2>1, <2>4 DEF Check, Typed
    <3>2. Run(m, edge[m][x])
      OBVIOUS
    <3> QED
      BY <2>1, <3>1, <3>2 DEF Run
  <2> QED
    BY <2>2, <2>3, <2>4
<1>4. ASSUME NEW n \in Node, Meet(n)
      PROVE  Routes'
  BY <1>4 DEF Meet, Routes, Run
<1>5. ASSUME NEW x \in Target, Change(x)
      PROVE  Routes'
  BY <1>1, <1>5 DEF Change
<1>6. ASSUME NEW n \in Node, \/ \E x \in Target : Consider(n, x)
                             \/ Send(n) \/ Record(n) \/ Fail(n)
                             \/ Push(n)
                             \/ Stop(n) \/ Start(n)
      PROVE  Routes'
  BY <1>1, <1>6 DEF Consider, Send, Record, Fail, Push, Stop, Start
<1>7. ASSUME NEW p \in mail, Receive(p) \/ Lose(p)
      PROVE  Routes'
  BY <1>1, <1>7 DEF Receive, Lose
<1>8. CASE UNCHANGED vars
  BY <1>1, <1>8 DEF vars
<1> QED
  BY <1>2, <1>3, <1>4, <1>5, <1>6, <1>7, <1>8 DEF Next

LEMMA MessagesNext == ASSUME RunInv, [Next]_vars PROVE Messages'
<1> USE DEF RunInv
<1>1. ASSUME UNCHANGED chat,
             \A n \in Node : sending'[n] = NoMessage \/ sending'[n] = sending[n]
      PROVE  Messages'
  BY <1>1 DEF Messages, Grounded, NoMessage
<1>2. CASE Tick
  BY <1>1, <1>2 DEF Tick
<1>3. ASSUME NEW x \in Target, Change(x)
      PROVE  Messages'
  BY <1>1, <1>3 DEF Change
<1>4. ASSUME NEW n \in Node, Check(n) \/ Meet(n) \/ Push(n) \/ Start(n)
      PROVE  Messages'
  BY <1>1, <1>4 DEF Check, Meet, Push, Start
<1>5. ASSUME NEW n \in Node, Fail(n) \/ Stop(n)
      PROVE  Messages'
  <2>1. UNCHANGED chat /\ sending' = [sending EXCEPT ![n] = NoMessage]
    BY <1>5 DEF Fail, Stop
  <2> QED
    BY <1>1, <2>1 DEF Typed
<1>6. ASSUME NEW n \in Node, NEW x \in Target, Consider(n, x)
      PROVE  Messages'
  <2>1. CASE sending' = sending
    BY <1>1, <1>6, <2>1 DEF Consider
  <2>2. CASE /\ edge[n][x].found
             /\ Decide(edge[n][x], LatestNotice(n, x), RankDelay(n))
             /\ sending' = [sending EXCEPT ![n] = [step |-> "send", message |-> MessageOf(n, x)]]
    <3>1. Grounded(MessageOf(n, x))
      BY <2>2, DecidedIsGrounded
    <3>2. UNCHANGED chat
      BY <1>6 DEF Consider
    <3>3. /\ sending'[n].step = "send" /\ sending'[n].message = MessageOf(n, x)
          /\ \A m \in Node \ {n} : sending'[m] = sending[m]
      BY <2>2 DEF Typed
    <3>4. ASSUME NEW m \in Node, sending'[m].step = "send"
          PROVE  Grounded(sending'[m].message)
      BY <3>1, <3>3, <3>4
    <3> QED
      BY <3>2, <3>4 DEF Messages, Grounded
  <2> QED
    BY <1>6, <2>1, <2>2, ConsiderIs
<1>7. ASSUME NEW n \in Node, Send(n)
      PROVE  Messages'
  <2>1. /\ Len(chat) \in Nat
        /\ Len(chat') = Len(chat) + 1
        /\ chat'[Len(chat) + 1] = sending[n].message
        /\ \A i \in 1..Len(chat) : chat'[i] = chat[i]
    BY <1>7, SendIs
  <2>2. sending[n].step = "send"
    BY <1>7 DEF Send
  <2>3. \A m \in Node : sending'[m].step = "send" => sending'[m] = sending[m]
    BY <1>7 DEF Send, Typed
  <2>4. \A i \in 1..Len(chat') : Grounded(chat'[i])
    BY <2>1, <2>2
  <2> QED
    BY <2>3, <2>4 DEF Messages, Grounded
<1>8. ASSUME NEW n \in Node, Record(n)
      PROVE  Messages'
  <2>1. \A i \in 1..Len(chat) : /\ chat'[i].down = chat[i].down
                                /\ chat'[i].announced = chat[i].announced
                                /\ chat'[i].failedAt = chat[i].failedAt
                                /\ chat'[i].failures = chat[i].failures
    BY <1>8, RecordChat
  <2>2. Len(chat') = Len(chat)
    BY <1>8, RecordChat
  <2>3. sending' = [sending EXCEPT ![n] = NoMessage]
    BY <1>8 DEF Record
  <2>4. \A m \in Node : sending'[m].step = "send" => sending'[m] = sending[m]
    BY <2>3 DEF Typed, NoMessage
  <2> QED
    BY <2>1, <2>2, <2>4 DEF Messages, Grounded
<1>9. ASSUME NEW p \in mail, Receive(p) \/ Lose(p)
      PROVE  Messages'
  BY <1>1, <1>9 DEF Receive, Lose
<1>10. CASE UNCHANGED vars
  BY <1>1, <1>10 DEF vars
<1> QED
  BY <1>2, <1>3, <1>4, <1>5, <1>6, <1>7, <1>8, <1>9, <1>10 DEF Next

LEMMA RunNext == ASSUME MaxStops = 0 PROVE RunInv /\ [Next]_vars => RunInv'
<1> SUFFICES ASSUME RunInv, [Next]_vars
             PROVE  RunInv'
  OBVIOUS
<1>1. Typed' /\ Ordered'
  BY TypedNext DEF RunInv
<1>2. up' = Node
  <2>1. stops = 0
    BY DEF RunInv, Typed
  <2>2. ASSUME NEW n \in Node, Stop(n) \/ Start(n)
        PROVE  FALSE
    BY <2>1, <2>2 DEF Stop, Start, RunInv
  <2>3. UNCHANGED up
    BY <2>2 DEF Next, vars, Tick, Change, Check, Meet, Consider, Send, Record, Fail, Push,
                Receive, Lose
  <2> QED
    BY <2>3 DEF RunInv
<1> QED
  BY <1>1, <1>2, RoutesNext, MessagesNext DEF RunInv, Routes, Messages

LEMMA RunAlways == ASSUME MaxStops = 0 PROVE Spec => []RunInv
  BY RunInit, RunNext, PTL DEF Spec

\* Where no node stops, "a blip shorter than DownAfterSeconds is not reported at all": the
\* node that reports an outage has found the peer down at every check of that time, whoever
\* was met late and whatever the routes did (EdgeStreak, decide).
THEOREM ReportsAreEarned ==
  ASSUME MaxStops = 0
  PROVE  Spec => []BlipsAreQuiet
<1>1. RunInv => BlipsAreQuiet
  BY DEF RunInv, Grounded, BlipsAreQuiet
<1> QED
  BY <1>1, RunAlways, PTL

\* Where no node stops and none is met late, a node announces the end of an outage that it
\* has seen itself, at a check since the report or in its period (decide).
THEOREM RecoveriesAreOwn ==
  ASSUME MaxStops = 0, Late = {}
  PROVE  Spec => []RecoveryIsOwn
<1>1. RunInv => RecoveryIsOwn
  BY DEF RunInv, Grounded, RecoveryIsOwn
<1> QED
  BY <1>1, RunAlways, PTL

-----------------------------------------------------------------------------
\* One voice, where no node stops or comes late and all of them have the same routes.

\* A notice arrives before a report or a recovery it bears on may be due, and before the
\* next node's turn, whatever fails.
Margins == /\ MaxStops = 0 /\ Late = {} /\ ~OwnRoutes
           /\ DownAfter > Delay
           /\ UpAfter >= Delay /\ UpAfter >= 1
           /\ Repeat > Delay
           /\ Stagger > Delay + MaxFailures

\* Decide, at the instant s and for a node that waits for nobody.
Ripe(e, last, s) ==
  IF e.ok
  THEN /\ last # {}
       /\ \A k \in last : k.down /\ e.since > k.at
       /\ e.since + UpAfter <= s
  ELSE /\ e.since + DownAfter <= s
       /\ \A k \in last : k.down => e.since + Repeat <= s /\ k.at + Repeat <= s

\* Whether n would announce x in period t, as things are.
Comes(n, x, t) == Ripe(edge[n][x], LatestNotice(n, x), t - RankDelay(n))

\* The message n is at is about x.
Speaking(n, x) == \/ sending[n].step = "send" /\ sending[n].message.to = x
                  \/ sending[n].step = "record" /\ chat[sending[n].index].to = x

\* The messages on their way; those that are recorded or may be yet; all of them, and those
\* of them that are not given up.
Deciding == {sending[n].message : n \in {m \in Node : sending[m].step = "send"}}

Held(i)  == \/ chat[i].recorded
            \/ \E n \in Node : sending[n].step = "record" /\ sending[n].index = i

Spoken == {chat[i] : i \in 1..Len(chat)} \cup Deciding
Live   == {chat[i] : i \in {j \in 1..Len(chat) : Held(j)}} \cup Deciding

\* k is the notice of the message c.
IsOf(k, c) == k.from = c.by /\ k.to = c.to /\ k.at = c.at /\ k.down = c.down

Heard(q, c) == \E k \in notices[q] : IsOf(k, c)

\* The routes of all nodes are alike; only those that have checked in this period may know
\* of a change that the others do not.
AlikeAt(n, m, x) ==
  /\ link[n][x] = link[m][x]
  /\ edge[n][x].since <= now
  /\ n \in checked => edge[n][x].ok = link[n][x]
  /\ n \notin checked => edge[n][x].since < now
  /\ \/ edge[n][x].ok = edge[m][x].ok /\ edge[n][x].since = edge[m][x].since
     \/ edge[n][x].ok # edge[m][x].ok /\ n \in checked /\ m \notin checked /\ edge[n][x].since = now
     \/ edge[n][x].ok # edge[m][x].ok /\ m \in checked /\ n \notin checked /\ edge[m][x].since = now

Alike == \A n, m \in Node, x \in Target : AlikeAt(n, m, x)

Arrived == \A k \in Announced, m \in Node : k.at + Delay < now => k \in notices[m]

InOrder == \A i, j \in 1..Len(chat) : chat[i].at <= now /\ (i < j => chat[i].at <= chat[j].at)

\* Every notice has its message, and every recorded message its notice.
Sources == \A k \in Announced : \E h \in 1..Len(chat) : IsOf(k, chat[h]) /\ chat[h].recorded
Noted   == \A h \in 1..Len(chat) : chat[h].recorded => \E k \in Announced : IsOf(k, chat[h])

\* A run of the other kind began with the message's period or later; one of the same kind
\* later, or it is the run the message was about.
Dated(c) ==
  \A q \in Node :
    LET e == edge[q][c.to]
    IN  IF e.ok = c.down THEN e.since >= c.at
        ELSE \/ e.since > c.at
             \/ e.since + (IF c.down THEN DownAfter ELSE UpAfter) <= c.at

AllDated == \A c \in Spoken : Dated(c)

\* In one period nobody says what another contradicts.
Agreed == \A c, d \in Spoken : c.to = d.to /\ c.at = d.at => c.down = d.down

\* A node whose turn has come is late by as many periods as messages failed.
Pending(n, x) == x \in due[n] \/ Speaking(n, x)

Retried ==
  \A n \in Node, x \in Target, late \in Nat :
    Comes(n, x, now - late) => failures >= late /\ (failures > late \/ Pending(n, x))

\* Until it has heard of a message, no other node's turn comes.
Waits(c, q) ==
  (/\ q # c.by
   /\ edge[q][c.to].ok # c.down
   /\ edge[q][c.to].since <= c.at
   /\ ~Heard(q, c))
    => ~Comes(q, c.to, c.at + Delay)

Staggered == \A c \in Live, q \in Node : Waits(c, q)

Alone == \A n, m \in Node, x \in Target : Speaking(n, x) /\ Speaking(m, x) => n = m

\* What OneVoice and RecoveryAnswersReport say of the message c, were it the j-th.
Voice(c, j) ==
  \A i \in 1..Len(chat) :
    (i < j /\ chat[i].to = c.to /\ chat[i].down /\ c.down /\ Held(i)
           /\ c.at - chat[i].at < Repeat)
      => \E h \in 1..Len(chat) : i < h /\ h < j /\ chat[h].to = c.to /\ ~chat[h].down

Answer(c, j) ==
  ~c.down =>
    \E i \in 1..Len(chat) :
      /\ i < j /\ chat[i].to = c.to /\ chat[i].down
      /\ \A h \in 1..Len(chat) : i < h /\ h < j /\ chat[h].to = c.to /\ Held(h) => chat[h].down

Voices == /\ \A j \in 1..Len(chat) : Voice(chat[j], j) /\ Answer(chat[j], j)
          /\ \A n \in Node : sending[n].step = "send" =>
               /\ Voice(sending[n].message, Len(chat) + 1)
               /\ Answer(sending[n].message, Len(chat) + 1)

VoiceInv == /\ EchoInv /\ RunInv
            /\ Alike /\ Arrived /\ InOrder /\ Sources /\ Noted
            /\ AllDated /\ Agreed /\ Retried /\ Staggered /\ Alone /\ Voices

\* The numbers the windows are compared with.
LEMMA Numbers ==
  ASSUME Typed, Ordered
  PROVE  /\ now \in Nat /\ failures \in Nat /\ failures <= MaxFailures
         /\ \A n \in Node, x \in Target : /\ edge[n][x].since \in Nat
                                          /\ edge[n][x].ok \in BOOLEAN
                                          /\ link[n][x] \in BOOLEAN
                                          /\ RankDelay(n) \in Nat
         /\ \A i \in 1..Len(chat) : /\ chat[i] \in Message
                                    /\ chat[i].by \in Node
                                    /\ chat[i].to \in Target
                                    /\ chat[i].down \in BOOLEAN
                                    /\ chat[i].at \in Nat
         /\ \A k \in Announced : /\ k.from \in Node
                                 /\ k.to \in Target
                                 /\ k.at \in Nat
                                 /\ k.down \in BOOLEAN
         /\ Len(chat) \in Nat
<1>1. now \in Nat /\ failures \in Nat /\ failures <= MaxFailures
  BY Constants DEF Typed, Period
<1>2. ASSUME NEW n \in Node, NEW x \in Target
      PROVE  /\ edge[n][x].since \in Nat
             /\ edge[n][x].ok \in BOOLEAN
             /\ link[n][x] \in BOOLEAN
             /\ RankDelay(n) \in Nat
  <2>1. edge[n][x] \in Edge /\ link[n][x] \in BOOLEAN
    BY DEF Typed
  <2>2. RankDelay(n) \in Nat
    BY RankDelayIs
  <2> QED
    BY <2>1, <2>2, Constants DEF Edge, Period
<1>3. ASSUME NEW i \in 1..Len(chat)
      PROVE  /\ chat[i] \in Message
             /\ chat[i].by \in Node
             /\ chat[i].to \in Target
             /\ chat[i].down \in BOOLEAN
             /\ chat[i].at \in Nat
  <2>1. chat[i] \in Message
    BY DEF Typed
  <2> QED
    BY <2>1, Constants DEF Message, Period
<1>4. ASSUME NEW k \in Announced
      PROVE  /\ k.from \in Node
             /\ k.to \in Target
             /\ k.at \in Nat
             /\ k.down \in BOOLEAN
  <2>1. k \in Notice /\ k.at \in Nat
    BY AnnouncedType
  <2> QED
    BY <2>1 DEF Notice
<1>5. Len(chat) \in Nat
  BY DEF Typed
<1> QED
  BY <1>1, <1>2, <1>3, <1>4, <1>5

\* A node sees only notices that there are.
LEMMA LatestAnnounced ==
  ASSUME Typed, Ordered, NEW n \in Node, NEW x \in Target, NEW l \in LatestNotice(n, x)
  PROVE  /\ l \in Announced /\ l \in notices[n] /\ l.to = x
         /\ l.at \in Nat /\ l.down \in BOOLEAN
<1>1. l \in Announced /\ l \in notices[n] /\ l.to = x
  BY DEF LatestNotice, Ordered
<1> QED
  BY <1>1, Numbers

\* What decide reads is what makes a target ripe.
LEMMA DecideIsRipe ==
  ASSUME Typed, Ordered, NEW n \in Node, NEW x \in Target
  PROVE  Decide(edge[n][x], LatestNotice(n, x), RankDelay(n)) <=> Comes(n, x, now)
<1> DEFINE e == edge[n][x]
           last == LatestNotice(n, x)
           d == RankDelay(n)
<1>1. /\ now \in Nat /\ e.since \in Nat /\ e.ok \in BOOLEAN /\ d \in Nat
      /\ DownAfter \in Nat /\ UpAfter \in Nat /\ Repeat \in Nat
  BY Numbers, Constants
<1>2. \A k \in last : k.at \in Nat
  BY LatestAnnounced
<1> SUFFICES Decide(e, last, d) <=> Ripe(e, last, now - d)
  BY DEF Comes
<1> HIDE DEF e, last, d
<1>3. CASE e.ok
  <2>1. Decide(e, last, d) <=> /\ last # {}
                               /\ \A k \in last : k.down /\ e.since > k.at
                               /\ now - e.since >= UpAfter + d
    BY <1>3 DEF Decide
  <2>2. now - e.since >= UpAfter + d <=> e.since + UpAfter <= now - d
    BY <1>1
  <2> QED
    BY <1>3, <2>1, <2>2 DEF Ripe
<1>4. CASE ~e.ok
  <2>1. ASSUME NEW k \in last
        PROVE  (LET quiet == IF e.since > k.at THEN e.since ELSE k.at
                IN  now - quiet >= Repeat + d)
               <=> e.since + Repeat <= now - d /\ k.at + Repeat <= now - d
    BY <1>1, <1>2
  <2>2. now - e.since >= DownAfter + d <=> e.since + DownAfter <= now - d
    BY <1>1
  <2>3. Decide(e, last, d) <=> /\ e.since + DownAfter <= now - d
                               /\ \A k \in last : k.down => /\ e.since + Repeat <= now - d
                                                            /\ k.at + Repeat <= now - d
    BY <1>4, <2>1, <2>2 DEF Decide
  <2> QED
    BY <1>4, <2>3 DEF Ripe
<1> QED
  BY <1>3, <1>4

\* What is ripe stays so; and two nodes that see the same run and, of a failure, the same
\* notice agree on when it is.
LEMMA RipeLater ==
  ASSUME NEW e, NEW f, NEW S, NEW T, NEW s \in Int, NEW r \in Int, NEW t \in Int,
         e.since \in Nat, f.since = e.since, f.ok = e.ok, e.ok \in BOOLEAN,
         \A k \in S : k.at \in Nat,
         Ripe(e, S, s), ~e.ok => T = S, Ripe(f, T, r), s <= t
  PROVE  Ripe(f, T, t)
<1>1. DownAfter \in Nat /\ UpAfter \in Nat /\ Repeat \in Nat
  BY Constants
<1>2. CASE e.ok
  <2>1. e.since + UpAfter <= s
    BY <1>2 DEF Ripe
  <2>2. f.since + UpAfter <= t
    BY <1>1, <2>1
  <2>3. T # {} /\ \A k \in T : k.down /\ f.since > k.at
    BY <1>2 DEF Ripe
  <2> QED
    BY <1>2, <2>2, <2>3 DEF Ripe
<1>3. CASE ~e.ok
  <2>1. T = S /\ e.since + DownAfter <= s
    BY <1>3 DEF Ripe
  <2>2. f.since + DownAfter <= t
    BY <1>1, <2>1
  <2>3. ASSUME NEW k \in T, k.down
        PROVE  f.since + Repeat <= t /\ k.at + Repeat <= t
    <3>1. e.since + Repeat <= s /\ k.at + Repeat <= s /\ k.at \in Nat
      BY <1>3, <2>1, <2>3 DEF Ripe
    <3> QED
      BY <1>1, <3>1
  <2> QED
    BY <1>3, <2>2, <2>3 DEF Ripe
<1> QED
  BY <1>2, <1>3

LEMMA ComesLater ==
  ASSUME Typed, Ordered, NEW n \in Node, NEW x \in Target, NEW s \in Int, NEW t \in Int,
         Comes(n, x, s), s <= t
  PROVE  Comes(n, x, t)
<1> DEFINE e == edge[n][x]
           S == LatestNotice(n, x)
           d == RankDelay(n)
<1>1. e.since \in Nat /\ e.ok \in BOOLEAN /\ d \in Nat
  BY Numbers
<1>2. \A k \in S : k.at \in Nat
  BY LatestAnnounced
<1>3. Ripe(e, S, s - d)
  BY DEF Comes
<1>4. s - d \in Int /\ t - d \in Int /\ s - d <= t - d
  BY <1>1
<1> HIDE DEF e, S, d
<1>5. Ripe(e, S, t - d)
  BY <1>1, <1>2, <1>3, <1>4, RipeLater
<1> QED
  BY <1>5 DEF Comes, e, S, d

\* A target is not ripe before its run has lasted, nor where the latest notice may still be
\* on its way to somebody.
LEMMA RipeSince ==
  ASSUME Margins, NEW e, NEW S, NEW s \in Int, e.since \in Nat, e.ok \in BOOLEAN, Ripe(e, S, s)
  PROVE  /\ e.since + Delay <= s /\ e.since < s
         /\ e.since + (IF ~e.ok THEN DownAfter ELSE UpAfter) <= s
         /\ ~e.ok => e.since + Delay < s
<1>1. DownAfter \in Nat /\ UpAfter \in Nat /\ Delay \in Nat
  BY Constants
<1>2. CASE e.ok
  BY <1>1, <1>2 DEF Ripe, Margins
<1>3. CASE ~e.ok
  BY <1>1, <1>3 DEF Ripe, Margins
<1> QED
  BY <1>2, <1>3

LEMMA RipeWindow ==
  ASSUME Margins, NEW e, NEW S, NEW s \in Int, e.since \in Nat, e.ok \in BOOLEAN, Ripe(e, S, s),
         NEW l \in S, l.at \in Nat, ~l.down /\ ~e.ok => e.since >= l.at
  PROVE  l.at + Delay < s
<1>1. DownAfter \in Nat /\ UpAfter \in Nat /\ Delay \in Nat /\ Repeat \in Nat
  BY Constants
<1>2. CASE e.ok
  <2>1. e.since > l.at /\ e.since + UpAfter <= s
    BY <1>2 DEF Ripe
  <2> QED
    BY <1>1, <2>1 DEF Margins
<1>3. CASE ~e.ok /\ l.down
  <2>1. l.at + Repeat <= s
    BY <1>3 DEF Ripe
  <2> QED
    BY <1>1, <2>1 DEF Margins
<1>4. CASE ~e.ok /\ ~l.down
  <2>1. e.since + DownAfter <= s /\ e.since >= l.at
    BY <1>4 DEF Ripe
  <2> QED
    BY <1>1, <2>1 DEF Margins
<1> QED
  BY <1>2, <1>3, <1>4

\* Two nodes' turns are a stagger apart.
LEMMA StaggersApart ==
  ASSUME NEW n \in Node, NEW m \in Node, n # m
  PROVE  \/ RankDelay(n) + Stagger <= RankDelay(m)
         \/ RankDelay(m) + Stagger <= RankDelay(n)
<1>1. \A a, b, s \in Nat : a < b => a * s + s <= b * s
  <2> SUFFICES ASSUME NEW a \in Nat, NEW b \in Nat, NEW s \in Nat, a < b
               PROVE  a * s + s <= b * s
    OBVIOUS
  <2>1. b - a - 1 \in Nat
    OBVIOUS
  <2>2. (b - a - 1) * s \in Nat
    BY <2>1
  <2>3. b * s = a * s + s + (b - a - 1) * s
    OBVIOUS
  <2>4. a * s \in Nat /\ b * s \in Nat
    OBVIOUS
  <2> QED
    BY <2>2, <2>3, <2>4
<1>2. Rank[n] \in 0..(Cardinality(Node) - 1) /\ Rank[m] \in 0..(Cardinality(Node) - 1)
  BY AlertsAssumption
<1>3. Rank[n] \in Nat /\ Rank[m] \in Nat /\ Rank[n] # Rank[m]
  BY <1>2, AlertsAssumption
<1>4. Rank[n] < Rank[m] \/ Rank[m] < Rank[n]
  BY <1>3
<1> QED
  BY <1>1, <1>3, <1>4, Constants DEF RankDelay

-----------------------------------------------------------------------------
\* What a step may do to what is said.

\* A step that touches nothing of it.
Still == UNCHANGED <<now, edge, due, checked, sending, notices, chat, failures>>

Same(c, d) == c.by = d.by /\ c.to = d.to /\ c.at = d.at /\ c.down = d.down

\* n decides to send c.
Decided(n, x, c) == /\ Consider(n, x)
                    /\ Comes(n, x, now)
                    /\ c = MessageOf(n, x)
                    /\ sending' = [sending EXCEPT ![n] = [step |-> "send", message |-> c]]

LEMMA StepsAre ==
  ASSUME Margins, RunInv, [Next]_vars
  PROVE  \/ Tick
         \/ Still
         \/ \E n \in Node : \/ Check(n) \/ Send(n) \/ Record(n) \/ Fail(n)
                            \/ \E x \in Target : Consider(n, x)
         \/ \E p \in mail : Receive(p)
<1>1. stops = 0 /\ up = Node /\ MaxStops = 0
  BY DEF RunInv, Typed, Margins
<1>2. ASSUME NEW n \in Node, Stop(n) \/ Start(n)
      PROVE  FALSE
  BY <1>1, <1>2 DEF Stop, Start
<1>3. ASSUME NEW x \in Target, Change(x)
      PROVE  Still
  BY <1>3 DEF Change, Still
<1>4. ASSUME NEW n \in Node, Meet(n) \/ Push(n)
      PROVE  Still
  BY <1>4 DEF Meet, Push, Still, counts
<1>5. ASSUME NEW p \in mail, Lose(p)
      PROVE  Still
  BY <1>5 DEF Lose, Still
<1>6. CASE UNCHANGED vars
  BY <1>6 DEF vars, counts, Still
<1> QED
  BY <1>2, <1>3, <1>4, <1>5, <1>6 DEF Next

\* A check takes a run on, or begins one.
LEMMA CheckIs ==
  ASSUME Margins, RunInv, NEW p \in Node, Check(p)
  PROVE  /\ UNCHANGED <<now, link, due, sending, notices, chat, failures>>
         /\ p \notin checked /\ checked' = checked \cup {p}
         /\ \A n \in Node \ {p}, x \in Target : edge'[n][x] = edge[n][x]
         /\ \A x \in Target :
              /\ edge'[p][x].ok = link[p][x]
              /\ edge'[p][x].since = IF edge[p][x].ok = link[p][x] THEN edge[p][x].since ELSE now
<1> USE DEF RunInv
<1>1. ASSUME NEW x \in Target
      PROVE  /\ edge'[p][x].ok = link[p][x]
             /\ edge'[p][x].since = IF edge[p][x].ok = link[p][x] THEN edge[p][x].since ELSE now
  <2>1. edge[p][x].found /\ p \in met
    BY DEF Run, Margins
  <2>2. edge'[p][x] = Streak(edge[p][x], link[p][x])
    BY <2>1 DEF Check, Typed
  <2> QED
    BY <2>1, <2>2 DEF Streak, RunBegan
<1> QED
  BY <1>1 DEF Check, Typed, counts

\* To consider a target is to decide on it, or to find that its turn has not come.
LEMMA ConsiderDecides ==
  ASSUME Margins, RunInv, NEW n \in Node, NEW x \in Target, Consider(n, x)
  PROVE  \/ sending' = sending /\ ~Comes(n, x, now)
         \/ Decided(n, x, MessageOf(n, x))
<1>1. Decide(edge[n][x], LatestNotice(n, x), RankDelay(n)) <=> Comes(n, x, now)
  BY DecideIsRipe DEF RunInv
<1>2. CASE Comes(n, x, now) /\ edge[n][x].found
  <2>1. sending' = [sending EXCEPT ![n] = [step |-> "send", message |-> MessageOf(n, x)]]
    BY <1>1, <1>2 DEF Consider, MessageOf
  <2> QED
    BY <1>2, <2>1 DEF Decided
<1>3. CASE ~Comes(n, x, now) /\ edge[n][x].found
  BY <1>1, <1>3 DEF Consider
<1>4. edge[n][x].found
  BY DEF RunInv, Run, Margins
<1> QED
  BY <1>2, <1>3, <1>4

\* The chat only grows, by the message a node was at, and no message becomes recordable
\* that was not.
LEMMA ChatNext ==
  ASSUME Margins, EchoInv, RunInv, [Next]_vars
  PROVE  /\ Len(chat) \in Nat /\ Len(chat') \in Nat /\ Len(chat) <= Len(chat')
         /\ \A i \in 1..Len(chat) : /\ Same(chat'[i], chat[i])
                                    /\ Held(i)' => Held(i)
                                    /\ chat[i].recorded => chat'[i].recorded
         /\ \/ Len(chat') = Len(chat)
            \/ \E n \in Node : /\ sending[n].step = "send" /\ Send(n)
                               /\ Len(chat') = Len(chat) + 1
                               /\ chat'[Len(chat) + 1] = sending[n].message
         /\ \A n \in Node : sending'[n].step = "send" =>
              \/ sending'[n] = sending[n]
              \/ \E x \in Target : Decided(n, x, sending'[n].message)
<1> USE DEF RunInv
<1>1. Len(chat) \in Nat
  BY Numbers
<1>2. CASE UNCHANGED <<chat, sending>>
  BY <1>1, <1>2 DEF Same, Held
<1>3. ASSUME NEW n \in Node, Send(n)
      PROVE  /\ Len(chat') \in Nat /\ Len(chat') = Len(chat) + 1
             /\ \A i \in 1..Len(chat) : chat'[i] = chat[i] /\ (Held(i)' => Held(i))
             /\ sending[n].step = "send"
             /\ chat'[Len(chat) + 1] = sending[n].message
             /\ \A m \in Node : sending'[m].step = "send" => sending'[m] = sending[m]
  <2>1. /\ Len(chat') = Len(chat) + 1
        /\ chat'[Len(chat) + 1] = sending[n].message
        /\ \A i \in 1..Len(chat) : chat'[i] = chat[i]
    BY <1>3, SendIs
  <2>2. /\ sending'[n].step = "record" /\ sending'[n].index = Len(chat) + 1
        /\ \A m \in Node \ {n} : sending'[m] = sending[m]
    BY <1>3 DEF Send, Typed
  <2>3. sending[n].step = "send"
    BY <1>3 DEF Send
  <2>4. ASSUME NEW i \in 1..Len(chat), Held(i)'
        PROVE  Held(i)
    <3>1. chat'[i] = chat[i] /\ i # Len(chat) + 1
      BY <1>1, <2>1
    <3> QED
      BY <2>2, <2>4, <3>1 DEF Held
  <2>5. \A m \in Node : sending'[m].step = "send" => sending'[m] = sending[m]
    BY <2>2
  <2> QED
    BY <1>1, <2>1, <2>3, <2>4, <2>5
<1>4. ASSUME NEW n \in Node, Record(n)
      PROVE  /\ Len(chat') = Len(chat)
             /\ \A i \in 1..Len(chat) : /\ Same(chat'[i], chat[i])
                                        /\ Held(i)' => Held(i)
                                        /\ chat[i].recorded => chat'[i].recorded
             /\ \A m \in Node : sending'[m].step = "send" => sending'[m] = sending[m]
  <2> DEFINE idx == sending[n].index
  <2>1. /\ Len(chat') = Len(chat)
        /\ \A i \in 1..Len(chat) : i # idx => chat'[i] = chat[i]
        /\ chat'[idx].recorded = TRUE
    BY <1>4, RecordChat
  <2>2. \A i \in 1..Len(chat) : Same(chat'[i], chat[i])
    BY <1>4, RecordChat DEF Same
  <2>3. sending'[n].step = "none" /\ \A m \in Node \ {n} : sending'[m] = sending[m]
    BY <1>4 DEF Record, Typed, NoMessage
  <2>4. sending[n].step = "record"
    BY <1>4 DEF Record
  <2>5. ASSUME NEW i \in 1..Len(chat), Held(i)'
        PROVE  Held(i)
    <3>1. CASE i = idx
      BY <2>4, <3>1 DEF Held
    <3>2. CASE i # idx
      BY <2>1, <2>3, <2>5, <3>2 DEF Held
    <3> QED
      BY <3>1, <3>2
  <2> QED
    BY <2>1, <2>2, <2>3, <2>5
<1>5. ASSUME NEW n \in Node, Fail(n)
      PROVE  /\ chat' = chat
             /\ \A i \in 1..Len(chat) : Held(i)' => Held(i)
             /\ \A m \in Node : sending'[m].step = "send" => sending'[m] = sending[m]
  <2>1. /\ chat' = chat /\ sending'[n].step = "none"
        /\ \A m \in Node \ {n} : sending'[m] = sending[m]
    BY <1>5 DEF Fail, Typed, NoMessage
  <2> QED
    BY <2>1 DEF Held
<1>6. ASSUME NEW n \in Node, NEW x \in Target, Consider(n, x)
      PROVE  /\ chat' = chat
             /\ \A i \in 1..Len(chat) : Held(i)' => Held(i)
             /\ \A m \in Node : sending'[m].step = "send" =>
                  sending'[m] = sending[m] \/ Decided(m, x, sending'[m].message)
  <2>1. chat' = chat
    BY <1>6 DEF Consider
  <2>2. CASE sending' = sending
    BY <2>1, <2>2 DEF Held
  <2>3. CASE Decided(n, x, MessageOf(n, x))
    <3>1. sending' = [sending EXCEPT ![n] = [step |-> "send", message |-> MessageOf(n, x)]]
      BY <2>3 DEF Decided
    <3>2. /\ sending'[n].step = "send" /\ sending'[n].message = MessageOf(n, x)
          /\ \A m \in Node \ {n} : sending'[m] = sending[m]
      BY <3>1 DEF Typed
    <3> QED
      BY <2>1, <2>3, <3>2 DEF Held
  <2> QED
    BY <1>6, <2>2, <2>3, ConsiderDecides
<1>7. CASE Still \/ Tick \/ (\E n \in Node : Check(n)) \/ \E p \in mail : Receive(p)
  BY <1>2, <1>7 DEF Still, Tick, Check, Receive
<1>8. CASE \E n \in Node : Send(n)
  BY <1>1, <1>3, <1>8 DEF Same
<1>9. CASE \E n \in Node : Record(n)
  BY <1>1, <1>4, <1>9
<1>10. CASE \E n \in Node : Fail(n)
  BY <1>1, <1>5, <1>10 DEF Same
<1>11. CASE \E n \in Node, x \in Target : Consider(n, x)
  BY <1>1, <1>6, <1>11 DEF Same
<1> QED
  BY <1>7, <1>8, <1>9, <1>10, <1>11, StepsAre

\* The messages have their types, and the live ones are of them.
LEMMA SpokenIs ==
  ASSUME EchoInv, RunInv, InOrder
  PROVE  /\ Live \subseteq Spoken
         /\ \A c \in Spoken : /\ c.by \in Node /\ c.to \in Target /\ c.down \in BOOLEAN
                              /\ c.at \in Nat /\ c.at <= now
<1>1. Live \subseteq Spoken
  BY DEF Live, Spoken
<1>2. ASSUME NEW c \in Spoken
      PROVE  /\ c.by \in Node /\ c.to \in Target /\ c.down \in BOOLEAN
             /\ c.at \in Nat /\ c.at <= now
  <2>1. CASE \E i \in 1..Len(chat) : c = chat[i]
    BY <2>1, Numbers DEF InOrder, RunInv
  <2>2. ASSUME NEW n \in Node, sending[n].step = "send", c = sending[n].message
        PROVE  /\ c.by \in Node /\ c.to \in Target /\ c.down \in BOOLEAN
               /\ c.at \in Nat /\ c.at <= now
    <3>1. c \in Message
      <4>1. sending[n] \in Sent
        BY DEF RunInv, Typed
      <4> QED
        BY <2>2, <4>1 DEF Sent, NoMessage
    <3>2. c.at = now /\ now \in Nat
      BY <2>2, Numbers DEF EchoInv, Present
    <3> QED
      BY <3>1, <3>2 DEF Message
  <2> QED
    BY <2>1, <2>2 DEF Spoken, Deciding
<1> QED
  BY <1>1, <1>2

LEMMA SpokenNext ==
  ASSUME Margins, EchoInv, RunInv, [Next]_vars, NEW c \in Spoken'
  PROVE  \/ \E d \in Spoken : Same(c, d)
         \/ \E n \in Node, x \in Target : Decided(n, x, c)
<1>1. ASSUME NEW i \in 1..Len(chat'), c = chat'[i]
      PROVE  \E d \in Spoken : Same(c, d)
  <2>1. CASE i \in 1..Len(chat)
    <3>1. Same(c, chat[i])
      BY <1>1, <2>1, ChatNext
    <3> QED
      BY <2>1, <3>1 DEF Spoken
  <2>2. CASE i \notin 1..Len(chat)
    <3>1. PICK n \in Node : sending[n].step = "send" /\ c = sending[n].message
      BY <1>1, <2>2, ChatNext
    <3> QED
      BY <3>1 DEF Spoken, Deciding, Same
  <2> QED
    BY <2>1, <2>2
<1>2. ASSUME NEW n \in Node, sending'[n].step = "send", c = sending'[n].message
      PROVE  \/ \E d \in Spoken : Same(c, d)
             \/ \E x \in Target : Decided(n, x, c)
  <2>1. CASE sending'[n] = sending[n]
    BY <1>2, <2>1 DEF Spoken, Deciding, Same
  <2> QED
    BY <1>2, <2>1, ChatNext
<1> QED
  BY <1>1, <1>2 DEF Spoken, Deciding

LEMMA LiveNext ==
  ASSUME Margins, EchoInv, RunInv, [Next]_vars, NEW c \in Live'
  PROVE  \/ \E d \in Live : Same(c, d)
         \/ \E n \in Node, x \in Target : Decided(n, x, c)
<1>1. ASSUME NEW i \in 1..Len(chat'), Held(i)', c = chat'[i]
      PROVE  \E d \in Live : Same(c, d)
  <2>1. CASE i \in 1..Len(chat)
    <3>1. Same(c, chat[i]) /\ Held(i)
      BY <1>1, <2>1, ChatNext
    <3> QED
      BY <2>1, <3>1 DEF Live
  <2>2. CASE i \notin 1..Len(chat)
    <3>1. PICK n \in Node : sending[n].step = "send" /\ c = sending[n].message
      BY <1>1, <2>2, ChatNext
    <3> QED
      BY <3>1 DEF Live, Deciding, Same
  <2> QED
    BY <2>1, <2>2
<1>2. ASSUME NEW n \in Node, sending'[n].step = "send", c = sending'[n].message
      PROVE  \/ \E d \in Live : Same(c, d)
             \/ \E x \in Target : Decided(n, x, c)
  <2>1. CASE sending'[n] = sending[n]
    BY <1>2, <2>1 DEF Live, Deciding, Same
  <2> QED
    BY <1>2, <2>1, ChatNext
<1> QED
  BY <1>1, <1>2 DEF Live, Deciding

\* Only a step that tells a node something new changes the notice it goes by.
LEMMA LatestStays ==
  ASSUME NEW n \in Node, notices'[n] = notices[n], NEW x
  PROVE  LatestNotice(n, x)' = LatestNotice(n, x)
  BY DEF LatestNotice

-----------------------------------------------------------------------------
\* What the messages and notices have in common with the routes.

LEMMA AlikeNext == ASSUME Margins, VoiceInv, [Next]_vars PROVE Alike'
<1> USE DEF VoiceInv, RunInv
<1>a. /\ now \in Nat
      /\ \A n \in Node, x \in Target : /\ edge[n][x].since \in Nat
                                       /\ edge[n][x].ok \in BOOLEAN
                                       /\ link[n][x] \in BOOLEAN
  BY Numbers
<1>1. ASSUME UNCHANGED <<now, link, edge, checked>>
      PROVE  Alike'
  BY <1>1 DEF Alike, AlikeAt
<1>2. CASE Tick
  <2>1. UNCHANGED <<link, edge>> /\ now' = now + 1 /\ checked' = {} /\ checked = Node
    BY <1>2 DEF Tick, Typed
  <2> SUFFICES ASSUME NEW n \in Node, NEW m \in Node, NEW x \in Target
               PROVE  AlikeAt(n, m, x)'
    BY DEF Alike
  <2>2. AlikeAt(n, m, x)
    BY DEF Alike
  <2>3. edge[n][x].since < now' /\ edge[n][x].since <= now'
    BY <1>a, <2>1, <2>2 DEF AlikeAt
  <2>4. edge[n][x].ok = edge[m][x].ok /\ edge[n][x].since = edge[m][x].since /\ link[n][x] = link[m][x]
    BY <2>1, <2>2 DEF AlikeAt
  <2> QED
    BY <2>1, <2>3, <2>4 DEF AlikeAt
<1>3. ASSUME NEW y \in Target, Change(y)
      PROVE  Alike'
  <2>1. UNCHANGED <<now, edge, checked>> /\ checked = {}
        /\ link' = [n \in Node |-> [link[n] EXCEPT ![y] = ~@]]
    BY <1>3 DEF Change, Margins, Typed
  <2> SUFFICES ASSUME NEW n \in Node, NEW m \in Node, NEW x \in Target
               PROVE  AlikeAt(n, m, x)'
    BY DEF Alike
  <2>2. AlikeAt(n, m, x)
    BY DEF Alike
  <2>3. link'[n][x] = (IF x = y THEN ~link[n][x] ELSE link[n][x])
        /\ link'[m][x] = (IF x = y THEN ~link[m][x] ELSE link[m][x])
    BY <2>1 DEF Typed
  <2> QED
    BY <2>1, <2>2, <2>3 DEF AlikeAt
<1>4. ASSUME NEW p \in Node, Check(p)
      PROVE  Alike'
  <2>1. UNCHANGED <<now, link>> /\ p \notin checked /\ checked' = checked \cup {p}
    BY <1>4, CheckIs
  <2>2. \A x \in Target :
          /\ edge'[p][x].ok = link[p][x]
          /\ edge'[p][x].since = IF edge[p][x].ok = link[p][x] THEN edge[p][x].since ELSE now
    BY <1>4, CheckIs
  <2>3. \A n \in Node \ {p}, x \in Target : edge'[n][x] = edge[n][x]
    BY <1>4, CheckIs
  <2> SUFFICES ASSUME NEW n \in Node, NEW m \in Node, NEW x \in Target
               PROVE  AlikeAt(n, m, x)'
    BY DEF Alike
  <2>4. AlikeAt(n, m, x) /\ AlikeAt(m, n, x)
    BY DEF Alike
  <2>5. CASE n = p /\ m = p
    BY <1>a, <2>1, <2>2, <2>4, <2>5 DEF AlikeAt
  <2>6. CASE n = p /\ m # p
    <3>1. edge'[m][x] = edge[m][x] /\ (m \in checked' <=> m \in checked) /\ n \in checked' /\ n \notin checked
      BY <2>1, <2>3, <2>6
    <3>2. edge'[n][x].ok = link[n][x]
          /\ edge'[n][x].since = IF edge[n][x].ok = link[n][x] THEN edge[n][x].since ELSE now
      BY <2>2, <2>6
    <3>3. edge'[n][x].since <= now
      BY <1>a, <2>4, <3>2 DEF AlikeAt
    <3>4. \/ edge'[n][x].ok = edge[m][x].ok /\ edge'[n][x].since = edge[m][x].since
          \/ edge'[n][x].ok # edge[m][x].ok /\ m \notin checked /\ edge'[n][x].since = now
      <4>1. CASE edge[n][x].ok = link[n][x]
        BY <1>a, <2>4, <3>1, <3>2, <4>1 DEF AlikeAt
      <4>2. CASE edge[n][x].ok # link[n][x]
        BY <1>a, <2>4, <3>1, <3>2, <4>2 DEF AlikeAt
      <4> QED
        BY <4>1, <4>2
    <3> QED
      BY <2>1, <2>4, <3>1, <3>2, <3>3, <3>4 DEF AlikeAt
  <2>7. CASE n # p /\ m = p
    <3>1. edge'[n][x] = edge[n][x] /\ (n \in checked' <=> n \in checked) /\ m \in checked' /\ m \notin checked
      BY <2>1, <2>3, <2>7
    <3>2. edge'[m][x].ok = link[m][x]
          /\ edge'[m][x].since = IF edge[m][x].ok = link[m][x] THEN edge[m][x].since ELSE now
      BY <2>2, <2>7
    <3>3. \/ edge[n][x].ok = edge'[m][x].ok /\ edge[n][x].since = edge'[m][x].since
          \/ edge[n][x].ok # edge'[m][x].ok /\ n \notin checked /\ edge'[m][x].since = now
      <4>1. CASE edge[m][x].ok = link[m][x]
        BY <1>a, <2>4, <3>1, <3>2, <4>1 DEF AlikeAt
      <4>2. CASE edge[m][x].ok # link[m][x]
        BY <1>a, <2>4, <3>1, <3>2, <4>2 DEF AlikeAt
      <4> QED
        BY <4>1, <4>2
    <3> QED
      BY <2>1, <2>4, <3>1, <3>3 DEF AlikeAt
  <2>8. CASE n # p /\ m # p
    BY <2>1, <2>3, <2>4, <2>8 DEF AlikeAt
  <2> QED
    BY <2>5, <2>6, <2>7, <2>8
<1>5. CASE UNCHANGED vars
  BY <1>1, <1>5 DEF vars
<1>6. ASSUME NEW n \in Node, \/ Meet(n) \/ \E x \in Target : Consider(n, x)
                             \/ Send(n) \/ Record(n) \/ Fail(n)
                             \/ Push(n) \/ Stop(n) \/ Start(n)
      PROVE  Alike'
  BY <1>1, <1>6 DEF Meet, Consider, Send, Record, Fail, Push, Stop, Start
<1>7. ASSUME NEW q \in mail, Receive(q) \/ Lose(q)
      PROVE  Alike'
  BY <1>1, <1>7 DEF Receive, Lose
<1> QED
  BY <1>2, <1>3, <1>4, <1>5, <1>6, <1>7 DEF Next

\* Notices are not forgotten; a new one is recorded in its period.
LEMMA NoticesNext ==
  ASSUME Margins, EchoInv, RunInv, [Next]_vars
  PROVE  /\ \A n \in Node : notices[n] \subseteq notices'[n]
         /\ now' = now \/ (now' = now + 1 /\ Tick)
         /\ \/ Announced' = Announced
            \/ \E n \in Node : /\ Record(n) /\ now' = now
                               /\ Announced' = Announced \cup {NoticeOf(n)}
                               /\ NoticeOf(n).at = now
<1> USE DEF RunInv
<1>1. ASSUME UNCHANGED notices
      PROVE  Announced' = Announced /\ \A n \in Node : notices[n] \subseteq notices'[n]
  BY <1>1 DEF Announced, Of
<1>2. ASSUME NEW n \in Node, Record(n)
      PROVE  /\ \A m \in Node : notices[m] \subseteq notices'[m]
             /\ now' = now
             /\ Announced' = Announced \cup {NoticeOf(n)}
             /\ NoticeOf(n).at = now
  <2>1. /\ notices' = [notices EXCEPT ![n] = @ \cup {NoticeOf(n)}]
        /\ Announced' = Announced \cup {NoticeOf(n)}
    BY <1>2, RecordIs
  <2>2. \A m \in Node : notices[m] \subseteq notices'[m]
    BY <2>1 DEF Typed
  <2> QED
    BY <1>2, <2>1, <2>2 DEF Record, NoticeOf
<1>3. ASSUME NEW p \in mail, Receive(p)
      PROVE  /\ \A m \in Node : notices[m] \subseteq notices'[m]
             /\ now' = now
             /\ Announced' = Announced
  BY <1>3, ReceiveIs DEF Receive
<1>4. ASSUME Tick
      PROVE  UNCHANGED notices /\ now' = now + 1
  BY <1>4 DEF Tick
<1>5. ASSUME Still
      PROVE  UNCHANGED <<now, notices>>
  BY <1>5 DEF Still
<1>6. ASSUME NEW n \in Node, \/ Check(n) \/ Send(n) \/ Fail(n) \/ \E x \in Target : Consider(n, x)
      PROVE  UNCHANGED <<now, notices>>
  BY <1>6 DEF Check, Send, Fail, Consider
<1>7. CASE Tick
  BY <1>1, <1>4, <1>7
<1>8. CASE UNCHANGED <<now, notices>>
  BY <1>1, <1>8
<1> QED
  BY <1>2, <1>3, <1>5, <1>6, <1>7, <1>8, StepsAre

LEMMA ArrivedNext == ASSUME Margins, VoiceInv, [Next]_vars PROVE Arrived'
<1> USE DEF VoiceInv, RunInv
<1>1. now \in Nat /\ Delay \in Nat /\ \A k \in Announced : k.at \in Nat /\ k.from \in Node
  BY Numbers, Constants
<1> SUFFICES ASSUME NEW k \in Announced', NEW m \in Node, k.at + Delay < now'
             PROVE  k \in notices'[m]
  BY DEF Arrived
<1>2. k \in Announced
  <2>1. ASSUME NEW n \in Node, k = NoticeOf(n), NoticeOf(n).at = now, now' = now
        PROVE  FALSE
    BY <1>1, <2>1
  <2> QED
    BY <2>1, NoticesNext
<1>3. k \in notices[m]
  <2>1. CASE now' = now
    BY <1>2, <2>1 DEF Arrived
  <2>2. CASE now' = now + 1 /\ Tick
    <3>1. k.at + Delay <= now
      BY <1>1, <1>2, <2>2
    <3>2. k \in Of(k.from, notices[k.from]) /\ k.from \in up /\ m \in up
      BY <1>1, <1>2, AnnouncedIs DEF Of
    <3> QED
      BY <2>2, <3>1, <3>2 DEF Tick
  <2> QED
    BY <2>1, <2>2, NoticesNext
<1> QED
  BY <1>3, NoticesNext

LEMMA InOrderNext == ASSUME Margins, VoiceInv, [Next]_vars PROVE InOrder'
<1> USE DEF VoiceInv, RunInv
<1>1. now \in Nat /\ \A i \in 1..Len(chat) : chat[i].at \in Nat /\ chat[i].at <= now
  BY Numbers DEF InOrder
<1>2. now' = now \/ now' = now + 1
  BY NoticesNext
<1>3. /\ Len(chat) \in Nat /\ Len(chat') \in Nat
      /\ \A i \in 1..Len(chat) : chat'[i].at = chat[i].at
  BY ChatNext DEF Same
<1>4. CASE Len(chat') = Len(chat)
  BY <1>1, <1>2, <1>3, <1>4 DEF InOrder
<1>5. ASSUME Len(chat') = Len(chat) + 1, chat'[Len(chat) + 1].at = now
      PROVE  InOrder'
  <2>1. \A i \in 1..Len(chat') : i \in 1..Len(chat) \/ i = Len(chat) + 1
    BY <1>3, <1>5
  <2>2. \A i \in 1..Len(chat') : chat'[i].at \in Nat /\ chat'[i].at <= now
    BY <1>1, <1>3, <1>5, <2>1
  <2>3. \A i \in 1..Len(chat') : chat'[i].at <= now'
    BY <1>1, <1>2, <2>2
  <2>4. ASSUME NEW i \in 1..Len(chat'), NEW j \in 1..Len(chat'), i < j
        PROVE  chat'[i].at <= chat'[j].at
    <3>1. CASE j = Len(chat) + 1
      BY <1>5, <2>2, <3>1
    <3>2. CASE j \in 1..Len(chat)
      <4>1. i \in 1..Len(chat)
        BY <1>3, <2>1, <2>4, <3>2
      <4> QED
        BY <1>3, <2>4, <3>2, <4>1 DEF InOrder
    <3> QED
      BY <2>1, <3>1, <3>2
  <2> QED
    BY <2>3, <2>4 DEF InOrder
<1>6. ASSUME NEW n \in Node, sending[n].step = "send", chat'[Len(chat) + 1] = sending[n].message
      PROVE  chat'[Len(chat) + 1].at = now
  BY <1>6 DEF EchoInv, Present
<1> QED
  BY <1>4, <1>5, <1>6, ChatNext

LEMMA SourcesNext == ASSUME Margins, VoiceInv, [Next]_vars PROVE Sources' /\ Noted'
<1> USE DEF VoiceInv, RunInv
<1>1. /\ Len(chat) \in Nat /\ Len(chat') \in Nat /\ Len(chat) <= Len(chat')
      /\ \A i \in 1..Len(chat) : Same(chat'[i], chat[i]) /\ (chat[i].recorded => chat'[i].recorded)
  BY ChatNext
<1>2. \A i \in 1..Len(chat) : i \in 1..Len(chat')
  BY <1>1
<1>3. ASSUME NEW k \in Announced
      PROVE  \E h \in 1..Len(chat') : IsOf(k, chat'[h]) /\ chat'[h].recorded
  <2>1. PICK h \in 1..Len(chat) : IsOf(k, chat[h]) /\ chat[h].recorded
    BY DEF Sources
  <2>2. Same(chat'[h], chat[h]) /\ chat'[h].recorded
    BY <1>1, <2>1
  <2> QED
    BY <1>2, <2>1, <2>2 DEF IsOf, Same
<1>4. ASSUME NEW n \in Node, Record(n)
      PROVE  /\ sending[n].index \in 1..Len(chat)
             /\ IsOf(NoticeOf(n), chat'[sending[n].index])
             /\ chat'[sending[n].index].recorded
             /\ \A i \in 1..Len(chat) : i # sending[n].index => chat'[i] = chat[i]
             /\ Len(chat') = Len(chat)
             /\ NoticeOf(n) \in Announced'
  <2>1. /\ sending[n].index \in 1..Len(chat)
        /\ chat'[sending[n].index].recorded = TRUE
        /\ \A i \in 1..Len(chat) : i # sending[n].index => chat'[i] = chat[i]
        /\ Len(chat') = Len(chat)
    BY <1>4, RecordChat
  <2>2. chat[sending[n].index].by = n /\ chat[sending[n].index].at = now
    BY <1>4 DEF Record, EchoInv, Present
  <2>3. IsOf(NoticeOf(n), chat[sending[n].index])
    BY <2>2 DEF NoticeOf, IsOf
  <2>4. IsOf(NoticeOf(n), chat'[sending[n].index])
    BY <1>1, <2>1, <2>3 DEF IsOf, Same
  <2>5. NoticeOf(n) \in Announced'
    BY <1>4, RecordIs
  <2> QED
    BY <2>1, <2>4, <2>5
<1>5. Sources'
  <2> SUFFICES ASSUME NEW k \in Announced'
               PROVE  \E h \in 1..Len(chat') : IsOf(k, chat'[h]) /\ chat'[h].recorded
    BY DEF Sources, IsOf
  <2>1. CASE k \in Announced
    BY <1>3, <2>1
  <2>2. ASSUME NEW n \in Node, Record(n), k = NoticeOf(n)
        PROVE  \E h \in 1..Len(chat') : IsOf(k, chat'[h]) /\ chat'[h].recorded
    BY <1>2, <1>4, <2>2
  <2> QED
    BY <2>1, <2>2, NoticesNext
<1>6. Noted'
  <2> SUFFICES ASSUME NEW h \in 1..Len(chat'), chat'[h].recorded
               PROVE  \E k \in Announced' : IsOf(k, chat'[h])
    BY DEF Noted, IsOf
  <2>1. Announced \subseteq Announced'
    BY NoticesNext
  <2>2. CASE h \in 1..Len(chat) /\ chat[h].recorded
    <3>1. PICK k \in Announced : IsOf(k, chat[h])
      BY <2>2 DEF Noted
    <3> QED
      BY <1>1, <2>1, <2>2, <3>1 DEF IsOf, Same
  <2>3. ASSUME NEW n \in Node, Record(n)
        PROVE  \E k \in Announced' : IsOf(k, chat'[h])
    <3>1. CASE h = sending[n].index
      BY <1>4, <2>3, <3>1
    <3>2. CASE h # sending[n].index
      BY <1>4, <2>2, <2>3, <3>2
    <3> QED
      BY <3>1, <3>2
  <2>4. CASE h \notin 1..Len(chat)
    <3>1. PICK n \in Node : sending[n].step = "send" /\ chat'[h] = sending[n].message
      BY <1>1, <2>4, ChatNext
    <3> QED
      BY <3>1 DEF EchoInv, Present
  <2>5. ASSUME UNCHANGED chat
        PROVE  \E k \in Announced' : IsOf(k, chat'[h])
    BY <2>2, <2>5
  <2>6. ASSUME NEW n \in Node, Send(n), h \in 1..Len(chat)
        PROVE  chat'[h] = chat[h]
    BY <2>6, SendIs
  <2>7. CASE Tick \/ Still \/ (\E n \in Node : Check(n) \/ Fail(n) \/ \E x \in Target : Consider(n, x))
             \/ \E p \in mail : Receive(p)
    BY <2>5, <2>7 DEF Tick, Still, Check, Fail, Consider, Receive
  <2> QED
    BY <2>2, <2>3, <2>4, <2>6, <2>7, StepsAre
<1> QED
  BY <1>5, <1>6

-----------------------------------------------------------------------------
\* What a decision rests on.

LEMMA DecidedIs ==
  ASSUME Margins, EchoInv, RunInv, NEW n \in Node, NEW x \in Target, NEW c, Decided(n, x, c)
  PROVE  /\ c.by = n /\ c.to = x /\ c.at = now /\ c.down = ~edge[n][x].ok
         /\ UNCHANGED <<now, edge, notices, chat, failures, checked>>
         /\ sending[n] = NoMessage
         /\ sending'[n].step = "send" /\ sending'[n].message = c
         /\ \A m \in Node \ {n} : sending'[m] = sending[m]
         /\ x \in due[n]
         /\ due'[n] = due[n] \ {x} /\ \A m \in Node \ {n} : due'[m] = due[m]
         /\ Comes(n, x, now)
         /\ edge[n][x].since < now /\ edge[n][x].since + Delay <= now
         /\ edge[n][x].since + (IF c.down THEN DownAfter ELSE UpAfter) <= now
         /\ ~edge[n][x].ok => edge[n][x].since + Delay < now
<1> USE DEF RunInv
<1> DEFINE e == edge[n][x]
           d == RankDelay(n)
<1>1. /\ c.by = n /\ c.to = x /\ c.at = now /\ c.down = ~e.ok
  BY DEF Decided, MessageOf
<1>2. UNCHANGED <<now, edge, notices, chat, failures, checked>>
  BY DEF Decided, Consider, counts
<1>3. /\ sending[n] = NoMessage /\ x \in due[n]
      /\ due'[n] = due[n] \ {x} /\ \A m \in Node \ {n} : due'[m] = due[m]
  BY DEF Decided, Consider, Typed
<1>4. /\ sending'[n].step = "send" /\ sending'[n].message = c
      /\ \A m \in Node \ {n} : sending'[m] = sending[m]
  BY DEF Decided, Typed
<1>5. Comes(n, x, now)
  BY DEF Decided
<1>6. e.since \in Nat /\ e.ok \in BOOLEAN /\ now \in Nat /\ d \in Nat
      /\ DownAfter \in Nat /\ UpAfter \in Nat /\ Delay \in Nat
  BY Numbers, Constants
<1>7. now - d \in Int /\ Ripe(e, LatestNotice(n, x), now - d)
  BY <1>5, <1>6 DEF Comes
<1> HIDE DEF e, d
<1>8. /\ e.since + Delay <= now - d /\ e.since < now - d
      /\ e.since + (IF ~e.ok THEN DownAfter ELSE UpAfter) <= now - d
      /\ ~e.ok => e.since + Delay < now - d
  BY <1>6, <1>7, RipeSince
<1>9. /\ e.since + Delay <= now /\ e.since < now
      /\ ~e.ok => e.since + Delay < now
  BY <1>6, <1>8
<1>10. e.since + (IF c.down THEN DownAfter ELSE UpAfter) <= now
  <2>1. c.down <=> ~e.ok
    BY <1>1
  <2>2. (IF c.down THEN DownAfter ELSE UpAfter) = IF ~e.ok THEN DownAfter ELSE UpAfter
    BY <2>1
  <2>3. (IF ~e.ok THEN DownAfter ELSE UpAfter) \in Nat
    BY <1>6
  <2> QED
    BY <1>6, <1>8, <2>2, <2>3
<1> QED
  BY <1>1, <1>2, <1>3, <1>4, <1>5, <1>6, <1>8, <1>9, <1>10 DEF e

\* Two nodes do not decide in one step.
LEMMA DecidedOnce ==
  ASSUME Margins, EchoInv, RunInv, NEW n \in Node, NEW x \in Target, NEW c, Decided(n, x, c),
         NEW m \in Node, NEW y \in Target, NEW d, Decided(m, y, d)
  PROVE  n = m /\ c = d
<1>1. /\ sending'[n].step = "send" /\ sending'[n].message = c
      /\ \A p \in Node \ {n} : sending'[p] = sending[p]
  BY DecidedIs
<1>2. sending[m] = NoMessage /\ sending'[m].step = "send" /\ sending'[m].message = d
  BY DecidedIs
<1>3. n = m
  BY <1>1, <1>2 DEF NoMessage
<1> QED
  BY <1>1, <1>2, <1>3

\* The notices of a period are dated as its messages.
LEMMA NoticeDated ==
  ASSUME VoiceInv, NEW k \in Announced, NEW q \in Node
  PROVE  /\ ~k.down /\ ~edge[q][k.to].ok => edge[q][k.to].since >= k.at
         /\ \E c \in Live : IsOf(k, c)
<1>1. PICK h \in 1..Len(chat) : IsOf(k, chat[h]) /\ chat[h].recorded
  BY DEF VoiceInv, Sources
<1>2. chat[h] \in Live /\ chat[h] \in Spoken
  BY <1>1 DEF Live, Held, Spoken
<1>3. Dated(chat[h])
  BY <1>2 DEF VoiceInv, AllDated
<1>4. k.down \in BOOLEAN /\ edge[q][k.to].ok \in BOOLEAN
  BY Numbers DEF VoiceInv, RunInv
<1> QED
  BY <1>1, <1>2, <1>3, <1>4 DEF IsOf, Dated

\* A turn comes only after the latest notice has had the time to reach everybody.
LEMMA ComesWindow ==
  ASSUME Margins, VoiceInv, NEW n \in Node, NEW x \in Target, NEW t \in Int, Comes(n, x, t),
         NEW l \in LatestNotice(n, x)
  PROVE  l.at \in Nat /\ l.at + Delay < t
<1> USE DEF VoiceInv, RunInv
<1> DEFINE e == edge[n][x]
           S == LatestNotice(n, x)
           d == RankDelay(n)
<1>1. e.since \in Nat /\ e.ok \in BOOLEAN /\ d \in Nat /\ Delay \in Nat
  BY Numbers, Constants
<1>2. l.at \in Nat /\ l \in Announced /\ l.to = x
  BY LatestAnnounced
<1>3. ~l.down /\ ~e.ok => e.since >= l.at
  BY <1>2, NoticeDated
<1>4. Ripe(e, S, t - d) /\ t - d \in Int /\ l \in S
  BY <1>1 DEF Comes
<1> HIDE DEF e, S, d
<1>5. l.at + Delay < t - d
  BY <1>1, <1>2, <1>3, <1>4, RipeWindow
<1> QED
  BY <1>1, <1>2, <1>5

\* A node whose turn it is has heard of every message that is not given up and that its own
\* would repeat or contradict.
LEMMA Heeded ==
  ASSUME Margins, VoiceInv, NEW n \in Node, NEW x \in Target, Comes(n, x, now),
         sending[n] = NoMessage, NEW c \in Live, c.to = x, c.down # edge[n][x].ok
  PROVE  /\ c.at + Delay < now
         /\ \E l \in LatestNotice(n, x) : l.at >= c.at
<1> USE DEF VoiceInv, RunInv
<1> DEFINE e == edge[n][x]
<1>1. /\ e.since \in Nat /\ e.ok \in BOOLEAN /\ now \in Nat /\ RankDelay(n) \in Nat
      /\ DownAfter \in Nat /\ UpAfter \in Nat /\ Delay \in Nat
  BY Numbers, Constants
<1>2. c \in Spoken /\ c.by \in Node /\ c.at \in Nat /\ c.at <= now /\ c.down \in BOOLEAN
  BY SpokenIs
<1>3. e.since + Delay <= now
  <2>1. Ripe(e, LatestNotice(n, x), now - RankDelay(n)) /\ now - RankDelay(n) \in Int
    BY <1>1 DEF Comes
  <2> HIDE DEF e
  <2>2. e.since + Delay <= now - RankDelay(n)
    BY <1>1, <2>1, RipeSince
  <2> QED
    BY <1>1, <2>2
<1>4. ASSUME NEW k \in notices[n], k.to = x, k.at = c.at
      PROVE  c.at + Delay < now
  <2>1. PICK l \in LatestNotice(n, x) : l.at >= k.at
    BY <1>4, LatestIs
  <2>2. l.at \in Nat /\ l.at + Delay < now
    BY <1>1, ComesWindow
  <2> QED
    BY <1>1, <1>2, <1>4, <2>1, <2>2
<1>5. Heard(n, c) => c.at + Delay < now
  BY <1>4 DEF Heard, IsOf
<1>6. c.by # n => c.at + Delay < now
  <2> SUFFICES ASSUME c.by # n, ~(c.at + Delay < now), ~Heard(n, c)
               PROVE  FALSE
    BY <1>5
  <2>1. now <= c.at + Delay /\ e.since <= c.at
    BY <1>1, <1>2, <1>3
  <2>2. ~Comes(n, x, c.at + Delay)
    BY <2>1 DEF Staggered, Waits
  <2>3. Comes(n, x, c.at + Delay)
    BY <1>1, <1>2, <2>1, ComesLater
  <2> QED
    BY <2>2, <2>3
<1>7. CASE \E i \in 1..Len(chat) : Held(i) /\ c = chat[i]
  <2>1. PICK i \in 1..Len(chat) : Held(i) /\ c = chat[i]
    BY <1>7
  <2>2. CASE c.recorded
    <3>1. PICK k \in Announced : IsOf(k, c)
      BY <2>1, <2>2 DEF Noted
    <3>2. c.at + Delay < now
      <4>1. CASE c.by = n
        BY <1>4, <3>1, <4>1, AnnouncedIs DEF IsOf
      <4> QED
        BY <1>6, <4>1
    <3>3. k \in notices[n] /\ k.to = x /\ k.at = c.at
      BY <3>1, <3>2 DEF IsOf, Arrived
    <3>4. \E l \in LatestNotice(n, x) : l.at >= k.at
      BY <3>3, LatestIs
    <3> QED
      BY <3>2, <3>3, <3>4
  <2>3. CASE ~c.recorded
    <3>1. PICK m \in Node : sending[m].step = "record" /\ sending[m].index = i
      BY <2>1, <2>3 DEF Held
    <3>2. c.by = m /\ c.at = now
      BY <2>1, <3>1 DEF EchoInv, Present
    <3>3. m # n
      BY <3>1 DEF NoMessage
    <3> QED
      BY <1>1, <1>6, <3>2, <3>3
  <2> QED
    BY <2>2, <2>3
<1>8. ASSUME NEW m \in Node, sending[m].step = "send", c = sending[m].message
      PROVE  FALSE
  <2>1. c.by = m /\ c.at = now /\ m # n
    BY <1>8 DEF EchoInv, Present, NoMessage
  <2> QED
    BY <1>1, <1>6, <2>1
<1> QED
  BY <1>7, <1>8 DEF Live, Deciding

\* Nobody is saying the opposite in the period of a decision.
LEMMA DecidedAgrees ==
  ASSUME Margins, VoiceInv, NEW n \in Node, NEW x \in Target, NEW c, Decided(n, x, c),
         NEW d \in Spoken, d.to = x, d.at = now
  PROVE  d.down = c.down
<1>1. edge[n][x].since < now /\ c.down = ~edge[n][x].ok
  BY DecidedIs DEF VoiceInv
<1>2. /\ edge[n][x].since \in Nat /\ now \in Nat /\ d.down \in BOOLEAN
      /\ edge[n][x].ok \in BOOLEAN
  BY Numbers, SpokenIs DEF VoiceInv, RunInv
<1>3. Dated(d)
  BY DEF VoiceInv, AllDated
<1>4. edge[n][x].ok = d.down => edge[n][x].since >= now
  BY <1>3 DEF Dated
<1> QED
  BY <1>1, <1>2, <1>4

\* A node that shares the decider's run has its turn later than a notice takes.
LEMMA DecidedWaits ==
  ASSUME Margins, VoiceInv, NEW n \in Node, NEW x \in Target, NEW c, Decided(n, x, c),
         NEW q \in Node, q # n, edge[q][x].ok # c.down
  PROVE  ~Comes(q, x, now + Delay)
<1> USE DEF VoiceInv, RunInv
<1> DEFINE e  == edge[n][x]
           f  == edge[q][x]
           S  == LatestNotice(n, x)
           T  == LatestNotice(q, x)
           dn == RankDelay(n)
           dq == RankDelay(q)
<1>1. /\ now \in Nat /\ Delay \in Nat /\ Stagger \in Nat /\ dn \in Nat /\ dq \in Nat
      /\ failures \in Nat /\ failures <= MaxFailures /\ MaxFailures \in Nat
      /\ e.since \in Nat /\ e.ok \in BOOLEAN /\ f.since \in Nat /\ f.ok \in BOOLEAN
  BY Numbers, Constants
<1>2. /\ c.down = ~e.ok /\ Comes(n, x, now) /\ sending[n] = NoMessage
      /\ ~e.ok => e.since + Delay < now
  BY DecidedIs
<1>3. f.ok = e.ok /\ f.since = e.since
  <2>1. f.ok = e.ok
    BY <1>1, <1>2
  <2>2. AlikeAt(n, q, x)
    BY DEF Alike
  <2> QED
    BY <2>1, <2>2 DEF AlikeAt
<1>4. (\A k \in S : k.at \in Nat) /\ \A k \in T : k.at \in Nat
  BY LatestAnnounced
<1>5. ASSUME ~e.ok
      PROVE  T = S
  <2>1. ASSUME NEW k \in Announced, k.to = x
        PROVE  k \in notices[n] /\ k \in notices[q]
    <3>1. k.at \in Nat /\ k.down \in BOOLEAN
      BY Numbers
    <3>2. k.at + Delay < now
      <4>1. CASE k.down
        <5>1. PICK d \in Live : IsOf(k, d)
          BY NoticeDated
        <5>2. d.to = x /\ d.at = k.at /\ d.down # e.ok
          BY <1>1, <1>5, <2>1, <3>1, <4>1, <5>1 DEF IsOf
        <5> QED
          BY <1>2, <5>2, Heeded
      <4>2. CASE ~k.down
        <5>1. e.since >= k.at
          BY <1>5, <2>1, <4>2, NoticeDated
        <5> QED
          BY <1>1, <1>2, <1>5, <3>1, <5>1
      <4> QED
        BY <4>1, <4>2
    <3> QED
      BY <3>2 DEF Arrived
  <2>2. notices[n] \subseteq Announced /\ notices[q] \subseteq Announced
    BY DEF Ordered
  <2> QED
    BY <2>1, <2>2 DEF LatestNotice
<1>6. Ripe(e, S, now - dn)
  BY <1>2 DEF Comes
<1> SUFFICES ASSUME Comes(q, x, now + Delay)
             PROVE  FALSE
  OBVIOUS
<1>7. Ripe(f, T, (now + Delay) - dq)
  BY DEF Comes
<1>8. Stagger > Delay + MaxFailures
  BY DEF Margins
<1>9. ASSUME dn + Stagger <= dq
      PROVE  FALSE
  <2>1. Stagger - Delay \in Nat /\ Stagger - Delay > MaxFailures
    BY <1>1, <1>8
  <2>2. /\ (now + Delay) - dq \in Int /\ now - dn \in Int /\ now - (Stagger - Delay) - dn \in Int
        /\ (now + Delay) - dq <= now - (Stagger - Delay) - dn
    BY <1>1, <1>9
  <2>3. Ripe(e, S, now - (Stagger - Delay) - dn)
    <3> HIDE DEF e, f, S, T, dn, dq
    <3> QED
      BY <1>1, <1>3, <1>4, <1>5, <1>6, <1>7, <2>2, RipeLater
  <2>4. Comes(n, x, now - (Stagger - Delay))
    BY <2>3 DEF Comes
  <2>5. failures >= Stagger - Delay
    BY <2>1, <2>4 DEF Retried
  <2> QED
    BY <1>1, <2>1, <2>5
<1>10. ASSUME dq + Stagger <= dn
       PROVE  FALSE
  <2>1. Stagger > MaxFailures
    BY <1>1, <1>8
  <2>2. /\ (now + Delay) - dq \in Int /\ now - dn \in Int /\ now - Stagger - dq \in Int
        /\ now - dn <= now - Stagger - dq
    BY <1>1, <1>10
  <2>3. Ripe(f, T, now - Stagger - dq)
    <3> HIDE DEF e, f, S, T, dn, dq
    <3> QED
      BY <1>1, <1>3, <1>4, <1>5, <1>6, <1>7, <2>2, RipeLater
  <2>4. Comes(q, x, now - Stagger)
    BY <2>3 DEF Comes
  <2>5. failures >= Stagger
    BY <1>1, <2>4 DEF Retried
  <2> QED
    BY <1>1, <2>1, <2>5
<1> QED
  BY <1>9, <1>10, StaggersApart

-----------------------------------------------------------------------------
\* What a step does to the routes and to what is known, and what follows from it.

\* Only a check changes what a node thinks of a route.
LEMMA EdgeNext ==
  ASSUME Margins, RunInv, [Next]_vars
  PROVE  edge' = edge \/ \E p \in Node : Check(p)
  BY StepsAre DEF Tick, Still, Send, Record, Fail, Consider, Receive

\* A check that turns a route finds its last run older than the period.
LEMMA CheckTurns ==
  ASSUME Margins, VoiceInv, NEW p \in Node, Check(p), NEW x \in Target
  PROVE  \/ edge'[p][x].ok = edge[p][x].ok /\ edge'[p][x].since = edge[p][x].since
         \/ edge'[p][x].ok # edge[p][x].ok /\ edge'[p][x].since = now /\ edge[p][x].since < now
<1>1. edge[p][x].since < now
  BY CheckIs DEF VoiceInv, Alike, AlikeAt
<1> QED
  BY <1>1, CheckIs DEF VoiceInv

LEMMA AllDatedNext == ASSUME Margins, VoiceInv, [Next]_vars PROVE AllDated'
<1> USE DEF VoiceInv, RunInv
<1> SUFFICES ASSUME NEW c \in Spoken'
             PROVE  Dated(c)'
  BY DEF AllDated
<1>1. now \in Nat /\ \A n \in Node, x \in Target : edge[n][x].since \in Nat /\ edge[n][x].ok \in BOOLEAN
  BY Numbers
<1>2. ASSUME NEW d \in Spoken, Same(c, d)
      PROVE  Dated(c)'
  <2>1. Dated(d) /\ d.at \in Nat /\ d.at <= now /\ d.to \in Target
    BY SpokenIs DEF AllDated
  <2>2. CASE edge' = edge
    BY <1>2, <2>1, <2>2 DEF Dated, Same
  <2>3. ASSUME NEW p \in Node, Check(p)
        PROVE  Dated(c)'
    <3>1. ASSUME NEW q \in Node
          PROVE  IF edge'[q][d.to].ok = d.down THEN edge'[q][d.to].since >= d.at
                 ELSE \/ edge'[q][d.to].since > d.at
                      \/ edge'[q][d.to].since + (IF d.down THEN DownAfter ELSE UpAfter) <= d.at
      <4>1. CASE edge'[q][d.to].ok = edge[q][d.to].ok /\ edge'[q][d.to].since = edge[q][d.to].since
        BY <2>1, <4>1 DEF Dated
      <4>2. CASE /\ edge'[q][d.to].ok # edge[q][d.to].ok
                 /\ edge'[q][d.to].since = now /\ edge[q][d.to].since < now
        <5>1. edge'[q][d.to].since >= d.at
          BY <1>1, <2>1, <4>2
        <5>2. edge'[q][d.to].ok # d.down => edge'[q][d.to].since > d.at
          <6> SUFFICES ASSUME edge'[q][d.to].ok # d.down
                       PROVE  now > d.at
            BY <4>2
          <6>1. edge'[q][d.to].ok \in BOOLEAN /\ d.down \in BOOLEAN
            <7>1. link[p][d.to] \in BOOLEAN /\ edge'[p][d.to].ok = link[p][d.to]
              BY <2>1, <2>3, CheckIs, Numbers
            <7>2. q # p => edge'[q][d.to] = edge[q][d.to]
              BY <2>1, <2>3, CheckIs
            <7> QED
              BY <1>1, <2>1, <7>1, <7>2, SpokenIs
          <6>2. edge[q][d.to].ok = d.down
            BY <1>1, <2>1, <4>2, <6>1
          <6>3. edge[q][d.to].since >= d.at
            BY <2>1, <6>2 DEF Dated
          <6> QED
            BY <1>1, <2>1, <4>2, <6>3
        <5> QED
          BY <5>1, <5>2
      <4>3. q # p => edge'[q][d.to] = edge[q][d.to]
        BY <2>1, <2>3, CheckIs
      <4> QED
        BY <2>1, <2>3, <4>1, <4>2, <4>3, CheckTurns
    <3> QED
      BY <1>2, <3>1 DEF Dated, Same
  <2> QED
    BY <2>2, <2>3, EdgeNext
<1>3. ASSUME NEW n \in Node, NEW x \in Target, Decided(n, x, c)
      PROVE  Dated(c)'
  <2>1. /\ c.to = x /\ c.at = now /\ c.down = ~edge[n][x].ok /\ edge' = edge
        /\ edge[n][x].since < now
        /\ edge[n][x].since + (IF c.down THEN DownAfter ELSE UpAfter) <= now
    BY <1>3, DecidedIs
  <2>2. ASSUME NEW q \in Node
        PROVE  IF edge[q][x].ok = c.down THEN edge[q][x].since >= now
               ELSE \/ edge[q][x].since > now
                    \/ edge[q][x].since + (IF c.down THEN DownAfter ELSE UpAfter) <= now
    <3>1. AlikeAt(n, q, x)
      BY DEF Alike
    <3>2. edge[q][x].ok \in BOOLEAN /\ edge[n][x].ok \in BOOLEAN /\ edge[q][x].since \in Nat
          /\ edge[n][x].since \in Nat
      BY <1>1
    <3>3. CASE edge[q][x].ok = c.down
      <4>1. edge[q][x].ok # edge[n][x].ok
        BY <2>1, <3>2, <3>3
      <4>2. edge[q][x].since = now
        BY <1>1, <2>1, <3>1, <3>2, <4>1 DEF AlikeAt
      <4> QED
        BY <1>1, <3>3, <4>2
    <3>4. CASE edge[q][x].ok # c.down
      <4>1. edge[q][x].ok = edge[n][x].ok
        BY <2>1, <3>2, <3>4
      <4>2. edge[q][x].since = edge[n][x].since
        BY <3>1, <4>1 DEF AlikeAt
      <4> QED
        BY <2>1, <3>4, <4>2
    <3> QED
      BY <3>3, <3>4
  <2> QED
    BY <2>1, <2>2 DEF Dated
<1> QED
  BY <1>2, <1>3, SpokenNext

LEMMA AgreedNext == ASSUME Margins, VoiceInv, [Next]_vars PROVE Agreed'
<1> USE DEF VoiceInv
<1> SUFFICES ASSUME NEW c \in Spoken', NEW d \in Spoken', c.to = d.to, c.at = d.at
             PROVE  c.down = d.down
  BY DEF Agreed
<1>1. ASSUME NEW a \in Spoken, NEW n \in Node, NEW x \in Target, NEW b, Decided(n, x, b),
             a.to = b.to, a.at = b.at
      PROVE  a.down = b.down
  <2>1. b.to = x /\ b.at = now
    BY <1>1, DecidedIs
  <2> QED
    BY <1>1, <2>1, DecidedAgrees
<1>2. CASE (\E a \in Spoken : Same(c, a)) /\ (\E b \in Spoken : Same(d, b))
  BY <1>2 DEF Agreed, Same
<1>3. ASSUME NEW a \in Spoken, Same(c, a), NEW n \in Node, NEW x \in Target, Decided(n, x, d)
      PROVE  c.down = d.down
  <2>1. a.to = d.to /\ a.at = d.at /\ c.down = a.down
    BY <1>3 DEF Same
  <2> QED
    BY <1>1, <1>3, <2>1
<1>4. ASSUME NEW b \in Spoken, Same(d, b), NEW n \in Node, NEW x \in Target, Decided(n, x, c)
      PROVE  c.down = d.down
  <2>1. b.to = c.to /\ b.at = c.at /\ d.down = b.down
    BY <1>4 DEF Same
  <2> QED
    BY <1>1, <1>4, <2>1
<1>5. ASSUME NEW n \in Node, NEW x \in Target, Decided(n, x, c),
             NEW m \in Node, NEW y \in Target, Decided(m, y, d)
      PROVE  c.down = d.down
  BY <1>5, DecidedOnce
<1> QED
  BY <1>2, <1>3, <1>4, <1>5, SpokenNext

\* The latest of what a node has been told.
LEMMA HasLatest ==
  ASSUME NEW S, NEW N \in Int, \A k \in S : k.no \in Nat /\ k.no <= N,
         NEW x, NEW k \in S, k.to = x
  PROVE  \E l \in S : l.to = x /\ \A m \in S : m.to = x => m.no <= l.no
<1> DEFINE R == {l.no : l \in {m \in S : m.to = x}}
<1>1. R \in SUBSET Int /\ R # {} /\ \A s \in R : s <= N
  OBVIOUS
<1>2. Greatest(R) \in R /\ \A s \in R : s <= Greatest(R)
  BY <1>1, HasGreatest
<1>3. PICK l \in S : l.to = x /\ l.no = Greatest(R)
  BY <1>2
<1> QED
  BY <1>2, <1>3

\* What a push brings changes the latest notice only to one that is hardly older than a
\* notice takes, and newer than any known before.
LEMMA ReceiveNews ==
  ASSUME Margins, VoiceInv, NEW p \in mail, Receive(p), NEW n \in Node, NEW x \in Target
  PROVE  \/ LatestNotice(n, x)' = LatestNotice(n, x)
         \/ \E l \in LatestNotice(n, x)' : /\ l \in Announced /\ l.to = x
                                           /\ now <= l.at + Delay
                                           /\ \A k \in LatestNotice(n, x) : k.at <= l.at
<1> USE DEF VoiceInv, RunInv
<1> DEFINE S == notices[n]
           T == notices'[n]
<1>1. S \subseteq T /\ T \subseteq Announced
  BY ReceiveIs
<1>2. /\ now \in Nat /\ Delay \in Nat /\ Cardinality(Announced) \in Nat
      /\ \A k \in Announced : k.no \in Nat /\ k.no <= Cardinality(Announced) /\ k.at \in Nat
  BY Numbers, Constants, AnnouncedType DEF Ordered
<1>3. /\ LatestNotice(n, x) = {k \in S : k.to = x /\ \A l \in S : l.to = x => l.no <= k.no}
      /\ LatestNotice(n, x)' = {k \in T : k.to = x /\ \A l \in T : l.to = x => l.no <= k.no}
  BY DEF LatestNotice
<1> HIDE DEF S, T
<1>4. CASE \E l \in LatestNotice(n, x)' : l \notin S
  <2>1. PICK l \in LatestNotice(n, x)' : l \notin S
    BY <1>4
  <2>2. l \in Announced /\ l \in T /\ l.to = x /\ \A k \in T : k.to = x => k.no <= l.no
    BY <1>1, <1>3
  <2>3. now <= l.at + Delay
    <3>1. ~(l.at + Delay < now)
      BY <2>1, <2>2 DEF Arrived, S
    <3> QED
      BY <1>2, <2>2, <3>1
  <2>4. \A k \in LatestNotice(n, x) : k.at <= l.at
    BY <1>1, <1>3, <2>2 DEF Ordered
  <2> QED
    BY <2>2, <2>3, <2>4
<1>5. CASE \A l \in LatestNotice(n, x)' : l \in S
  <2>1. LatestNotice(n, x)' \subseteq LatestNotice(n, x)
    BY <1>1, <1>3, <1>5
  <2>2. LatestNotice(n, x) \subseteq LatestNotice(n, x)'
    <3> SUFFICES ASSUME NEW k \in LatestNotice(n, x)
                 PROVE  k \in LatestNotice(n, x)'
      OBVIOUS
    <3>1. k \in T /\ k.to = x /\ k \in S
      BY <1>1, <1>3
    <3>2. \A m \in T : m.no \in Nat /\ m.no <= Cardinality(Announced)
      BY <1>1, <1>2
    <3>3. PICK l \in T : l.to = x /\ \A m \in T : m.to = x => m.no <= l.no
      <4>1. Cardinality(Announced) \in Int /\ k \in T /\ k.to = x
        BY <1>2, <3>1
      <4> QED
        BY <3>2, <4>1, HasLatest
    <3>4. l \in S
      BY <1>3, <1>5, <3>3
    <3>5. l.no <= k.no
      BY <1>3, <3>3, <3>4
    <3>6. \A m \in T : m.to = x => m.no <= k.no
      BY <3>1, <3>2, <3>3, <3>5
    <3> QED
      BY <1>3, <3>1, <3>6
  <2> QED
    BY <2>1, <2>2
<1> QED
  BY <1>4, <1>5

\* What a node records is the latest it knows.
LEMMA RecordNews ==
  ASSUME Margins, VoiceInv, NEW p \in Node, Record(p), NEW x \in Target
  PROVE  /\ LatestNotice(p, x)' # LatestNotice(p, x) => x = NoticeOf(p).to
         /\ x = NoticeOf(p).to => NoticeOf(p) \in LatestNotice(p, x)'
         /\ \A q \in Node : /\ ~NoticeOf(p).down /\ ~edge[q][NoticeOf(p).to].ok
                                 => edge[q][NoticeOf(p).to].since >= now
<1> USE DEF VoiceInv, RunInv
<1> DEFINE k == NoticeOf(p)
<1>1. notices' = [notices EXCEPT ![p] = @ \cup {k}]
  BY RecordIs
<1>2. k.no = Cardinality(Announced) + 1 /\ k.at = now
      /\ k.to = chat[sending[p].index].to /\ k.down = chat[sending[p].index].down
  BY DEF NoticeOf
<1>3. /\ Cardinality(Announced) \in Nat
      /\ \A l \in notices[p] : l.no \in Nat /\ l.no <= Cardinality(Announced)
  BY AnnouncedType DEF Ordered
<1> HIDE DEF k
<1>4. notices'[p] = notices[p] \cup {k}
  BY <1>1 DEF Typed
<1>5. LatestNotice(p, x)' = {l \in notices'[p] : l.to = x /\ \A m \in notices'[p] : m.to = x => m.no <= l.no}
  BY DEF LatestNotice
<1>6. x # k.to => LatestNotice(p, x)' = LatestNotice(p, x)
  BY <1>4, <1>5 DEF LatestNotice
<1>7. x = k.to => k \in LatestNotice(p, x)'
  BY <1>2, <1>3, <1>4, <1>5
<1>8. ASSUME NEW q \in Node, ~k.down, ~edge[q][k.to].ok
      PROVE  edge[q][k.to].since >= now
  <2> DEFINE c == chat[sending[p].index]
  <2>1. sending[p].index \in 1..Len(chat) /\ c.at = now
    BY DEF Record, Typed, EchoInv, Present
  <2>2. c \in Spoken /\ c.down \in BOOLEAN /\ c.to \in Target
    BY <2>1, Numbers DEF Spoken
  <2>3. edge[q][c.to].ok \in BOOLEAN
    BY <2>2, Numbers
  <2>4. edge[q][c.to].ok = c.down
    BY <1>2, <1>8, <2>2, <2>3
  <2>5. Dated(c)
    BY <2>2 DEF AllDated
  <2> QED
    BY <1>2, <2>1, <2>4, <2>5 DEF Dated
<1> QED
  BY <1>6, <1>7, <1>8 DEF k

\* In what a node's turn depends on nothing has changed.
LEMMA ComesStays ==
  ASSUME NEW n \in Node, NEW x \in Target, NEW s,
         edge'[n][x].ok = edge[n][x].ok, edge'[n][x].since = edge[n][x].since,
         LatestNotice(n, x)' = LatestNotice(n, x),
         Ripe(edge'[n][x], LatestNotice(n, x)', s)
  PROVE  Ripe(edge[n][x], LatestNotice(n, x), s)
  BY DEF Ripe

\* No turn comes that the notice of now, or one that may still be on its way, stands
\* against.
LEMMA NoTurn ==
  ASSUME Margins, VoiceInv, NEW n \in Node, NEW x \in Target, NEW S, NEW l \in S,
         l.at \in Nat, ~l.down /\ ~edge[n][x].ok => edge[n][x].since >= l.at,
         NEW t \in Int, Ripe(edge[n][x], S, t - RankDelay(n))
  PROVE  l.at + Delay < t
<1> DEFINE e == edge[n][x]
           d == RankDelay(n)
<1>1. e.since \in Nat /\ e.ok \in BOOLEAN /\ d \in Nat /\ Delay \in Nat
  BY Numbers, Constants DEF VoiceInv, RunInv
<1>2. Ripe(e, S, t - d) /\ t - d \in Int /\ (~l.down /\ ~e.ok => e.since >= l.at)
  BY <1>1
<1> HIDE DEF e, d
<1>3. l.at + Delay < t - d
  BY <1>1, <1>2, RipeWindow
<1> QED
  BY <1>1, <1>3

\* A node turns to no target but by deciding on it, and leaves none but by recording the
\* message or failing.
LEMMA SpeakingNext ==
  ASSUME Margins, EchoInv, RunInv, [Next]_vars, NEW n \in Node, NEW x \in Target
  PROVE  /\ Speaking(n, x)' => Speaking(n, x) \/ \E c : Decided(n, x, c)
         /\ Speaking(n, x) => Speaking(n, x)' \/ Record(n) \/ Fail(n)
<1> USE DEF RunInv
<1>1. CASE UNCHANGED <<sending, chat>>
  BY <1>1 DEF Speaking
<1>2. ASSUME NEW m \in Node, Send(m)
      PROVE  Speaking(n, x)' <=> Speaking(n, x)
  <2>1. /\ sending[m].step = "send" /\ sending'[m].step = "record"
        /\ sending'[m].index = Len(chat) + 1
        /\ \A p \in Node \ {m} : sending'[p] = sending[p]
        /\ Len(chat) \in Nat
    BY <1>2 DEF Send, Typed
  <2>2. /\ chat'[Len(chat) + 1] = sending[m].message
        /\ \A i \in 1..Len(chat) : chat'[i] = chat[i]
    BY <1>2, SendIs
  <2>3. CASE n = m
    BY <2>1, <2>2, <2>3 DEF Speaking
  <2>4. CASE n # m
    <3>1. sending[n].step = "record" => sending[n].index \in 1..Len(chat)
      BY DEF Typed
    <3> QED
      BY <2>1, <2>2, <2>4, <3>1 DEF Speaking
  <2> QED
    BY <2>3, <2>4
<1>3. ASSUME NEW m \in Node, Record(m)
      PROVE  IF n = m THEN ~Speaking(n, x)' ELSE Speaking(n, x)' <=> Speaking(n, x)
  <2>1. /\ sending'[m].step = "none" /\ \A p \in Node \ {m} : sending'[p] = sending[p]
    BY <1>3 DEF Record, Typed, NoMessage
  <2>2. \A i \in 1..Len(chat) : chat'[i].to = chat[i].to
    BY <1>3, RecordChat
  <2>3. sending[n].step = "record" => sending[n].index \in 1..Len(chat)
    BY DEF Typed
  <2>4. CASE n = m
    BY <2>1, <2>4 DEF Speaking
  <2>5. CASE n # m
    BY <2>1, <2>2, <2>3, <2>5 DEF Speaking
  <2> QED
    BY <2>4, <2>5
<1>4. ASSUME NEW m \in Node, Fail(m)
      PROVE  IF n = m THEN ~Speaking(n, x)' ELSE Speaking(n, x)' <=> Speaking(n, x)
  <2>1. /\ sending'[m].step = "none" /\ \A p \in Node \ {m} : sending'[p] = sending[p]
        /\ chat' = chat
    BY <1>4 DEF Fail, Typed, NoMessage
  <2>2. CASE n = m
    BY <2>1, <2>2 DEF Speaking
  <2>3. CASE n # m
    BY <2>1, <2>3 DEF Speaking
  <2> QED
    BY <2>2, <2>3
<1>5. ASSUME NEW m \in Node, NEW y \in Target, Consider(m, y)
      PROVE  /\ Speaking(n, x)' => Speaking(n, x) \/ \E c : Decided(n, x, c)
             /\ Speaking(n, x) => Speaking(n, x)'
  <2>1. CASE sending' = sending
    <3>1. chat' = chat
      BY <1>5 DEF Consider
    <3> QED
      BY <2>1, <3>1 DEF Speaking
  <2>2. CASE Decided(m, y, MessageOf(m, y))
    <3>1. /\ sending[m] = NoMessage /\ chat' = chat
          /\ sending'[m].step = "send" /\ sending'[m].message = MessageOf(m, y)
          /\ \A p \in Node \ {m} : sending'[p] = sending[p]
          /\ MessageOf(m, y).to = y
      BY <2>2, DecidedIs
    <3>2. CASE n = m
      <4>1. ~Speaking(n, x)
        BY <3>1, <3>2 DEF Speaking, NoMessage
      <4>2. Speaking(n, x)' => x = y
        BY <3>1, <3>2 DEF Speaking
      <4> QED
        BY <2>2, <3>2, <4>1, <4>2
    <3>3. CASE n # m
      BY <3>1, <3>3 DEF Speaking
    <3> QED
      BY <3>2, <3>3
  <2> QED
    BY <1>5, <2>1, <2>2, ConsiderDecides
<1>6. CASE Tick \/ Still \/ (\E m \in Node : Check(m)) \/ \E p \in mail : Receive(p)
  BY <1>1, <1>6 DEF Tick, Still, Check, Receive
<1>7. CASE \E m \in Node : Send(m)
  BY <1>2, <1>7
<1>8. CASE \E m \in Node : Record(m)
  BY <1>3, <1>8
<1>9. CASE \E m \in Node : Fail(m)
  BY <1>4, <1>9
<1>10. CASE \E m \in Node, y \in Target : Consider(m, y)
  BY <1>5, <1>10
<1> QED
  BY <1>6, <1>7, <1>8, <1>9, <1>10, StepsAre

LEMMA RetriedNext == ASSUME Margins, VoiceInv, [Next]_vars PROVE Retried'
<1> USE DEF VoiceInv, RunInv
<1> SUFFICES ASSUME NEW n \in Node, NEW x \in Target, NEW late \in Nat, NEW t, t = now' - late,
                    Ripe(edge'[n][x], LatestNotice(n, x)', t - RankDelay(n))
             PROVE  failures' >= late /\ (failures' > late \/ Pending(n, x)')
  BY DEF Retried, Comes
<1> DEFINE e == edge[n][x]
<1>1. /\ now \in Nat /\ Delay \in Nat /\ failures \in Nat
      /\ e.since \in Nat /\ e.ok \in BOOLEAN /\ RankDelay(n) \in Nat
      /\ DownAfter \in Nat /\ UpAfter \in Nat
  BY Numbers, Constants
<1>2. now' = now \/ now' = now + 1
  BY NoticesNext
<1>3. t \in Int
  BY <1>1, <1>2
<1>4. ASSUME e.ok = edge'[n][x].ok, e.since = edge'[n][x].since,
             LatestNotice(n, x)' = LatestNotice(n, x)
      PROVE  Comes(n, x, t)
  BY <1>4, ComesStays DEF Comes
<1>5. ASSUME Comes(n, x, t), now' = now
      PROVE  failures >= late /\ (failures > late \/ Pending(n, x))
  BY <1>5 DEF Retried
<1>6. CASE Tick
  <2>1. UNCHANGED <<edge, notices, failures>> /\ now' = now + 1
        /\ due'[n] = Target /\ due[n] = {} /\ sending[n] = NoMessage
    BY <1>6 DEF Tick, counts
  <2>2. Pending(n, x)' /\ ~Pending(n, x)
    BY <2>1 DEF Pending, Speaking, NoMessage
  <2>3. CASE late = 0
    BY <1>1, <2>1, <2>2, <2>3
  <2>4. CASE late # 0
    <3>1. late - 1 \in Nat /\ t = now - (late - 1)
      BY <1>1, <2>1, <2>4
    <3>2. Comes(n, x, now - (late - 1))
      BY <1>4, <2>1, <3>1, LatestStays
    <3>3. failures >= late - 1 /\ (failures > late - 1 \/ Pending(n, x))
      BY <3>1, <3>2 DEF Retried
    <3> QED
      BY <1>1, <2>1, <2>2, <3>1, <3>3
  <2> QED
    BY <2>3, <2>4
<1>7. CASE Still
  <2>1. UNCHANGED <<now, edge, due, sending, chat, failures>> /\ LatestNotice(n, x)' = LatestNotice(n, x)
    BY <1>7, LatestStays DEF Still
  <2>2. failures >= late /\ (failures > late \/ Pending(n, x))
    BY <1>4, <1>5, <2>1
  <2> QED
    BY <2>1, <2>2 DEF Pending, Speaking
<1>8. ASSUME NEW p \in Node, Check(p)
      PROVE  failures' >= late /\ (failures' > late \/ Pending(n, x)')
  <2>1. UNCHANGED <<now, due, sending, notices, chat, failures>>
    BY <1>8, CheckIs
  <2>2. LatestNotice(n, x)' = LatestNotice(n, x)
    BY <2>1, LatestStays
  <2>3. \/ edge'[n][x].ok = e.ok /\ edge'[n][x].since = e.since
        \/ n = p /\ edge'[n][x].since = now /\ edge'[n][x].ok = link[n][x]
    BY <1>8, CheckIs, CheckTurns
  <2>4. CASE edge'[n][x].ok = e.ok /\ edge'[n][x].since = e.since
    <3>1. failures >= late /\ (failures > late \/ Pending(n, x))
      BY <1>4, <1>5, <2>1, <2>2, <2>4
    <3> QED
      BY <2>1, <3>1 DEF Pending, Speaking
  <2>5. CASE edge'[n][x].since = now /\ edge'[n][x].ok = link[n][x]
    <3> DEFINE f == edge'[n][x]
    <3>1. f.ok \in BOOLEAN /\ f.since \in Nat /\ t - RankDelay(n) \in Int
          /\ Ripe(f, LatestNotice(n, x)', t - RankDelay(n))
      BY <1>1, <1>3, <2>5, Numbers
    <3> HIDE DEF f
    <3>2. f.since < t - RankDelay(n)
      BY <3>1, RipeSince
    <3> QED
      BY <1>1, <2>1, <2>5, <3>2 DEF f
  <2> QED
    BY <2>3, <2>4, <2>5
<1>9. ASSUME NEW p \in Node, NEW y \in Target, Consider(p, y)
      PROVE  failures' >= late /\ (failures' > late \/ Pending(n, x)')
  <2>1. /\ UNCHANGED <<now, edge, notices, chat, failures>>
        /\ x \in due[n] => x \in due'[n] \/ (n = p /\ x = y)
    BY <1>9 DEF Consider, Typed, counts
  <2>2. LatestNotice(n, x)' = LatestNotice(n, x)
    BY <2>1, LatestStays
  <2>3. Comes(n, x, t) /\ failures >= late /\ (failures > late \/ Pending(n, x))
    BY <1>4, <1>5, <2>1, <2>2
  <2>4. Comes(n, x, now)
    BY <1>1, <1>3, <2>1, <2>3, ComesLater
  <2>5. CASE n = p /\ x = y
    <3>1. Decided(n, x, MessageOf(n, x))
      BY <1>9, <2>4, <2>5, ConsiderDecides
    <3>2. Speaking(n, x)'
      BY <3>1, DecidedIs DEF Speaking, MessageOf
    <3> QED
      BY <2>1, <2>3, <3>2 DEF Pending
  <2>6. CASE ~(n = p /\ x = y)
    <3>1. ~Record(n) /\ ~Fail(n)
      <4>1. CASE n = p
        BY <1>9, <4>1 DEF Consider, Record, Fail, NoMessage
      <4>2. CASE n # p
        BY <1>9, <4>2 DEF Consider, Record, Fail, Typed
      <4> QED
        BY <4>1, <4>2
    <3>2. Speaking(n, x) => Speaking(n, x)'
      BY <3>1, SpeakingNext
    <3> QED
      BY <2>1, <2>3, <2>6, <3>2 DEF Pending
  <2> QED
    BY <2>5, <2>6
<1>10. ASSUME NEW p \in Node, Send(p)
       PROVE  failures' >= late /\ (failures' > late \/ Pending(n, x)')
  <2>1. UNCHANGED <<now, edge, due, notices, failures>>
    BY <1>10 DEF Send, counts
  <2>2. failures >= late /\ (failures > late \/ Pending(n, x))
    BY <1>4, <1>5, <2>1, LatestStays
  <2>3. Speaking(n, x) => Speaking(n, x)'
    <3>1. ~Record(n) /\ ~Fail(n)
      <4>1. sending'[p].step = "record" /\ sending[p].step = "send"
            /\ \A m \in Node \ {p} : sending'[m] = sending[m]
        BY <1>10 DEF Send, Typed
      <4>2. Record(n) \/ Fail(n) => sending'[n].step = "none" /\ sending[n] # NoMessage
        BY DEF Record, Fail, Typed, NoMessage
      <4>3. sending'[n].step = "none" => sending[n] = NoMessage
        <5>1. sending[n] \in Sent
          BY DEF Typed
        <5> QED
          BY <4>1, <5>1 DEF Sent, NoMessage
      <4> QED
        BY <4>2, <4>3
    <3> QED
      BY <3>1, SpeakingNext
  <2> QED
    BY <2>1, <2>2, <2>3 DEF Pending
<1>11. ASSUME NEW p \in Node, Record(p)
       PROVE  failures' >= late /\ (failures' > late \/ Pending(n, x)')
  <2>1. UNCHANGED <<now, edge, due, failures>>
    BY <1>11 DEF Record, counts
  <2>2. \A m \in Node \ {p} : notices'[m] = notices[m]
    BY <1>11, RecordIs DEF Typed
  <2>3. NoticeOf(p).at = now /\ NoticeOf(p).to = chat[sending[p].index].to
    BY DEF NoticeOf
  <2>4. CASE n = p /\ x = NoticeOf(p).to
    <3> DEFINE k == NoticeOf(p)
    <3>1. k \in LatestNotice(n, x)' /\ (~k.down /\ ~e.ok => e.since >= k.at) /\ k.at = now
      BY <1>11, <2>3, <2>4, RecordNews
    <3>2. Ripe(edge[n][x], LatestNotice(n, x)', t - RankDelay(n))
      BY <2>1
    <3> HIDE DEF k
    <3>3. k.at + Delay < t
      BY <1>1, <1>3, <3>1, <3>2, NoTurn
    <3> QED
      BY <1>1, <2>1, <3>1, <3>3
  <2>5. CASE n = p /\ x # NoticeOf(p).to
    <3>1. failures >= late /\ (failures > late \/ Pending(n, x))
      BY <1>4, <1>5, <1>11, <2>1, <2>5, RecordNews
    <3>2. ~Speaking(n, x)
      BY <1>11, <2>3, <2>5 DEF Speaking, Record
    <3> QED
      BY <2>1, <3>1, <3>2 DEF Pending
  <2>6. CASE n # p
    <3>1. failures >= late /\ (failures > late \/ Pending(n, x))
      BY <1>4, <1>5, <2>1, <2>2, <2>6, LatestStays
    <3>2. Speaking(n, x) => Speaking(n, x)'
      <4>1. sending'[n] = sending[n]
        BY <1>11, <2>6 DEF Record, Typed
      <4>2. \A i \in 1..Len(chat) : chat'[i].to = chat[i].to
        BY <1>11, RecordChat
      <4>3. sending[n].step = "record" => sending[n].index \in 1..Len(chat)
        BY DEF Typed
      <4> QED
        BY <4>1, <4>2, <4>3 DEF Speaking
    <3> QED
      BY <2>1, <3>1, <3>2 DEF Pending
  <2> QED
    BY <2>4, <2>5, <2>6
<1>12. ASSUME NEW p \in Node, Fail(p)
       PROVE  failures' >= late /\ (failures' > late \/ Pending(n, x)')
  <2>1. UNCHANGED <<now, edge, notices>> /\ failures' = failures + 1
    BY <1>12 DEF Fail
  <2>2. failures >= late
    BY <1>4, <1>5, <2>1, LatestStays
  <2> QED
    BY <1>1, <2>1, <2>2
<1>13. ASSUME NEW p \in mail, Receive(p)
       PROVE  failures' >= late /\ (failures' > late \/ Pending(n, x)')
  <2>1. UNCHANGED <<now, edge, due, sending, chat, failures>>
    BY <1>13 DEF Receive, counts
  <2>2. CASE LatestNotice(n, x)' = LatestNotice(n, x)
    <3>1. failures >= late /\ (failures > late \/ Pending(n, x))
      BY <1>4, <1>5, <2>1, <2>2
    <3> QED
      BY <2>1, <3>1 DEF Pending, Speaking
  <2>3. ASSUME NEW l \in LatestNotice(n, x)', l \in Announced, l.to = x, now <= l.at + Delay
        PROVE  FALSE
    <3>1. l.at \in Nat /\ (~l.down /\ ~e.ok => e.since >= l.at)
      BY <2>3, Numbers, NoticeDated
    <3>2. Ripe(edge[n][x], LatestNotice(n, x)', t - RankDelay(n))
      BY <2>1
    <3>3. l.at + Delay < t
      BY <1>3, <3>1, <3>2, NoTurn
    <3> QED
      BY <1>1, <2>1, <2>3, <3>1, <3>3
  <2> QED
    BY <1>13, <2>2, <2>3, ReceiveNews
<1> QED
  BY <1>6, <1>7, <1>8, <1>9, <1>10, <1>11, <1>12, <1>13, StepsAre

LEMMA StaggeredNext == ASSUME Margins, VoiceInv, [Next]_vars PROVE Staggered'
<1> USE DEF VoiceInv, RunInv
<1>1. /\ now \in Nat /\ Delay \in Nat /\ DownAfter \in Nat /\ UpAfter \in Nat
      /\ \A n \in Node, x \in Target : /\ edge[n][x].since \in Nat /\ edge[n][x].ok \in BOOLEAN
                                       /\ link[n][x] \in BOOLEAN
                                       /\ RankDelay(n) \in Nat
  BY Numbers, Constants
<1> SUFFICES ASSUME NEW c \in Live', NEW q \in Node, NEW t, t = c.at + Delay,
                    q # c.by, edge'[q][c.to].ok # c.down, edge'[q][c.to].since <= c.at,
                    ~Heard(q, c)',
                    Ripe(edge'[q][c.to], LatestNotice(q, c.to)', t - RankDelay(q))
             PROVE  FALSE
  BY DEF Staggered, Waits, Comes
<1>2. ASSUME NEW n \in Node, NEW x \in Target, Decided(n, x, c)
      PROVE  FALSE
  <2>1. c.by = n /\ c.to = x /\ c.at = now /\ UNCHANGED <<edge, notices>>
    BY <1>2, DecidedIs
  <2>2. ~Comes(q, x, now + Delay)
    BY <1>2, <2>1, DecidedWaits
  <2>3. LatestNotice(q, x)' = LatestNotice(q, x)
    BY <2>1, LatestStays
  <2> QED
    BY <2>1, <2>2, <2>3 DEF Comes
<1>3. ASSUME NEW d \in Live, Same(c, d)
      PROVE  FALSE
  <2> DEFINE x == c.to
             e == edge[q][x]
  <2>1. /\ d.by = c.by /\ d.to = x /\ d.at = c.at /\ d.down = c.down
        /\ x \in Target /\ c.at \in Nat /\ c.at <= now /\ c.down \in BOOLEAN
    BY <1>3, SpokenIs DEF Same
  <2>2. Dated(d) /\ t \in Int
    BY <1>1, <2>1, SpokenIs DEF AllDated
  <2>3. ~Heard(q, d)
    <3>1. notices[q] \subseteq notices'[q]
      BY NoticesNext
    <3> QED
      BY <2>1, <3>1 DEF Heard, IsOf
  <2>4. e.ok # c.down /\ e.since <= c.at => ~Comes(q, x, t)
    BY <2>1, <2>3 DEF Staggered, Waits
  <2>5. ASSUME edge'[q][x].ok = e.ok, edge'[q][x].since = e.since,
               LatestNotice(q, x)' = LatestNotice(q, x)
        PROVE  FALSE
    <3>1. Comes(q, x, t)
      BY <2>1, <2>5, ComesStays DEF Comes
    <3> QED
      BY <2>4, <2>5, <3>1
  <2>6. ASSUME edge' = edge, notices'[q] = notices[q]
        PROVE  FALSE
    BY <2>5, <2>6, LatestStays
  <2>7. CASE Still \/ Tick
    BY <2>6, <2>7 DEF Still, Tick
  <2>8. ASSUME NEW n \in Node, \/ Send(n) \/ Fail(n) \/ \E y \in Target : Consider(n, y)
        PROVE  FALSE
    BY <2>6, <2>8 DEF Send, Fail, Consider
  <2>9. ASSUME NEW p \in Node, Check(p)
        PROVE  FALSE
    <3>1. LatestNotice(q, x)' = LatestNotice(q, x)
      BY <2>9, CheckIs, LatestStays
    <3>2. CASE edge'[q][x].ok = e.ok /\ edge'[q][x].since = e.since
      BY <2>5, <3>1, <3>2
    <3>3. CASE /\ q = p /\ edge'[q][x].ok # e.ok
               /\ edge'[q][x].since = now /\ e.since < now
      <4>1. edge'[q][x].ok \in BOOLEAN
        BY <1>1, <2>1, <2>9, <3>3, CheckIs
      <4>2. e.ok = d.down
        BY <1>1, <2>1, <3>3, <4>1
      <4>3. e.since >= d.at
        BY <2>1, <2>2, <4>2 DEF Dated
      <4> QED
        BY <1>1, <2>1, <3>3, <4>3
    <3>4. q # p => edge'[q][x] = edge[q][x]
      BY <2>1, <2>9, CheckIs
    <3> QED
      BY <2>1, <2>9, <3>2, <3>3, <3>4, CheckTurns
  <2>10. ASSUME NEW p \in Node, Record(p)
         PROVE  FALSE
    <3>1. edge' = edge
      BY <2>10 DEF Record
    <3>2. CASE q = p /\ x = NoticeOf(p).to
      <4> DEFINE k == NoticeOf(p)
      <4>1. /\ k \in LatestNotice(q, x)' /\ k.at = now
            /\ ~k.down /\ ~edge[q][x].ok => edge[q][x].since >= k.at
        BY <2>1, <2>10, <3>2, RecordNews DEF NoticeOf
      <4> HIDE DEF k
      <4>2. Ripe(edge[q][x], LatestNotice(q, x)', t - RankDelay(q))
        BY <3>1
      <4>3. k.at + Delay < t
        BY <1>1, <2>1, <2>2, <4>1, <4>2, NoTurn
      <4> QED
        BY <1>1, <2>1, <4>1, <4>3
    <3>3. CASE q = p /\ x # NoticeOf(p).to
      BY <2>1, <2>5, <2>10, <3>1, <3>3, RecordNews
    <3>4. CASE q # p
      <4>1. notices'[q] = notices[q]
        BY <2>10, <3>4, RecordIs DEF Typed
      <4> QED
        BY <2>6, <3>1, <4>1
    <3> QED
      BY <3>2, <3>3, <3>4
  <2>11. ASSUME NEW p \in mail, Receive(p)
         PROVE  FALSE
    <3>1. edge' = edge
      BY <2>11 DEF Receive
    <3>2. CASE LatestNotice(q, x)' = LatestNotice(q, x)
      BY <2>5, <3>1, <3>2
    <3>3. ASSUME NEW l \in LatestNotice(q, x)', l \in Announced, l.to = x,
                 now <= l.at + Delay, \A k \in LatestNotice(q, x) : k.at <= l.at
          PROVE  FALSE
      <4> DEFINE T == LatestNotice(q, x)'
                 s == t - RankDelay(q)
      <4>1. /\ l.at \in Nat /\ l.down \in BOOLEAN /\ e.since \in Nat /\ e.ok \in BOOLEAN
            /\ ~l.down /\ ~e.ok => e.since >= l.at
        BY <1>1, <2>1, <3>3, Numbers, NoticeDated
      <4>2. Ripe(e, T, s) /\ s \in Int /\ e.ok # c.down /\ e.since <= c.at
        <5>1. RankDelay(q) \in Nat
          BY RankDelayIs
        <5>2. s \in Int
          BY <2>2, <5>1
        <5>3. Ripe(e, T, s)
          BY <3>1
        <5> QED
          BY <3>1, <5>2, <5>3
      <4>3. e.since + (IF c.down THEN DownAfter ELSE UpAfter) <= c.at
        <5>1. \/ e.since > d.at
              \/ e.since + (IF d.down THEN DownAfter ELSE UpAfter) <= d.at
          BY <2>1, <2>2, <4>2 DEF Dated
        <5> QED
          BY <1>1, <2>1, <4>1, <4>2, <5>1
      <4>a. /\ now \in Nat /\ Delay \in Nat /\ DownAfter \in Nat /\ UpAfter \in Nat
            /\ c.at \in Nat /\ c.at <= now /\ now <= l.at + Delay
        BY <1>1, <2>1, <3>3
      <4> HIDE DEF T, s, e
      <4>4. CASE e.ok
        <5>1. e.since > l.at
          BY <3>3, <4>2, <4>4 DEF Ripe, T
        <5>2. e.since + UpAfter <= c.at /\ UpAfter >= Delay
          BY <2>1, <4>1, <4>2, <4>3, <4>4 DEF Margins
        <5> QED
          BY <4>1, <4>a, <5>1, <5>2
      <4>5. CASE ~e.ok /\ ~l.down
        <5>1. e.since + DownAfter <= c.at /\ DownAfter > Delay /\ e.since >= l.at
          BY <2>1, <4>1, <4>2, <4>3, <4>5 DEF Margins
        <5>2. e.since + Delay < c.at
          BY <4>1, <4>a, <5>1
        <5>3. l.at + Delay < c.at
          BY <4>1, <4>a, <5>1, <5>2
        <5> QED
          BY <4>1, <4>a, <5>3
      <4>6. CASE ~e.ok /\ l.down
        <5>1. e.since + DownAfter <= s /\ e.since + Repeat <= s /\ l.at + Repeat <= s
          BY <3>3, <4>2, <4>6 DEF Ripe, T
        <5>2. \A k \in LatestNotice(q, x) : k.at \in Nat /\ k.at <= l.at
          BY <2>1, <3>3, LatestAnnounced
        <5>3. \A k \in LatestNotice(q, x) : k.at + Repeat <= s
          <6>1. Repeat \in Nat
            BY Constants
          <6> QED
            BY <4>1, <4>2, <5>1, <5>2, <6>1
        <5>4. Ripe(e, LatestNotice(q, x), s)
          BY <4>6, <5>1, <5>3 DEF Ripe
        <5>5. Comes(q, x, t)
          BY <5>4 DEF Comes, s, e
        <5> QED
          BY <2>4, <4>2, <5>5
      <4> QED
        BY <4>1, <4>4, <4>5, <4>6
    <3> QED
      BY <2>1, <2>11, <3>2, <3>3, ReceiveNews
  <2> QED
    BY <2>7, <2>8, <2>9, <2>10, <2>11, StepsAre
<1> QED
  BY <1>2, <1>3, LiveNext

\* What a node is at is a message of its own, of this period.
LEMMA SpeakingIs ==
  ASSUME VoiceInv, NEW n \in Node, NEW x \in Target, Speaking(n, x)
  PROVE  /\ sending[n] # NoMessage
         /\ \E d \in Live : d.to = x /\ d.at = now
<1> USE DEF VoiceInv
<1>1. CASE sending[n].step = "send" /\ sending[n].message.to = x
  BY <1>1 DEF EchoInv, Present, Live, Deciding, NoMessage
<1>2. CASE sending[n].step = "record" /\ chat[sending[n].index].to = x
  <2>1. sending[n].index \in 1..Len(chat) /\ chat[sending[n].index].at = now
    BY <1>2 DEF EchoInv, Present, Typed
  <2> QED
    BY <1>2, <2>1 DEF Held, Live, NoMessage
<1> QED
  BY <1>1, <1>2 DEF Speaking

\* While one node is at a message about a target, no other decides on one.
LEMMA DecidedAlone ==
  ASSUME Margins, VoiceInv, NEW n \in Node, NEW x \in Target, NEW c, Decided(n, x, c),
         NEW m \in Node
  PROVE  ~Speaking(m, x)
<1> SUFFICES ASSUME Speaking(m, x)
             PROVE  FALSE
  OBVIOUS
<1> USE DEF VoiceInv, RunInv
<1>1. PICK d \in Live : d.to = x /\ d.at = now
  BY SpeakingIs
<1>2. d \in Spoken /\ d.down \in BOOLEAN
  BY SpokenIs
<1>3. d.down = c.down
  BY <1>1, <1>2, DecidedAgrees
<1>4. c.down = ~edge[n][x].ok /\ Comes(n, x, now) /\ sending[n] = NoMessage
  BY DecidedIs
<1>5. d.down # edge[n][x].ok
  BY <1>2, <1>3, <1>4, Numbers
<1>6. d.at + Delay < now
  BY <1>1, <1>4, <1>5, Heeded
<1> QED
  BY <1>1, <1>6, Numbers, Constants

LEMMA AloneNext == ASSUME Margins, VoiceInv, [Next]_vars PROVE Alone'
<1> USE DEF VoiceInv
<1> SUFFICES ASSUME NEW n \in Node, NEW m \in Node, NEW x \in Target,
                    Speaking(n, x)', Speaking(m, x)'
             PROVE  n = m
  BY DEF Alone
<1>1. Speaking(n, x) \/ \E c : Decided(n, x, c)
  BY SpeakingNext
<1>2. Speaking(m, x) \/ \E c : Decided(m, x, c)
  BY SpeakingNext
<1>3. CASE Speaking(n, x) /\ Speaking(m, x)
  BY <1>3 DEF Alone
<1>4. ASSUME NEW c, Decided(n, x, c)
      PROVE  n = m
  <2>1. ~Speaking(m, x)
    BY <1>4, DecidedAlone
  <2>2. PICK d : Decided(m, x, d)
    BY <1>2, <2>1
  <2> QED
    BY <1>4, <2>2, DecidedOnce
<1>5. ASSUME NEW c, Decided(m, x, c)
      PROVE  n = m
  <2>1. ~Speaking(n, x)
    BY <1>5, DecidedAlone
  <2>2. PICK d : Decided(n, x, d)
    BY <1>1, <2>1
  <2> QED
    BY <1>5, <2>2, DecidedOnce
<1> QED
  BY <1>1, <1>2, <1>3, <1>4, <1>5

\* A message a node decides on is the only voice, and an answer.
LEMMA DecidedIsVoice ==
  ASSUME Margins, VoiceInv, NEW n \in Node, NEW x \in Target, NEW c, Decided(n, x, c)
  PROVE  Voice(c, Len(chat) + 1) /\ Answer(c, Len(chat) + 1)
<1> USE DEF VoiceInv, RunInv
<1> DEFINE e    == edge[n][x]
           last == LatestNotice(n, x)
<1>1. /\ c.to = x /\ c.at = now /\ c.down = ~e.ok
      /\ Comes(n, x, now) /\ sending[n] = NoMessage
  BY DecidedIs
<1>2. /\ now \in Nat /\ Repeat \in Nat /\ e.since \in Nat /\ e.ok \in BOOLEAN
      /\ RankDelay(n) \in Nat /\ Len(chat) \in Nat
      /\ \A i \in 1..Len(chat) : chat[i].at \in Nat /\ chat[i].down \in BOOLEAN
  BY Numbers, Constants
<1>3. Ripe(e, last, now - RankDelay(n))
  BY <1>1 DEF Comes
<1>4. \A l \in last : l \in Announced /\ l.to = x /\ l.at \in Nat /\ l.down \in BOOLEAN
  BY LatestAnnounced
<1>5. ASSUME NEW i \in 1..Len(chat), chat[i].to = x, Held(i), chat[i].down # e.ok
      PROVE  \E l \in last : l.at >= chat[i].at
  <2>1. chat[i] \in Live
    BY <1>5 DEF Live
  <2> QED
    BY <1>1, <1>5, <2>1, Heeded
<1>6. ASSUME NEW l \in last
      PROVE  \E h \in 1..Len(chat) : chat[h].to = x /\ chat[h].at = l.at /\ chat[h].down = l.down
  BY <1>4 DEF Sources, IsOf
  \* Where one message is no older than one of the other kind, it stands after it.
<1>7. ASSUME NEW h \in 1..Len(chat), NEW i \in 1..Len(chat), chat[h].to = chat[i].to,
             chat[h].down # chat[i].down, chat[h].at >= chat[i].at
      PROVE  i < h
  <2> SUFFICES ASSUME h <= i
               PROVE  FALSE
    BY <1>2
  <2>1. h # i
    BY <1>7
  <2>2. chat[h].at <= chat[i].at
    BY <2>1, <1>2 DEF InOrder
  <2>3. chat[h].at = chat[i].at
    BY <1>2, <1>7, <2>2
  <2>4. chat[h] \in Spoken /\ chat[i] \in Spoken
    BY DEF Spoken
  <2> QED
    BY <1>7, <2>3, <2>4 DEF Agreed
<1>8. Voice(c, Len(chat) + 1)
  <2> SUFFICES ASSUME NEW i \in 1..Len(chat), chat[i].to = x, chat[i].down, c.down, Held(i),
                      now - chat[i].at < Repeat
               PROVE  \E h \in 1..Len(chat) : i < h /\ h < Len(chat) + 1 /\ chat[h].to = x
                                              /\ ~chat[h].down
    BY <1>1 DEF Voice
  <2>1. ~e.ok
    BY <1>1
  <2>2. PICK l \in last : l.at >= chat[i].at
    BY <1>2, <1>5, <2>1
  <2>3. ~l.down
    <3> SUFFICES ASSUME l.down
                 PROVE  FALSE
      OBVIOUS
    <3>1. l.at + Repeat <= now - RankDelay(n)
      BY <1>3, <2>1, <2>2 DEF Ripe
    <3> QED
      BY <1>2, <1>4, <2>2, <3>1
  <2>4. PICK h \in 1..Len(chat) : chat[h].to = x /\ chat[h].at = l.at /\ chat[h].down = l.down
    BY <1>6, <2>2
  <2>5. i < h
    BY <1>7, <2>2, <2>3, <2>4
  <2> QED
    BY <1>2, <2>3, <2>4, <2>5
<1>9. Answer(c, Len(chat) + 1)
  <2> SUFFICES ASSUME ~c.down
               PROVE  \E i \in 1..Len(chat) :
                        /\ i < Len(chat) + 1 /\ chat[i].to = x /\ chat[i].down
                        /\ \A h \in 1..Len(chat) :
                             i < h /\ h < Len(chat) + 1 /\ chat[h].to = x /\ Held(h) => chat[h].down
    BY <1>1 DEF Answer
  <2>1. e.ok
    BY <1>1, <1>2
  <2>2. last # {} /\ \A l \in last : l.down
    BY <1>3, <2>1 DEF Ripe
  <2> DEFINE D == {i \in 1..Len(chat) : chat[i].to = x /\ chat[i].down}
  <2>3. D # {} /\ D \in SUBSET Int /\ \A i \in D : i <= Len(chat)
    BY <1>2, <1>6, <2>2
  <2>4. Greatest(D) \in D /\ \A i \in D : i <= Greatest(D)
    <3>1. Len(chat) \in Int
      BY <1>2
    <3> HIDE DEF D
    <3> QED
      BY <2>3, <3>1, HasGreatest
  <2>5. PICK i \in 1..Len(chat) : /\ chat[i].to = x /\ chat[i].down
                                  /\ \A j \in D : j <= i
    BY <2>4
  <2>6. ASSUME NEW h \in 1..Len(chat), i < h, chat[h].to = x, Held(h)
        PROVE  chat[h].down
    <3> SUFFICES ASSUME ~chat[h].down
                 PROVE  FALSE
      OBVIOUS
    <3>1. PICK l \in last : l.at >= chat[h].at
      BY <1>2, <1>5, <2>1, <2>6
    <3>2. PICK j \in 1..Len(chat) : chat[j].to = x /\ chat[j].at = l.at /\ chat[j].down = l.down
      BY <1>6, <3>1
    <3>3. h < j
      BY <1>7, <2>2, <2>6, <3>1, <3>2
    <3>4. j <= i
      BY <2>2, <2>5, <3>1, <3>2
    <3> QED
      BY <1>2, <2>6, <3>3, <3>4
  <2> QED
    BY <1>2, <2>5, <2>6
<1> QED
  BY <1>8, <1>9

LEMMA VoicesNext == ASSUME Margins, VoiceInv, [Next]_vars PROVE Voices'
<1> USE DEF VoiceInv
<1>1. /\ Len(chat) \in Nat /\ Len(chat') \in Nat /\ Len(chat) <= Len(chat')
      /\ \A i \in 1..Len(chat) : Same(chat'[i], chat[i]) /\ (Held(i)' => Held(i))
  BY ChatNext
<1>2. ASSUME NEW c, NEW d, Same(c, d), NEW j \in 1..(Len(chat) + 1), Voice(d, j), Answer(d, j)
      PROVE  Voice(c, j)' /\ Answer(c, j)'
  <2>1. \A i \in 1..Len(chat') : i < j => i \in 1..Len(chat)
    BY <1>1
  <2>2. \A i \in 1..Len(chat) : i \in 1..Len(chat')
    BY <1>1
  <2>3. \A i \in 1..Len(chat) : chat'[i].to = chat[i].to /\ chat'[i].down = chat[i].down
                                /\ chat'[i].at = chat[i].at
    BY <1>1 DEF Same
  <2>4. c.to = d.to /\ c.down = d.down /\ c.at = d.at
    BY <1>2 DEF Same
  <2>5. Voice(c, j)'
    <3> SUFFICES ASSUME NEW i \in 1..Len(chat'), i < j, chat'[i].to = c.to, chat'[i].down, c.down,
                        Held(i)', c.at - chat'[i].at < Repeat
                 PROVE  \E h \in 1..Len(chat') : i < h /\ h < j /\ chat'[h].to = c.to /\ ~chat'[h].down
      BY DEF Voice
    <3>1. i \in 1..Len(chat) /\ Held(i)
      BY <1>1, <2>1
    <3>2. PICK h \in 1..Len(chat) : i < h /\ h < j /\ chat[h].to = d.to /\ ~chat[h].down
      BY <1>2, <2>3, <2>4, <3>1 DEF Voice
    <3> QED
      BY <2>2, <2>3, <2>4, <3>2
  <2>6. Answer(c, j)'
    <3> SUFFICES ASSUME ~c.down
                 PROVE  \E i \in 1..Len(chat') :
                          /\ i < j /\ chat'[i].to = c.to /\ chat'[i].down
                          /\ \A h \in 1..Len(chat') :
                               i < h /\ h < j /\ chat'[h].to = c.to /\ Held(h)' => chat'[h].down
      BY DEF Answer
    <3>1. PICK i \in 1..Len(chat) :
            /\ i < j /\ chat[i].to = d.to /\ chat[i].down
            /\ \A h \in 1..Len(chat) : i < h /\ h < j /\ chat[h].to = d.to /\ Held(h) => chat[h].down
      BY <1>2, <2>4 DEF Answer
    <3>2. \A h \in 1..Len(chat') : i < h /\ h < j /\ chat'[h].to = c.to /\ Held(h)' => chat'[h].down
      BY <1>1, <2>1, <2>3, <2>4, <3>1
    <3> QED
      BY <2>2, <2>3, <2>4, <3>1, <3>2
  <2> QED
    BY <2>5, <2>6
<1>3. ASSUME NEW j \in 1..Len(chat'), NEW c, c = chat'[j]
      PROVE  Voice(c, j)' /\ Answer(c, j)'
  <2>1. CASE j \in 1..Len(chat)
    <3>1. Voice(chat[j], j) /\ Answer(chat[j], j) /\ Same(c, chat[j]) /\ j \in 1..(Len(chat) + 1)
      BY <1>1, <1>3, <2>1 DEF Voices
    <3> QED
      BY <1>2, <3>1
  <2>2. CASE j \notin 1..Len(chat)
    <3>1. PICK n \in Node : /\ sending[n].step = "send"
                            /\ Len(chat') = Len(chat) + 1
                            /\ chat'[Len(chat) + 1] = sending[n].message
      BY <1>1, <2>2, ChatNext
    <3>2. j = Len(chat) + 1 /\ j \in 1..(Len(chat) + 1)
      BY <1>1, <2>2, <3>1
    <3>3. Voice(c, j) /\ Answer(c, j) /\ Same(c, c)
      BY <1>3, <3>1, <3>2 DEF Voices, Same
    <3> QED
      BY <1>2, <3>2, <3>3
  <2> QED
    BY <2>1, <2>2
<1>4. ASSUME NEW n \in Node, sending'[n].step = "send", NEW c, c = sending'[n].message,
             NEW k \in Nat, k = Len(chat) + 1, NEW e \in Nat, e = Len(chat') + 1
      PROVE  Voice(c, e)' /\ Answer(c, e)'
  <2>1. Same(c, c) /\ k \in 1..(Len(chat) + 1)
    BY <1>1, <1>4 DEF Same
  <2>2. ASSUME NEW x \in Target, Decided(n, x, c)
        PROVE  Voice(c, e)' /\ Answer(c, e)'
    <3>1. Voice(c, k) /\ Answer(c, k)
      BY <1>4, <2>2, DecidedIsVoice
    <3>2. chat' = chat
      BY <2>2, DecidedIs
    <3>3. Voice(c, k)' /\ Answer(c, k)'
      BY <1>2, <2>1, <3>1
    <3> QED
      BY <1>4, <3>2, <3>3
  <2>3. CASE sending'[n] = sending[n]
    <3>1. sending[n].step = "send" /\ c = sending[n].message
      BY <1>4, <2>3
    <3>2. Voice(c, k) /\ Answer(c, k)
      BY <1>4, <3>1 DEF Voices
    <3>3. Voice(c, k)' /\ Answer(c, k)'
      BY <1>2, <2>1, <3>2
    <3>4. CASE Len(chat') = Len(chat)
      BY <1>4, <3>3, <3>4
    <3>5. ASSUME NEW m \in Node, sending[m].step = "send", Send(m),
                 Len(chat') = Len(chat) + 1, chat'[Len(chat) + 1] = sending[m].message
          PROVE  Voice(c, e)' /\ Answer(c, e)'
      <4>1. n # m
        BY <1>4, <3>5 DEF Send, EchoInv, Typed
      <4>2. chat'[k].to # c.to
        <5> SUFFICES ASSUME sending[m].message.to = c.to
                     PROVE  FALSE
          BY <1>4, <3>5
        <5>1. c.to \in Target
          BY <3>1, SpokenIs DEF Spoken, Deciding
        <5>2. Speaking(n, c.to) /\ Speaking(m, c.to)
          BY <3>1, <3>5 DEF Speaking
        <5> QED
          BY <4>1, <5>1, <5>2 DEF Alone
      <4>3. e = k + 1
        BY <1>4, <3>5
      <4>4. \A h \in 1..Len(chat') : h < e => h < k \/ h = k
        BY <1>4, <4>3
      <4>5. \A h \in 1..Len(chat') : h < k => h < e
        BY <1>4, <4>3
      <4>6. Voice(c, e)'
        BY <3>3, <4>2, <4>4, <4>5 DEF Voice
      <4>7. Answer(c, e)'
        BY <3>3, <4>2, <4>4, <4>5 DEF Answer
      <4> QED
        BY <4>6, <4>7
    <3> QED
      BY <3>4, <3>5, ChatNext
  <2> QED
    BY <1>4, <2>2, <2>3, ChatNext
<1>5. \A j \in 1..Len(chat') : (Voice(chat[j], j) /\ Answer(chat[j], j))'
  BY <1>3 DEF Voice, Answer
<1>6. \A n \in Node : sending'[n].step = "send" =>
        (Voice(sending[n].message, Len(chat) + 1) /\ Answer(sending[n].message, Len(chat) + 1))'
  <2> SUFFICES ASSUME NEW n \in Node, sending'[n].step = "send"
               PROVE  (Voice(sending[n].message, Len(chat) + 1)
                         /\ Answer(sending[n].message, Len(chat) + 1))'
    OBVIOUS
  <2>1. Len(chat) + 1 \in Nat /\ Len(chat') + 1 \in Nat
    BY <1>1
  <2>2. \A c, e : c = sending'[n].message /\ e = Len(chat') + 1 => Voice(c, e)' /\ Answer(c, e)'
    BY <1>4, <2>1
  <2> QED
    BY <2>2 DEF Voice, Answer
<1> QED
  BY <1>5, <1>6 DEF Voices

LEMMA VoiceInit == ASSUME Margins PROVE Init => VoiceInv
<1> SUFFICES ASSUME Init
             PROVE  VoiceInv
  OBVIOUS
<1>1. EchoInv /\ RunInv
  BY EchoInit, RunInit
<1>2. /\ now = 0 /\ checked = Node /\ chat = <<>> /\ failures = 0 /\ Announced = {}
      /\ \A n \in Node : due[n] = {} /\ sending[n].step = "none" /\ notices[n] = {}
      /\ \A n \in Node, x \in Target :
           link[n][x] = TRUE /\ edge[n][x].ok = TRUE /\ edge[n][x].since = 0
  BY DEF Init, NoMessage, Fine, Unmet, Announced, Of, Margins
<1>3. 1..Len(chat) = {}
  BY <1>2
<1>4. Spoken = {} /\ Live = {}
  BY <1>2, <1>3 DEF Spoken, Live, Deciding
<1>5. ASSUME NEW n \in Node, NEW x \in Target, NEW t
      PROVE  ~Comes(n, x, t)
  <2>1. LatestNotice(n, x) = {}
    BY <1>2 DEF LatestNotice
  <2> QED
    BY <1>2, <2>1 DEF Comes, Ripe
<1>6. Alike
  <2> SUFFICES ASSUME NEW n \in Node, NEW m \in Node, NEW x \in Target
               PROVE  AlikeAt(n, m, x)
    BY DEF Alike
  <2>1. link[n][x] = link[m][x] /\ edge[n][x].ok = edge[m][x].ok /\ edge[n][x].ok = link[n][x]
    BY <1>2, Zenon
  <2>2. edge[n][x].since = 0 /\ edge[m][x].since = 0 /\ now = 0 /\ n \in checked
    BY <1>2, Zenon
  <2> QED
    BY <2>1, <2>2 DEF AlikeAt
<1>7. Arrived /\ InOrder /\ Sources /\ Noted
  BY <1>2, <1>3 DEF Arrived, InOrder, Sources, Noted
<1>8. AllDated /\ Agreed /\ Staggered
  BY <1>4 DEF AllDated, Agreed, Staggered
<1>9. Retried
  BY <1>5 DEF Retried
<1>10. Alone
  BY <1>2 DEF Alone, Speaking
<1>11. Voices
  BY <1>2, <1>3 DEF Voices
<1> QED
  BY <1>1, <1>6, <1>7, <1>8, <1>9, <1>10, <1>11 DEF VoiceInv

LEMMA VoiceAlways == ASSUME Margins PROVE Spec => []VoiceInv
<1>1. VoiceInv /\ [Next]_vars => VoiceInv'
  <2> SUFFICES ASSUME VoiceInv, [Next]_vars
               PROVE  VoiceInv'
    OBVIOUS
  <2>1. EchoInv' /\ RunInv'
    BY EchoNext, RunNext DEF VoiceInv, Margins
  <2>2. Alike' /\ Arrived' /\ InOrder' /\ Sources' /\ Noted'
    BY AlikeNext, ArrivedNext, InOrderNext, SourcesNext
  <2>3. AllDated' /\ Agreed' /\ Retried' /\ Staggered' /\ Alone' /\ Voices'
    BY AllDatedNext, AgreedNext, RetriedNext, StaggeredNext, AloneNext, VoicesNext
  <2> QED
    BY <2>1, <2>2, <2>3 DEF VoiceInv
<1> QED
  BY <1>1, VoiceInit, PTL DEF Spec

\* However many nodes share the routes: if none stops or comes late, and the windows and
\* the stagger outlast what a notice takes and the failures there may be, an outage that one
\* of them has announced no other announces again within the window, unless its end was
\* announced in between (decide, RankDelay, the notice stream).
THEOREM NodesSpeakWithOneVoice ==
  ASSUME Margins
  PROVE  Spec => []OneVoice
<1>1. VoiceInv => OneVoice
  <2> SUFFICES ASSUME VoiceInv, NEW x \in Target, NEW i \in About(x), NEW j \in About(x),
                      i < j, chat[i].down, chat[j].down, chat[i].recorded,
                      chat[j].at - chat[i].at < Repeat
               PROVE  \E h \in Between(i, j, x) : ~chat[h].down
    BY DEF OneVoice
  <2>1. i \in 1..Len(chat) /\ j \in 1..Len(chat) /\ chat[i].to = x /\ chat[j].to = x
    BY DEF About
  <2>2. Held(i) /\ Voice(chat[j], j)
    BY <2>1 DEF Held, VoiceInv, Voices
  <2>3. PICK h \in 1..Len(chat) : i < h /\ h < j /\ chat[h].to = x /\ ~chat[h].down
    BY <2>1, <2>2 DEF Voice
  <2> QED
    BY <2>3 DEF Between, About
<1> QED
  BY <1>1, VoiceAlways, PTL

\* Under the same conditions a recovery is announced once, and only after the outage was:
\* no recorded message stands between it and the report it answers but reports (decide).
THEOREM RecoveriesAnswerReports ==
  ASSUME Margins
  PROVE  Spec => []RecoveryAnswersReport
<1>1. VoiceInv => RecoveryAnswersReport
  <2> SUFFICES ASSUME VoiceInv, NEW x \in Target, NEW j \in About(x), ~chat[j].down
               PROVE  \E i \in About(x) : /\ i < j
                                          /\ chat[i].down
                                          /\ \A h \in Between(i, j, x) :
                                               chat[h].recorded => chat[h].down
    BY DEF RecoveryAnswersReport
  <2>1. j \in 1..Len(chat) /\ chat[j].to = x
    BY DEF About
  <2>2. Answer(chat[j], j)
    BY <2>1 DEF VoiceInv, Voices
  <2>3. PICK i \in 1..Len(chat) :
          /\ i < j /\ chat[i].to = x /\ chat[i].down
          /\ \A h \in 1..Len(chat) : i < h /\ h < j /\ chat[h].to = x /\ Held(h) => chat[h].down
    BY <2>1, <2>2 DEF Answer
  <2>4. \A h \in Between(i, j, x) : chat[h].recorded => chat[h].down
    BY <2>3 DEF Between, About, Held
  <2> QED
    BY <2>3, <2>4 DEF About
<1> QED
  BY <1>1, VoiceAlways, PTL

=============================================================================
