--------------------------- MODULE DashboardProofs ---------------------------
(***************************************************************************)
(* What holds of the feed of a page for any kinds, connections, numbers of *)
(* messages and sizes of the transport's buffer, however the page, its     *)
(* connections and the network come and go.                                *)
(***************************************************************************)
EXTENDS Dashboard, FiniteSetTheorems, TLAPS

LEMMA AppendFacts ==
    ASSUME NEW S, NEW s \in Seq(S), NEW e \in S
    PROVE  /\ Append(s, e) \in Seq(S) /\ Len(Append(s, e)) = Len(s) + 1 /\ Len(s) \in Nat
           /\ Append(s, e)[Len(s) + 1] = e
           /\ \A i \in 1..Len(s) : Append(s, e)[i] = s[i]
OBVIOUS

LEMMA TailFacts ==
    ASSUME NEW S, NEW s \in Seq(S), s # <<>>
    PROVE  /\ Tail(s) \in Seq(S) /\ Len(Tail(s)) = Len(s) - 1 /\ Len(s) \in Nat /\ Len(s) >= 1
           /\ Head(s) \in S /\ Head(s) = s[1]
           /\ \A i \in 1..Len(Tail(s)) : i + 1 \in 1..Len(s) /\ Tail(s)[i] = s[i + 1]
OBVIOUS

LEMMA SingletonFacts ==
    ASSUME NEW S, NEW e \in S
    PROVE  /\ <<e>> \in Seq(S) /\ Len(<<e>>) = 1 /\ <<e>>[1] = e
           /\ <<>> \in Seq(S) /\ Len(<<>>) = 0
OBVIOUS

----------------------------------------------------------------------------
(* Types, and the order of what is on its way to the page.                 *)

Broadcasts == [at : Conns \cup {NoConn}, todo : SUBSET Conns, dead : SUBSET Conns]
Handlers == {h \in [pc : {"none", "replay", "reading"}, pos : Nat, size : Nat] :
                h.pc = "replay" => h.pos > 0}

FeedTypes ==
    /\ count \in [Kinds -> Nat] /\ sticky \in Seq(Message) /\ connections \in SUBSET Conns
    /\ worker \in [Kinds -> Broadcasts]
    /\ link \in [Conns -> {"open", "broken", "closed"}] /\ wire \in [Conns -> Seq(Message)]
    /\ handler \in [Conns -> Handlers]
    /\ page \in {"connecting", "open", "waiting", "unmounted"}
    /\ sock \in Conns \cup {NoConn} /\ (page = "open" => sock \in Conns)
    /\ shown \in [Kinds -> Nat] /\ tally \in [Events -> Nat]

\* The sticky messages: the latest of each kind that had one.
Sticking ==
    /\ \A i \in 1..Len(sticky) : sticky[i].kind \in Sticky /\ sticky[i].n = count[sticky[i].kind]
    /\ \A k \in Sticky : count[k] > 0 => \E i \in 1..Len(sticky) : sticky[i].kind = k

\* The replay and a broadcast may both send a sticky message; an event is sent
\* once.
Before(k, a, b) == IF k \in Sticky THEN a <= b ELSE a < b

Queued(w, latest) ==
    /\ \A i \in 1..Len(w) : w[i].n <= latest[w[i].kind]
    /\ \A i, j \in 1..Len(w) : i < j /\ w[i].kind = w[j].kind
                                  => Before(w[i].kind, w[i].n, w[j].n)

OnTheWire ==
    /\ \A c \in Conns : Queued(wire[c], count)
    /\ \A k \in Kinds \ Sticky : \A c \in worker[k].todo :
          \A i \in 1..Len(wire[c]) : wire[c][i].kind = k => wire[c][i].n < count[k]

OnThePage ==
    /\ \A k \in Kinds : shown[k] <= count[k]
    /\ \A k \in Events : tally[k] <= shown[k]
    /\ sock \in Conns =>
          /\ \A i \in 1..Len(wire[sock]) :
                Before(wire[sock][i].kind, shown[wire[sock][i].kind], wire[sock][i].n)
          /\ \A k \in Kinds \ Sticky : sock \in worker[k].todo => shown[k] < count[k]

FeedInv == FeedTypes /\ Sticking /\ OnTheWire /\ OnThePage

LEMMA InitFeed == ASSUME Init PROVE FeedInv
<1>1. /\ count = [k \in Kinds |-> 0] /\ sticky = <<>> /\ connections = {}
      /\ worker = [k \in Kinds |-> Idle] /\ link = [c \in Conns |-> "closed"]
      /\ wire = [c \in Conns |-> <<>>] /\ handler = [c \in Conns |-> Returned]
      /\ page = "connecting" /\ sock = NoConn
      /\ shown = [k \in Kinds |-> 0] /\ tally = [k \in Events |-> 0]
  BY DEF Init, ServerInit
<1>2. Idle \in Broadcasts /\ Idle.todo = {} /\ Returned \in Handlers
  BY DEF Idle, Broadcasts, Returned, Handlers
<1>3. FeedTypes
  BY <1>1, <1>2 DEF FeedTypes
<1>4. Sticking
  BY <1>1, BroadcasterAssumption DEF Sticking
<1>5. OnTheWire
  BY <1>1, <1>2 DEF OnTheWire, Queued
<1>6. OnThePage
  BY <1>1, BroadcasterAssumption DEF OnThePage, Events
<1> QED
  BY <1>3, <1>4, <1>5, <1>6 DEF FeedInv

\* What changes no message, no broadcast and no page.
LEMMA FeedStutter ==
    ASSUME FeedInv, UNCHANGED <<count, sticky, worker, wire, shown, tally, sock>>,
           connections' \in SUBSET Conns, link' \in [Conns -> {"open", "broken", "closed"}],
           handler' \in [Conns -> Handlers],
           page' \in {"connecting", "open", "waiting", "unmounted"}, page' = "open" => page = "open"
    PROVE  FeedInv'
BY DEF FeedInv, FeedTypes, Sticking, OnTheWire, OnThePage, Queued, Before

\* A connection whose buffer is lost, and perhaps the page's socket with it.
LEMMA CloseFeed ==
    ASSUME FeedInv, NEW c \in Conns, Close(c), sock' \in {sock, NoConn},
           UNCHANGED <<count, sticky, worker, connections, shown, tally>>,
           handler' \in [Conns -> Handlers],
           page' \in {"connecting", "open", "waiting", "unmounted"},
           page' = "open" => page = "open" /\ sock' = sock
    PROVE  FeedInv'
<1>1. /\ link' \in [Conns -> {"open", "broken", "closed"}] /\ wire' \in [Conns -> Seq(Message)]
      /\ \A d \in Conns : wire'[d] = wire[d] \/ wire'[d] = <<>>
  BY DEF FeedInv, FeedTypes, Close
<1>2. FeedTypes'
  BY <1>1 DEF FeedInv, FeedTypes
<1>3. OnTheWire'
  BY <1>1 DEF FeedInv, FeedTypes, OnTheWire, Queued, Broadcasts, Before
<1>4. OnThePage'
  <2>1. CASE sock' \in Conns
    <3>1. sock' = sock /\ sock \in Conns
      BY <2>1, BroadcasterAssumption
    <3>2. CASE wire'[sock] = wire[sock]
      BY <3>1, <3>2 DEF FeedInv, OnThePage, Before
    <3>3. CASE wire'[sock] = <<>>
      BY <3>1, <3>3 DEF FeedInv, OnThePage
    <3> QED
      BY <1>1, <3>1, <3>2, <3>3
  <2>2. CASE sock' \notin Conns
    BY <2>2 DEF FeedInv, OnThePage
  <2> QED
    BY <2>1, <2>2
<1>5. Sticking'
  BY DEF FeedInv, Sticking
<1> QED
  BY <1>2, <1>3, <1>4, <1>5 DEF FeedInv
\* A message of kind k, the latest, is appended to what is on its way on c.
\* An event is none that c has had before.
LEMMA QueuedAppend ==
    ASSUME NEW w \in Seq(Message), NEW m \in Message, NEW latest, Queued(w, latest),
           m.n = latest[m.kind],
           m.kind \notin Sticky => \A i \in 1..Len(w) : w[i].kind = m.kind => w[i].n < m.n
    PROVE  Queued(Append(w, m), latest)
<1> DEFINE longer == Append(w, m)
<1>1. /\ Len(longer) = Len(w) + 1 /\ Len(w) \in Nat /\ longer[Len(w) + 1] = m
      /\ \A i \in 1..Len(w) : longer[i] = w[i]
  BY AppendFacts
<1> HIDE DEF longer
<1>2. m.n \in Nat
  BY DEF Message
<1>3. ASSUME NEW i \in 1..Len(longer) PROVE longer[i].n <= latest[longer[i].kind]
  <2>1. CASE i = Len(w) + 1
    BY <1>1, <1>2, <2>1
  <2>2. CASE i # Len(w) + 1
    <3>1. i \in 1..Len(w)
      BY <1>1, <2>2
    <3> QED
      BY <1>1, <3>1 DEF Queued
  <2> QED
    BY <2>1, <2>2
<1>4. ASSUME NEW i \in 1..Len(longer), NEW j \in 1..Len(longer), i < j,
             longer[i].kind = longer[j].kind
      PROVE  Before(longer[i].kind, longer[i].n, longer[j].n)
  <2>1. i \in 1..Len(w) /\ longer[i] = w[i]
    BY <1>1, <1>4
  <2>2. CASE j = Len(w) + 1
    <3>1. w[i].kind = m.kind /\ w[i].n <= latest[w[i].kind]
      BY <1>1, <1>4, <2>1, <2>2 DEF Queued
    <3> QED
      BY <1>1, <2>1, <2>2, <3>1 DEF Before
  <2>3. CASE j # Len(w) + 1
    <3>1. j \in 1..Len(w) /\ longer[j] = w[j]
      BY <1>1, <2>3
    <3> QED
      BY <1>4, <2>1, <3>1 DEF Queued
  <2> QED
    BY <2>2, <2>3
<1>5. \A a \in 1..Len(longer) : longer[a].n <= latest[longer[a].kind]
  BY <1>3
<1>6. \A a, b \in 1..Len(longer) : a < b /\ longer[a].kind = longer[b].kind
          => Before(longer[a].kind, longer[a].n, longer[b].n)
  BY <1>4
<1> QED
  BY <1>5, <1>6 DEF Queued, longer

\* A larger count of one kind keeps what is on the way in order.
LEMMA QueuedLater ==
    ASSUME NEW w \in Seq(Message), NEW old \in [Kinds -> Nat], NEW new \in [Kinds -> Nat],
           \A k \in Kinds : old[k] <= new[k], Queued(w, old)
    PROVE  Queued(w, new)
<1>1. ASSUME NEW i \in 1..Len(w) PROVE w[i].n <= new[w[i].kind]
  <2>1. w[i] \in Message /\ w[i].n <= old[w[i].kind]
    BY DEF Queued
  <2>2. w[i].kind \in Kinds /\ w[i].n \in Nat
    BY <2>1 DEF Message
  <2>3. old[w[i].kind] \in Nat /\ new[w[i].kind] \in Nat /\ old[w[i].kind] <= new[w[i].kind]
    BY <2>2
  <2> QED
    BY <2>1, <2>2, <2>3
<1> QED
  BY <1>1 DEF Queued

\* A step of the loop of broadcast(): for the first client or after a send.
LEMMA SendsFeed ==
    ASSUME FeedInv, NEW k \in Kinds, NEW n \in Nat, NEW todo \in SUBSET Conns,
           NEW dead \in SUBSET Conns, Sends(k, n, todo, dead),
           count[k] <= n, count' = [count EXCEPT ![k] = n],
           sticky' \in Seq(Message), Sticking',
           k \notin Sticky => \A c \in todo :
               /\ \A i \in 1..Len(wire[c]) : wire[c][i].kind = k => wire[c][i].n < n
               /\ c = sock => shown[k] < n,
           UNCHANGED <<link, handler, page, sock, shown, tally>>
    PROVE  FeedInv'
<1>1. /\ count \in [Kinds -> Nat] /\ wire \in [Conns -> Seq(Message)]
      /\ worker \in [Kinds -> Broadcasts] /\ shown \in [Kinds -> Nat]
      /\ connections \in SUBSET Conns
  BY DEF FeedInv, FeedTypes
<1>2. count' \in [Kinds -> Nat] /\ count'[k] = n /\ \A q \in Kinds : count[q] <= count'[q]
  BY <1>1
<1>3. \A c \in Conns : Queued(wire[c], count')
  BY <1>1, <1>2, QueuedLater DEF FeedInv, OnTheWire
<1>4. CASE todo = {}
  <2>1. wire' = wire /\ worker' = [worker EXCEPT ![k] = Idle] /\ connections' \in SUBSET Conns
    BY <1>1, <1>4 DEF Sends
  <2>2. Idle \in Broadcasts /\ Idle.todo = {}
    BY DEF Idle, Broadcasts
  <2>3. worker' \in [Kinds -> Broadcasts]
        /\ \A q \in Kinds : worker'[q].todo = {} \/ (q # k /\ worker'[q].todo = worker[q].todo)
    <3>1. worker' \in [Kinds -> Broadcasts] /\ worker'[k] = Idle
          /\ \A q \in Kinds : q # k => worker'[q] = worker[q]
      BY <1>1, <2>1, <2>2
    <3>2. ASSUME NEW q \in Kinds
          PROVE  worker'[q].todo = {} \/ (q # k /\ worker'[q].todo = worker[q].todo)
      <4>1. CASE q = k
        BY <2>2, <3>1, <4>1
      <4>2. CASE q # k
        BY <3>1, <4>2
      <4> QED
        BY <4>1, <4>2
    <3> QED
      BY <3>1, <3>2
  <2>4. FeedTypes'
    BY <1>2, <2>1, <2>3 DEF FeedInv, FeedTypes
  <2>5. OnTheWire'
    BY <1>1, <1>2, <1>3, <2>1, <2>3 DEF FeedInv, OnTheWire
  <2>6. OnThePage'
    <3>1. \A q \in Kinds : shown[q] <= count'[q]
      BY <1>1, <1>2 DEF FeedInv, OnThePage
    <3> QED
      BY <1>1, <1>2, <2>1, <2>3, <3>1 DEF FeedInv, OnThePage
  <2> QED
    BY <2>4, <2>5, <2>6 DEF FeedInv
<1>5. CASE todo # {}
  <2>1. PICK c \in todo :
           /\ worker' = [worker EXCEPT ![k] = [at |-> c, todo |-> todo \ {c}, dead |-> dead]]
           /\ Written(c, [kind |-> k, n |-> n]) /\ UNCHANGED connections
    BY <1>5 DEF Sends
  <2> DEFINE m == [kind |-> k, n |-> n]
  <2>2. m \in Message /\ m.kind = k /\ m.n = n /\ c \in Conns
    BY DEF Message
  <2>3. \/ wire' = wire
        \/ wire' = [wire EXCEPT ![c] = Append(wire[c], m)]
    BY <2>1 DEF Written
  <2> HIDE DEF m
  <2>4. wire[c] \in Seq(Message) /\ Queued(wire[c], count')
    BY <1>1, <1>3, <2>2
  <2>5. Queued(Append(wire[c], m), count') /\ Append(wire[c], m) \in Seq(Message)
    BY <1>2, <2>2, <2>4, QueuedAppend, AppendFacts
  <2>6. /\ wire' \in [Conns -> Seq(Message)]
        /\ \A d \in Conns : \/ wire'[d] = wire[d]
                            \/ d = c /\ wire'[d] = Append(wire[c], m)
    BY <1>1, <2>2, <2>3, <2>5
  <2>7. \A d \in Conns : Queued(wire'[d], count')
    BY <1>3, <2>5, <2>6
  <2>8. /\ worker' \in [Kinds -> Broadcasts] /\ worker'[k].todo = todo \ {c}
        /\ \A q \in Kinds : q # k => worker'[q].todo = worker[q].todo
    <3>1. [at |-> c, todo |-> todo \ {c}, dead |-> dead] \in Broadcasts
      BY <2>2 DEF Broadcasts
    <3> QED
      BY <1>1, <2>1, <3>1
  <2>9. FeedTypes'
    BY <1>2, <2>1, <2>6, <2>8 DEF FeedInv, FeedTypes
  <2>10. ASSUME NEW q \in Kinds \ Sticky, NEW d \in worker'[q].todo,
                NEW i \in 1..Len(wire'[d]), wire'[d][i].kind = q
         PROVE  wire'[d][i].n < count'[q]
    <3>1. d \in Conns
      BY <2>8, <2>10 DEF Broadcasts
    <3>2. CASE q = k
      <4>1. d \in todo /\ d # c /\ wire'[d] = wire[d]
        BY <2>6, <2>8, <3>1, <3>2
      <4> QED
        BY <1>2, <2>10, <3>2, <4>1
    <3>3. CASE q # k
      <4>1. d \in worker[q].todo /\ count'[q] = count[q]
        BY <1>1, <2>8, <3>3
      <4>2. CASE wire'[d] = wire[d]
        BY <2>10, <4>1, <4>2 DEF FeedInv, OnTheWire
      <4>3. CASE d = c /\ wire'[d] = Append(wire[c], m)
        <5>1. /\ Len(wire'[d]) = Len(wire[c]) + 1 /\ Len(wire[c]) \in Nat
              /\ wire'[d][Len(wire[c]) + 1] = m
              /\ \A j \in 1..Len(wire[c]) : wire'[d][j] = wire[c][j]
          BY <2>2, <2>4, <4>3, AppendFacts
        <5>2. i # Len(wire[c]) + 1
          BY <2>2, <2>10, <3>3, <5>1
        <5>3. i \in 1..Len(wire[c]) /\ wire'[d][i] = wire[c][i]
          BY <5>1, <5>2
        <5> QED
          BY <2>10, <4>1, <4>3, <5>3 DEF FeedInv, OnTheWire
      <4> QED
        BY <2>6, <3>1, <4>2, <4>3
    <3> QED
      BY <3>2, <3>3
  <2>11. OnTheWire'
    BY <2>7, <2>10 DEF OnTheWire
  <2>12. \A q \in Kinds : shown'[q] <= count'[q]
    BY <1>1, <1>2 DEF FeedInv, OnThePage
  <2>13. ASSUME sock \in Conns, NEW i \in 1..Len(wire'[sock])
         PROVE  Before(wire'[sock][i].kind, shown[wire'[sock][i].kind], wire'[sock][i].n)
    <3>1. CASE wire'[sock] = wire[sock]
      BY <2>13, <3>1 DEF FeedInv, OnThePage
    <3>2. CASE sock = c /\ wire'[sock] = Append(wire[c], m)
      <4>1. /\ Len(wire'[sock]) = Len(wire[c]) + 1 /\ Len(wire[c]) \in Nat
            /\ wire'[sock][Len(wire[c]) + 1] = m
            /\ \A j \in 1..Len(wire[c]) : wire'[sock][j] = wire[c][j]
        BY <2>2, <2>4, <3>2, AppendFacts
      <4>2. CASE i = Len(wire[c]) + 1
        <5>1. shown[k] <= n
          BY <1>2, <2>12
        <5>2. k \notin Sticky => shown[k] < n
          BY <3>2
        <5> QED
          BY <2>2, <4>1, <4>2, <5>1, <5>2 DEF Before
      <4>3. CASE i # Len(wire[c]) + 1
        <5>1. i \in 1..Len(wire[c]) /\ wire'[sock][i] = wire[sock][i]
          BY <3>2, <4>1, <4>3
        <5> QED
          BY <2>13, <3>2, <5>1 DEF FeedInv, OnThePage
      <4> QED
        BY <4>2, <4>3
    <3> QED
      BY <2>6, <2>13, <3>1, <3>2
  <2>14. ASSUME sock \in Conns, NEW q \in Kinds \ Sticky, sock \in worker'[q].todo
         PROVE  shown[q] < count'[q]
    <3>1. CASE q = k
      BY <1>2, <2>8, <2>14, <3>1
    <3>2. CASE q # k
      BY <1>1, <2>8, <2>14, <3>2 DEF FeedInv, OnThePage
    <3> QED
      BY <3>1, <3>2
  <2>15. OnThePage'
    BY <2>12, <2>13, <2>14 DEF FeedInv, OnThePage
  <2> QED
    BY <2>9, <2>11, <2>15 DEF FeedInv
<1> QED
  BY <1>4, <1>5

\* The dict of sticky messages after a message of kind k: its keys keep their
\* places, a new one comes last.
LEMMA KeptFacts ==
    ASSUME FeedInv, NEW k \in Sticky, NEW n \in Nat, NEW s2,
           s2 = Kept([kind |-> k, n |-> n])
    PROVE  /\ s2 \in Seq(Message) /\ Len(sticky) <= Len(s2)
           /\ \A i \in 1..Len(sticky) : s2[i].kind = sticky[i].kind
           /\ \A i \in 1..Len(s2) : \/ s2[i].kind = k /\ s2[i].n = n
                                    \/ /\ i \in 1..Len(sticky) /\ s2[i] = sticky[i]
                                       /\ s2[i].kind # k
           /\ \E i \in 1..Len(s2) : s2[i].kind = k
<1> DEFINE m == [kind |-> k, n |-> n]
<1>1. m \in Message /\ m.kind = k /\ m.n = n /\ sticky \in Seq(Message)
  BY BroadcasterAssumption DEF FeedInv, FeedTypes, Message
<1>2. CASE \E i \in 1..Len(sticky) : sticky[i].kind = k
  <2>1. s2 = [i \in 1..Len(sticky) |-> IF sticky[i].kind = k THEN m ELSE sticky[i]]
    BY <1>1, <1>2 DEF Kept
  <2> HIDE DEF m
  <2>2. \A i \in 1..Len(sticky) : sticky[i] \in Message
    BY <1>1
  <2>3. s2 \in Seq(Message) /\ Len(s2) = Len(sticky)
    BY <1>1, <2>1, <2>2
  <2> QED
    BY <1>1, <1>2, <2>1, <2>3
<1>3. CASE ~ \E i \in 1..Len(sticky) : sticky[i].kind = k
  <2>1. s2 = Append(sticky, m)
    BY <1>1, <1>3 DEF Kept
  <2> HIDE DEF m
  <2>2. /\ s2 \in Seq(Message) /\ Len(s2) = Len(sticky) + 1 /\ Len(sticky) \in Nat
        /\ s2[Len(sticky) + 1] = m /\ \A i \in 1..Len(sticky) : s2[i] = sticky[i]
    BY <1>1, <2>1, AppendFacts
  <2>3. \A i \in 1..Len(s2) : i = Len(sticky) + 1 \/ i \in 1..Len(sticky)
    BY <2>2
  <2>4. Len(sticky) + 1 \in 1..Len(s2) /\ Len(sticky) <= Len(s2)
    BY <2>2
  <2> QED
    BY <1>1, <1>3, <2>2, <2>3, <2>4
<1> QED
  BY <1>2, <1>3

LEMMA BroadcastFeed ==
    ASSUME FeedInv, NEW k \in Kinds, Broadcast(k), UNCHANGED <<page, sock, shown, tally>>
    PROVE  FeedInv'
<1> DEFINE n == count[k] + 1
<1>1. /\ count' = [count EXCEPT ![k] = n] /\ Sends(k, n, connections, {})
      /\ sticky' = IF k \in Sticky THEN Kept([kind |-> k, n |-> n]) ELSE sticky
      /\ UNCHANGED <<link, handler>>
  BY DEF Broadcast, IsSticky
<1>2. count \in [Kinds -> Nat] /\ connections \in SUBSET Conns /\ sticky \in Seq(Message)
      /\ Sticky \subseteq Kinds
  BY BroadcasterAssumption DEF FeedInv, FeedTypes
<1>3. n \in Nat /\ count[k] < n /\ count[k] <= n /\ count'[k] = n
      /\ \A q \in Kinds : q # k => count'[q] = count[q]
  BY <1>1, <1>2
<1> HIDE DEF n
<1>4. sticky' \in Seq(Message) /\ Sticking'
  <2>1. CASE k \in Sticky
    <3>1. sticky' = Kept([kind |-> k, n |-> n])
      BY <1>1, <2>1
    <3>2. /\ sticky' \in Seq(Message) /\ Len(sticky) <= Len(sticky')
          /\ \A i \in 1..Len(sticky) : sticky'[i].kind = sticky[i].kind
          /\ \A i \in 1..Len(sticky') : \/ sticky'[i].kind = k /\ sticky'[i].n = n
                                        \/ /\ i \in 1..Len(sticky) /\ sticky'[i] = sticky[i]
                                           /\ sticky'[i].kind # k
          /\ \E i \in 1..Len(sticky') : sticky'[i].kind = k
      BY <1>3, <2>1, <3>1, KeptFacts
    <3>3. \A i \in 1..Len(sticky') : sticky'[i].kind \in Sticky
                                     /\ sticky'[i].n = count'[sticky'[i].kind]
      BY <1>2, <1>3, <2>1, <3>2 DEF FeedInv, Sticking
    <3>4. ASSUME NEW q \in Sticky, count'[q] > 0
          PROVE  \E i \in 1..Len(sticky') : sticky'[i].kind = q
      <4>1. CASE q = k
        BY <3>2, <4>1
      <4>2. CASE q # k
        <5>1. PICK i \in 1..Len(sticky) : sticky[i].kind = q
          BY <1>2, <1>3, <3>4, <4>2 DEF FeedInv, Sticking
        <5>2. i \in 1..Len(sticky')
          BY <1>2, <3>2
        <5> QED
          BY <3>2, <5>1, <5>2
      <4> QED
        BY <4>1, <4>2
    <3> QED
      BY <3>2, <3>3, <3>4 DEF Sticking
  <2>2. CASE k \notin Sticky
    BY <1>1, <1>2, <1>3, <2>2 DEF FeedInv, Sticking
  <2> QED
    BY <2>1, <2>2
<1>5. ASSUME NEW c \in connections, k \notin Sticky
      PROVE  /\ \A i \in 1..Len(wire[c]) : wire[c][i].kind = k => wire[c][i].n < n
             /\ c = sock => shown[k] < n
  <2>1. ASSUME NEW i \in 1..Len(wire[c]), wire[c][i].kind = k
        PROVE  wire[c][i].n < n
    <3>1. c \in Conns /\ wire[c] \in Seq(Message) /\ Queued(wire[c], count)
      BY <1>2 DEF FeedInv, FeedTypes, OnTheWire
    <3>2. wire[c][i] \in Message /\ wire[c][i].n <= count[k]
      BY <2>1, <3>1 DEF Queued
    <3> QED
      BY <1>2, <1>3, <3>2 DEF Message
  <2>2. shown[k] < n
    <3>1. shown[k] \in Nat /\ count[k] \in Nat /\ shown[k] <= count[k]
      BY DEF FeedInv, FeedTypes, OnThePage
    <3> QED
      BY <1>3, <3>1
  <2> QED
    BY <2>1, <2>2
<1>6. k \notin Sticky => \A c \in connections :
          /\ \A i \in 1..Len(wire[c]) : wire[c][i].kind = k => wire[c][i].n < n
          /\ c = sock => shown[k] < n
  BY <1>5
<1>7. {} \in SUBSET Conns
  OBVIOUS
<1> QED
  BY <1>1, <1>2, <1>3, <1>4, <1>6, <1>7, SendsFeed

LEMMA SendReturnsFeed ==
    ASSUME FeedInv, NEW k \in Kinds, SendReturns(k), UNCHANGED <<page, sock, shown, tally>>
    PROVE  FeedInv'
<1> DEFINE c == worker[k].at
           dead == IF link[c] = "closed" THEN worker[k].dead \cup {c} ELSE worker[k].dead
<1>1. Sends(k, count[k], worker[k].todo, dead) /\ UNCHANGED <<count, sticky, link, handler>>
      /\ c # NoConn
  BY DEF SendReturns, Busy
<1>2. /\ worker[k] \in Broadcasts /\ count \in [Kinds -> Nat] /\ sticky \in Seq(Message)
  BY DEF FeedInv, FeedTypes
<1>3. dead \in SUBSET Conns /\ worker[k].todo \in SUBSET Conns
  BY <1>1, <1>2 DEF Broadcasts
<1> HIDE DEF c, dead
<1>4. /\ count[k] \in Nat /\ count[k] <= count[k] /\ count' = [count EXCEPT ![k] = count[k]]
      /\ sticky' \in Seq(Message) /\ Sticking'
  BY <1>1, <1>2 DEF FeedInv, Sticking
<1>5. ASSUME NEW d \in worker[k].todo, k \notin Sticky
      PROVE  /\ \A i \in 1..Len(wire[d]) : wire[d][i].kind = k => wire[d][i].n < count[k]
             /\ d = sock => shown[k] < count[k]
  BY <1>3, <1>5 DEF FeedInv, OnTheWire, OnThePage
<1> QED
  BY <1>1, <1>3, <1>4, <1>5, SendsFeed

LEMMA ReplayFeed ==
    ASSUME FeedInv, NEW c \in Conns, Replay(c),
           UNCHANGED <<page, sock, shown, tally>>
    PROVE  FeedInv'
<1>1. handler' \in [Conns -> Handlers]
  <2>1. Returned \in Handlers /\ [Returned EXCEPT !.pc = "reading"] \in Handlers
    BY DEF Returned, Handlers
  <2>2. handler[c] \in Handlers /\ handler[c].pos \in Nat
    BY DEF FeedInv, FeedTypes, Handlers
  <2>3. [handler[c] EXCEPT !.pos = handler[c].pos + 1] \in Handlers
    BY <2>2 DEF Handlers
  <2> QED
    BY <2>1, <2>2, <2>3 DEF Replay, FeedInv, FeedTypes
<1>2. CASE Close(c)
  BY <1>1, <1>2, CloseFeed DEF Replay, server, FeedInv, FeedTypes
<1>3. CASE wire' = wire /\ link' = link
  BY <1>1, <1>3, FeedStutter DEF Replay, server, FeedInv, FeedTypes
<1>4. CASE Len(sticky) = handler[c].size /\ ~Replayed(c) /\ Written(c, sticky[handler[c].pos])
           /\ link' = link
  <2> DEFINE m == sticky[handler[c].pos]
  <2>1. handler[c].pos \in 1..Len(sticky) /\ sticky \in Seq(Message)
    BY <1>4 DEF Replay, Replayed, FeedInv, FeedTypes, Handlers
  <2>2. m \in Message /\ m.kind \in Sticky /\ m.n = count[m.kind]
    BY <2>1 DEF FeedInv, Sticking
  <2> HIDE DEF m
  <2>3. CASE wire' = wire
    BY <1>1, <1>4, <2>3, FeedStutter DEF Replay, server, FeedInv, FeedTypes
  <2>4. CASE wire' = [wire EXCEPT ![c] = Append(wire[c], m)]
    <3>1. wire[c] \in Seq(Message) /\ Queued(wire[c], count)
      BY DEF FeedInv, FeedTypes, OnTheWire
    <3>2. Queued(Append(wire[c], m), count) /\ Append(wire[c], m) \in Seq(Message)
      BY <2>2, <3>1, QueuedAppend, AppendFacts
    <3>3. /\ wire' \in [Conns -> Seq(Message)] /\ wire'[c] = Append(wire[c], m)
          /\ \A d \in Conns : d # c => wire'[d] = wire[d]
      BY <2>4, <3>2 DEF FeedInv, FeedTypes
    <3>4. /\ Len(wire'[c]) = Len(wire[c]) + 1 /\ Len(wire[c]) \in Nat
          /\ wire'[c][Len(wire[c]) + 1] = m
          /\ \A j \in 1..Len(wire[c]) : wire'[c][j] = wire[c][j]
      BY <2>2, <3>1, <3>3, AppendFacts
    <3>5. ASSUME NEW i \in 1..Len(wire'[c])
          PROVE  \/ wire'[c][i] = m
                 \/ i \in 1..Len(wire[c]) /\ wire'[c][i] = wire[c][i]
      <4>1. i = Len(wire[c]) + 1 \/ i \in 1..Len(wire[c])
        BY <3>4
      <4> QED
        BY <3>4, <4>1
    <3>6. UNCHANGED <<count, sticky, worker, connections>>
      BY DEF Replay, server
    <3>7. FeedTypes'
      BY <1>1, <1>4, <3>3, <3>6 DEF FeedInv, FeedTypes
    <3>8. OnTheWire'
      <4>1. \A d \in Conns : Queued(wire'[d], count)
        BY <3>2, <3>3 DEF FeedInv, OnTheWire
      <4>2. ASSUME NEW k \in Kinds \ Sticky, NEW d \in worker[k].todo,
                   NEW i \in 1..Len(wire'[d]), wire'[d][i].kind = k
            PROVE  wire'[d][i].n < count[k]
        <5>1. d \in Conns
          BY DEF FeedInv, FeedTypes, Broadcasts
        <5>2. i \in 1..Len(wire[d]) /\ wire'[d][i] = wire[d][i]
          BY <2>2, <3>3, <3>5, <4>2, <5>1
        <5> QED
          BY <4>2, <5>2 DEF FeedInv, OnTheWire
      <4> QED
        BY <3>6, <4>1, <4>2 DEF OnTheWire
    <3>9. OnThePage'
      <4>1. ASSUME sock \in Conns, NEW i \in 1..Len(wire'[sock])
            PROVE  Before(wire'[sock][i].kind, shown[wire'[sock][i].kind], wire'[sock][i].n)
        <5>1. CASE sock = c /\ wire'[sock][i] = m
          <6>1. m.kind \in Kinds /\ shown[m.kind] <= count[m.kind]
            BY <2>2 DEF FeedInv, OnThePage, Message
          <6> QED
            BY <2>2, <5>1, <6>1 DEF Before
        <5>2. CASE i \in 1..Len(wire[sock]) /\ wire'[sock][i] = wire[sock][i]
          BY <4>1, <5>2 DEF FeedInv, OnThePage
        <5> QED
          BY <3>3, <3>5, <4>1, <5>1, <5>2
      <4> QED
        BY <3>6, <4>1 DEF FeedInv, OnThePage
    <3>10. Sticking'
      BY <3>6 DEF FeedInv, Sticking
    <3> QED
      BY <3>7, <3>8, <3>9, <3>10 DEF FeedInv
  <2> QED
    BY <1>4, <2>3, <2>4 DEF Written, m
<1> QED
  BY <1>2, <1>3, <1>4 DEF Replay

\* A connection that is accepted is in no broadcast and has nothing but the
\* first sticky message, which is no older than what the page shows.
LEMMA OpenFeed ==
    ASSUME FeedInv, NEW c \in Conns, Open(c)
    PROVE  FeedInv'
<1> DEFINE first == IF sticky = <<>> THEN <<>> ELSE <<sticky[1]>>
<1>1. /\ Unused(c) /\ connections' = connections \cup {c}
      /\ link' = [link EXCEPT ![c] = "open"] /\ wire' = [wire EXCEPT ![c] = first]
      /\ handler' = [handler EXCEPT ![c] =
            IF sticky = <<>> THEN [Returned EXCEPT !.pc = "reading"]
                             ELSE [pc |-> "replay", pos |-> 2, size |-> Len(sticky)]]
      /\ UNCHANGED <<count, sticky, worker, shown, tally>>
      /\ page' = "open" /\ sock' = c
  BY DEF Open, Accept, server, store
<1>2. /\ sticky \in Seq(Message) /\ worker \in [Kinds -> Broadcasts]
      /\ count \in [Kinds -> Nat] /\ shown \in [Kinds -> Nat] /\ wire \in [Conns -> Seq(Message)]
      /\ Sticky \subseteq Kinds
  BY BroadcasterAssumption DEF FeedInv, FeedTypes
<1>3. \/ first = <<>>
      \/ sticky # <<>> /\ first = <<sticky[1]>> /\ sticky[1] \in Message
         /\ sticky[1].kind \in Sticky /\ sticky[1].n = count[sticky[1].kind]
  <2>1. sticky # <<>> => 1 \in 1..Len(sticky)
    BY <1>2
  <2> QED
    BY <1>2, <2>1 DEF FeedInv, Sticking
<1> HIDE DEF first
<1>4. /\ first \in Seq(Message)
      /\ \A i \in 1..Len(first) : /\ i = 1 /\ Len(first) = 1 /\ first[1] \in Message
                                  /\ first[1].kind \in Sticky
                                  /\ first[1].n = count[first[1].kind]
  <2>1. CASE first = <<>>
    BY <2>1
  <2>2. CASE first = <<sticky[1]>> /\ sticky[1] \in Message
         /\ sticky[1].kind \in Sticky /\ sticky[1].n = count[sticky[1].kind]
    <3>1. first \in Seq(Message) /\ Len(first) = 1 /\ first[1] = sticky[1]
      BY <2>2, SingletonFacts
    <3> QED
      BY <2>2, <3>1
  <2> QED
    BY <1>3, <2>1, <2>2
<1>5. \A k \in Kinds : c \notin worker[k].todo
  BY <1>1 DEF Unused
<1>6. handler' \in [Conns -> Handlers]
  <2>1. [Returned EXCEPT !.pc = "reading"] \in Handlers
    BY DEF Returned, Handlers
  <2>2. [pc |-> "replay", pos |-> 2, size |-> Len(sticky)] \in Handlers
    BY <1>2 DEF Handlers
  <2> QED
    BY <1>1, <2>1, <2>2 DEF FeedInv, FeedTypes
<1>7. /\ wire' \in [Conns -> Seq(Message)] /\ wire'[c] = first
      /\ \A d \in Conns : d # c => wire'[d] = wire[d]
  BY <1>1, <1>2, <1>4
<1>8. FeedTypes'
  BY <1>1, <1>6, <1>7 DEF FeedInv, FeedTypes
<1>9. OnTheWire'
  <2>1. Queued(first, count)
    <3>1. ASSUME NEW i \in 1..Len(first) PROVE first[i].n <= count[first[i].kind]
      BY <1>2, <1>4 DEF Message
    <3>2. ASSUME NEW i \in 1..Len(first), NEW j \in 1..Len(first), i < j PROVE FALSE
      BY <1>4, <3>2
    <3> QED
      BY <3>1, <3>2 DEF Queued
  <2>2. \A d \in Conns : Queued(wire'[d], count)
    BY <1>7, <2>1 DEF FeedInv, OnTheWire
  <2>3. ASSUME NEW k \in Kinds \ Sticky, NEW d \in worker[k].todo,
               NEW i \in 1..Len(wire'[d]), wire'[d][i].kind = k
        PROVE  wire'[d][i].n < count[k]
    <3>1. d \in Conns /\ d # c
      BY <1>2, <1>5 DEF Broadcasts
    <3> QED
      BY <1>7, <2>3, <3>1 DEF FeedInv, OnTheWire
  <2> QED
    BY <1>1, <2>2, <2>3 DEF OnTheWire
<1>10. OnThePage'
  <2>1. ASSUME NEW i \in 1..Len(wire'[c])
        PROVE  Before(wire'[c][i].kind, shown[wire'[c][i].kind], wire'[c][i].n)
    <3>1. first[1].kind \in Kinds /\ first[1].kind \in Sticky /\ wire'[c][i] = first[1]
          /\ first[1].n = count[first[1].kind]
      BY <1>2, <1>4, <1>7
    <3>2. shown[first[1].kind] <= count[first[1].kind]
      BY <3>1 DEF FeedInv, OnThePage
    <3> QED
      BY <3>1, <3>2 DEF Before
  <2> QED
    BY <1>1, <1>5, <2>1 DEF FeedInv, OnThePage
<1>11. Sticking'
  BY <1>1 DEF FeedInv, Sticking
<1> QED
  BY <1>8, <1>9, <1>10, <1>11 DEF FeedInv

\* The page reads the oldest message on its way.
LEMMA OnMessageFeed ==
    ASSUME FeedInv, OnMessage
    PROVE  FeedInv' /\ \A k \in Kinds : shown'[k] >= shown[k]
<1> DEFINE m == Head(wire[sock])
<1>1. /\ page = "open" /\ wire[sock] # <<>> /\ wire' = [wire EXCEPT ![sock] = Tail(wire[sock])]
      /\ UNCHANGED <<count, sticky, worker, connections, link, handler, page, sock>>
  BY DEF OnMessage, server, client
<1>2. /\ sock \in Conns /\ wire \in [Conns -> Seq(Message)] /\ wire[sock] \in Seq(Message)
      /\ count \in [Kinds -> Nat] /\ shown \in [Kinds -> Nat] /\ tally \in [Events -> Nat]
      /\ worker \in [Kinds -> Broadcasts]
  BY <1>1 DEF FeedInv, FeedTypes
<1>3. /\ Tail(wire[sock]) \in Seq(Message) /\ Len(Tail(wire[sock])) = Len(wire[sock]) - 1
      /\ Len(wire[sock]) \in Nat /\ Len(wire[sock]) >= 1 /\ m \in Message /\ m = wire[sock][1]
      /\ \A i \in 1..Len(Tail(wire[sock])) :
            i + 1 \in 1..Len(wire[sock]) /\ Tail(wire[sock])[i] = wire[sock][i + 1]
  BY <1>1, <1>2, TailFacts
<1>4. /\ wire' \in [Conns -> Seq(Message)] /\ wire'[sock] = Tail(wire[sock])
      /\ \A d \in Conns : d # sock => wire'[d] = wire[d]
  BY <1>1, <1>2, <1>3
<1>5. 1 \in 1..Len(wire[sock]) /\ m.kind \in Kinds /\ m.n \in Nat /\ m.n <= count[m.kind]
      /\ Before(m.kind, shown[m.kind], m.n)
  <2>1. 1 \in 1..Len(wire[sock])
    BY <1>3
  <2> QED
    BY <1>2, <1>3, <2>1 DEF FeedInv, OnTheWire, OnThePage, Queued, Message
<1>6. \/ shown' = shown /\ tally' = tally
      \/ /\ shown' = [shown EXCEPT ![m.kind] = m.n]
         /\ \/ m.kind \in Sticky /\ tally' = tally
            \/ m.kind \notin Sticky /\ tally' = [tally EXCEPT ![m.kind] = tally[m.kind] + 1]
  BY DEF OnMessage, store
<1> HIDE DEF m
<1>7. /\ shown' \in [Kinds -> Nat]
      /\ \A k \in Kinds : shown'[k] = shown[k] \/ (k = m.kind /\ shown'[k] = m.n)
      /\ shown[m.kind] <= m.n
  <2>1. shown[m.kind] \in Nat /\ shown[m.kind] <= m.n
    BY <1>2, <1>5 DEF Before
  <2>2. shown' = shown \/ shown' = [shown EXCEPT ![m.kind] = m.n]
    BY <1>6
  <2> QED
    BY <1>2, <1>5, <2>1, <2>2
<1>8. tally' \in [Events -> Nat] /\ \A k \in Events : tally'[k] <= shown'[k]
  <2>1. CASE shown' = shown /\ tally' = tally
    BY <1>2, <2>1 DEF FeedInv, OnThePage
  <2>2. CASE shown' = [shown EXCEPT ![m.kind] = m.n] /\ m.kind \in Sticky /\ tally' = tally
    BY <1>2, <1>5, <2>2 DEF FeedInv, OnThePage, Events
  <2>3. CASE /\ shown' = [shown EXCEPT ![m.kind] = m.n] /\ m.kind \notin Sticky
             /\ tally' = [tally EXCEPT ![m.kind] = tally[m.kind] + 1]
    <3>1. m.kind \in Events /\ tally[m.kind] \in Nat /\ shown[m.kind] \in Nat
          /\ tally[m.kind] <= shown[m.kind] /\ shown[m.kind] < m.n
      BY <1>2, <1>5, <2>3 DEF FeedInv, OnThePage, Events, Before
    <3>2. tally' \in [Events -> Nat] /\ tally'[m.kind] = tally[m.kind] + 1
          /\ \A k \in Events : k # m.kind => tally'[k] = tally[k]
      BY <1>2, <2>3, <3>1
    <3>3. shown'[m.kind] = m.n /\ \A k \in Events : k # m.kind => shown'[k] = shown[k]
      BY <1>2, <1>5, <2>3 DEF Events
    <3>4. \A k \in Events : tally[k] <= shown[k]
      BY DEF FeedInv, OnThePage
    <3>5. tally'[m.kind] <= shown'[m.kind]
      BY <1>5, <3>1, <3>2, <3>3
    <3> QED
      BY <3>2, <3>3, <3>4, <3>5
  <2> QED
    BY <1>6, <2>1, <2>2, <2>3
<1>9. FeedTypes'
  BY <1>1, <1>4, <1>7, <1>8 DEF FeedInv, FeedTypes
<1>10. Queued(Tail(wire[sock]), count)
  <2>1. Queued(wire[sock], count)
    BY <1>2 DEF FeedInv, OnTheWire
  <2>2. ASSUME NEW i \in 1..Len(Tail(wire[sock])), NEW j \in 1..Len(Tail(wire[sock])), i < j,
               Tail(wire[sock])[i].kind = Tail(wire[sock])[j].kind
        PROVE  Before(Tail(wire[sock])[i].kind, Tail(wire[sock])[i].n, Tail(wire[sock])[j].n)
    <3>1. i + 1 < j + 1
      BY <2>2
    <3> QED
      BY <1>3, <2>1, <2>2, <3>1 DEF Queued
  <2>3. \A i \in 1..Len(Tail(wire[sock])) :
            Tail(wire[sock])[i].n <= count[Tail(wire[sock])[i].kind]
    BY <1>3, <2>1 DEF Queued
  <2> QED
    BY <2>2, <2>3 DEF Queued
<1>11. OnTheWire'
  <2>1. \A d \in Conns : Queued(wire'[d], count)
    BY <1>4, <1>10 DEF FeedInv, OnTheWire
  <2>2. ASSUME NEW k \in Kinds \ Sticky, NEW d \in worker[k].todo,
               NEW i \in 1..Len(wire'[d]), wire'[d][i].kind = k
        PROVE  wire'[d][i].n < count[k]
    <3>1. d \in Conns
      BY <1>2 DEF Broadcasts
    <3>2. PICK j \in 1..Len(wire[d]) : wire[d][j] = wire'[d][i]
      BY <1>3, <1>4, <3>1
    <3> QED
      BY <2>2, <3>2 DEF FeedInv, OnTheWire
  <2> QED
    BY <1>1, <2>1, <2>2 DEF OnTheWire
<1>12. OnThePage'
  <2>1. \A k \in Kinds : shown'[k] <= count[k]
    BY <1>2, <1>5, <1>7 DEF FeedInv, OnThePage
  <2>2. ASSUME NEW i \in 1..Len(wire'[sock])
        PROVE  Before(wire'[sock][i].kind, shown'[wire'[sock][i].kind], wire'[sock][i].n)
    <3>1. i + 1 \in 1..Len(wire[sock]) /\ wire'[sock][i] = wire[sock][i + 1]
      BY <1>3, <1>4
    <3>2. Before(wire'[sock][i].kind, shown[wire'[sock][i].kind], wire'[sock][i].n)
      BY <1>2, <3>1 DEF FeedInv, OnThePage
    <3>3. wire'[sock][i].kind \in Kinds
      <4>1. wire'[sock][i] \in Message
        BY <1>2, <3>1
      <4> QED
        BY <4>1 DEF Message
    <3>4. CASE shown'[wire'[sock][i].kind] = shown[wire'[sock][i].kind]
      BY <3>2, <3>4
    <3>5. CASE wire'[sock][i].kind = m.kind /\ shown'[wire'[sock][i].kind] = m.n
      <4>1. 1 < i + 1 /\ wire[sock][1].kind = wire[sock][i + 1].kind
        BY <1>3, <3>1, <3>5
      <4> QED
        BY <1>2, <1>3, <1>5, <3>1, <3>5, <4>1 DEF FeedInv, OnTheWire, Queued
    <3> QED
      BY <1>7, <3>3, <3>4, <3>5
  <2>3. ASSUME NEW k \in Kinds \ Sticky, sock \in worker[k].todo PROVE shown'[k] < count[k]
    <3>1. shown[k] < count[k]
      BY <1>2, <2>3 DEF FeedInv, OnThePage
    <3>2. CASE k = m.kind /\ shown'[k] = m.n
      BY <1>2, <1>3, <1>5, <2>3, <3>2 DEF FeedInv, OnTheWire
    <3> QED
      BY <1>7, <3>1, <3>2
  <2> QED
    BY <1>1, <1>8, <2>1, <2>2, <2>3 DEF OnThePage
<1>13. Sticking'
  BY <1>1 DEF FeedInv, Sticking
<1>14. ASSUME NEW k \in Kinds PROVE shown'[k] >= shown[k]
  <2>1. shown[k] \in Nat /\ shown'[k] \in Nat
    BY <1>2, <1>7
  <2> QED
    BY <1>5, <1>7, <2>1
<1> QED
  BY <1>9, <1>11, <1>12, <1>13, <1>14 DEF FeedInv

\* What leaves the store and the server alone, and perhaps forgets the socket.
LEMMA PageFeed ==
    ASSUME FeedInv, sock' \in {sock, NoConn}, page' \in {"connecting", "waiting", "unmounted"},
           UNCHANGED <<count, sticky, worker, connections, link, wire, handler, shown, tally>>
    PROVE  FeedInv'
<1>1. FeedTypes'
  BY DEF FeedInv, FeedTypes
<1>2. OnTheWire' /\ Sticking'
  BY DEF FeedInv, OnTheWire, Sticking, Queued, Before
<1>3. OnThePage'
  BY BroadcasterAssumption DEF FeedInv, OnThePage, Before
<1> QED
  BY <1>1, <1>2, <1>3 DEF FeedInv

LEMMA StepFeed ==
    ASSUME FeedInv, [Next]_vars
    PROVE  FeedInv' /\ \A k \in Kinds : shown'[k] >= shown[k]
<1>1. /\ connections \in SUBSET Conns /\ link \in [Conns -> {"open", "broken", "closed"}]
      /\ handler \in [Conns -> Handlers] /\ shown \in [Kinds -> Nat]
      /\ page \in {"connecting", "open", "waiting", "unmounted"} /\ (page = "open" => sock \in Conns)
      /\ [Returned EXCEPT !.pc = "reading"] \in Handlers /\ Returned \in Handlers
  BY DEF FeedInv, FeedTypes, Returned, Handlers
<1>stays. shown' = shown => \A k \in Kinds : shown'[k] >= shown[k]
  BY <1>1
<1>2. CASE UNCHANGED vars
  BY <1>1, <1>2, <1>stays, FeedStutter DEF vars, server, net, client, store
<1>3. ASSUME NEW k \in Kinds, ServerSide(Broadcast(k)) PROVE FeedInv' /\ shown' = shown
  BY <1>3, BroadcastFeed DEF ServerSide, client, store
<1>4. ASSUME NEW k \in Kinds, ServerSide(SendReturns(k)) PROVE FeedInv' /\ shown' = shown
  BY <1>4, SendReturnsFeed DEF ServerSide, client, store
<1>5. ASSUME NEW c \in Conns, ServerSide(Replay(c)) PROVE FeedInv' /\ shown' = shown
  BY <1>5, ReplayFeed DEF ServerSide, client, store
<1>6. ASSUME NEW c \in Conns, ServerSide(HandlerEnds(c)) PROVE FeedInv' /\ shown' = shown
  <2>1. /\ handler' \in [Conns -> Handlers] /\ connections' \in SUBSET Conns
        /\ UNCHANGED <<count, sticky, worker, link, wire, page, sock, shown, tally>>
    BY <1>1, <1>6 DEF ServerSide, HandlerEnds, server, client, store
  <2> QED
    BY <1>1, <2>1, FeedStutter
<1>7. ASSUME NEW c \in Conns, ServerSide(Heartbeat(c)) PROVE FeedInv' /\ shown' = shown
  BY <1>1, <1>7, CloseFeed DEF ServerSide, Heartbeat, server, client, store
<1>8. ASSUME NEW c \in Conns, ServerSide(Breaks(c)) PROVE FeedInv' /\ shown' = shown
  <2>1. /\ link' \in [Conns -> {"open", "broken", "closed"}]
        /\ UNCHANGED <<count, sticky, worker, connections, handler, wire, page, sock, shown, tally>>
    BY <1>1, <1>8 DEF ServerSide, Breaks, server, client, store
  <2> QED
    BY <1>1, <2>1, FeedStutter
<1>9. CASE ServerSide(Server)
  <2>1. \/ \E k \in Kinds : ServerSide(Broadcast(k)) \/ ServerSide(SendReturns(k))
        \/ \E c \in Conns : \/ ServerSide(Replay(c)) \/ ServerSide(HandlerEnds(c))
                            \/ ServerSide(Heartbeat(c)) \/ ServerSide(Breaks(c))
    BY <1>9, Zenon DEF ServerSide, Server
  <2>2. FeedInv' /\ shown' = shown
    BY <1>3, <1>4, <1>5, <1>6, <1>7, <1>8, <2>1
  <2> QED
    BY <2>2, <1>stays
<1>10. ASSUME NEW c \in Conns, Open(c) PROVE FeedInv' /\ shown' = shown
  BY <1>10, OpenFeed DEF Open, store
<1>11. CASE OnMessage
  BY <1>11, OnMessageFeed
<1>12. CASE AttemptFails
  BY <1>12, <1>stays, PageFeed DEF AttemptFails, OnClose, server, net, store
<1>13. CASE ConnectionLost
  BY <1>13, <1>stays, PageFeed DEF ConnectionLost, OnClose, server, net, store
<1>14. CASE TimerFires
  BY <1>14, <1>stays, PageFeed DEF TimerFires, server, net, store
<1>15. CASE Mount
  BY <1>15, <1>stays, PageFeed DEF Mount, server, net, store
<1>16. CASE Unmount
  <2>1. CASE page = "open"
    <3>1. /\ sock \in Conns /\ Close(sock) /\ sock' = NoConn /\ page' = "unmounted"
          /\ handler' \in [Conns -> Handlers]
          /\ UNCHANGED <<count, sticky, worker, connections, handler, shown, tally>>
      BY <1>1, <1>16, <2>1 DEF Unmount, server, store
    <3> QED
      BY <3>1, <1>stays, CloseFeed
  <2>2. CASE page # "open"
    BY <1>16, <2>2, <1>stays, PageFeed DEF Unmount, server, store
  <2> QED
    BY <2>1, <2>2
<1>17. ASSUME NEW m \in Event, HandleLogs(m) PROVE FeedInv' /\ shown' = shown
  <2>1. UNCHANGED <<count, sticky, worker, connections, link, wire, handler, page, sock, shown, tally>>
    BY <1>17 DEF HandleLogs, server, net, client
  <2> QED
    BY <1>1, <2>1, FeedStutter
<1>18. CASE Next
  BY <1>9, <1>10, <1>11, <1>12, <1>13, <1>14, <1>15, <1>16, <1>17, <1>stays, <1>18 DEF Next
<1> QED
  BY <1>2, <1>stays, <1>18 DEF vars, store

\* Whatever the network does to the page's connections, the replay of a new
\* one, a broadcast racing it and what was still on its way (_handle_ws(),
\* broadcast(), onmessage) never show the page a message that is older than
\* the one of its kind that it shows.
THEOREM PageNeverGoesBack == Spec => NeverBackwards
<1>1. Init => FeedInv
  BY InitFeed
<1>2. FeedInv /\ [Next]_vars => FeedInv'
  BY StepFeed
<1>3. FeedInv /\ [Next]_vars => [\A k \in Kinds : shown'[k] >= shown[k]]_vars
  BY StepFeed
<1> QED
  BY <1>1, <1>2, <1>3, PTL DEF Spec, NeverBackwards

\* The page adds a payment or a compliance event up at most once (pushPayment,
\* pushComplianceEvent), after any number of reconnects.
THEOREM PaymentsCountedOnce == Spec => []CountedOnce
<1>1. Init => FeedInv
  BY InitFeed
<1>2. FeedInv /\ [Next]_vars => FeedInv'
  BY StepFeed
<1>3. FeedInv => CountedOnce
  <2>1. ASSUME FeedInv, NEW k \in Events PROVE tally[k] <= count[k]
    <3>1. k \in Kinds /\ tally[k] \in Nat /\ shown[k] \in Nat /\ count[k] \in Nat
          /\ tally[k] <= shown[k] /\ shown[k] <= count[k]
      BY <2>1 DEF FeedInv, FeedTypes, OnThePage, Events
    <3> QED
      BY <3>1
  <2> QED
    BY <2>1 DEF CountedOnce
<1> QED
  BY <1>1, <1>2, <1>3, PTL DEF Spec

----------------------------------------------------------------------------
(* A page that is up to date.                                              *)

\* A connection that is not closed gets the next broadcast; a broadcast that
\* ended has nobody left to send to.
ConnInv ==
    /\ \A c \in Conns : link[c] # "closed" => c \in connections
    /\ \A k \in Kinds : \A c \in worker[k].dead : link[c] = "closed"
    /\ \A k \in Kinds : ~Busy(k) => worker[k].todo = {}

LEMMA InitConn == ASSUME Init PROVE ConnInv
BY DEF Init, ServerInit, ConnInv, Idle

\* A loop over the connections removes those that are closed.
LEMMA SendsConn ==
    ASSUME FeedInv, ConnInv, NEW k \in Kinds, NEW n, NEW todo \in SUBSET Conns,
           NEW dead \in SUBSET Conns, \A c \in dead : link[c] = "closed",
           Sends(k, n, todo, dead), link' = link
    PROVE  ConnInv'
<1>1. worker \in [Kinds -> Broadcasts] /\ Idle.todo = {} /\ Idle.dead = {} /\ Idle.at = NoConn
  BY DEF FeedInv, FeedTypes, Idle
<1>2. CASE todo = {}
  <2>1. /\ connections' = connections \ dead /\ worker'[k] = Idle
        /\ \A q \in Kinds : q # k => worker'[q] = worker[q]
    BY <1>1, <1>2 DEF Sends
  <2> QED
    BY <1>1, <2>1 DEF ConnInv, Busy
<1>3. CASE todo # {}
  <2>1. PICK c \in todo :
           /\ worker' = [worker EXCEPT ![k] = [at |-> c, todo |-> todo \ {c}, dead |-> dead]]
           /\ connections' = connections
    BY <1>3 DEF Sends
  <2>2. /\ worker'[k].at = c /\ worker'[k].dead = dead
        /\ \A q \in Kinds : q # k => worker'[q] = worker[q]
    BY <1>1, <2>1
  <2>3. c # NoConn
    BY BroadcasterAssumption
  <2> QED
    BY <2>1, <2>2, <2>3 DEF ConnInv, Busy
<1> QED
  BY <1>2, <1>3

LEMMA StepConn ==
    ASSUME FeedInv, ConnInv, [Next]_vars
    PROVE  ConnInv'
<1>1. /\ connections \in SUBSET Conns /\ link \in [Conns -> {"open", "broken", "closed"}]
      /\ worker \in [Kinds -> Broadcasts] /\ (page = "open" => sock \in Conns)
  BY DEF FeedInv, FeedTypes
\* What may close connections, and does nothing else to them.
<1>2. ASSUME connections' = connections, worker' = worker,
             \A c \in Conns : link'[c] # "closed" => link[c] # "closed"
      PROVE  ConnInv'
  <2>1. \A k \in Kinds : worker[k].dead \in SUBSET Conns
    BY <1>1 DEF Broadcasts
  <2> QED
    BY <1>2, <2>1 DEF ConnInv, Busy
<1>3. ASSUME NEW k \in Kinds, Broadcast(k) PROVE ConnInv'
  <2>1. Sends(k, count[k] + 1, connections, {}) /\ link' = link
    BY <1>3 DEF Broadcast
  <2>2. {} \in SUBSET Conns /\ \A c \in {} : link[c] = "closed"
    OBVIOUS
  <2> QED
    BY <1>1, <2>1, <2>2, SendsConn
<1>4. ASSUME NEW k \in Kinds, SendReturns(k) PROVE ConnInv'
  <2> DEFINE c == worker[k].at
             dead == IF link[c] = "closed" THEN worker[k].dead \cup {c} ELSE worker[k].dead
  <2>1. Sends(k, count[k], worker[k].todo, dead) /\ link' = link /\ c # NoConn
    BY <1>4 DEF SendReturns, Busy
  <2>2. dead \in SUBSET Conns /\ worker[k].todo \in SUBSET Conns
        /\ \A d \in dead : link[d] = "closed"
    BY <1>1, <2>1 DEF ConnInv, Broadcasts
  <2> HIDE DEF dead
  <2> QED
    BY <2>1, <2>2, SendsConn
<1>5. ASSUME NEW c \in Conns, Close(c), connections' = connections, worker' = worker PROVE ConnInv'
  BY <1>1, <1>2, <1>5 DEF Close
<1>6. ASSUME NEW c \in Conns, Replay(c) PROVE ConnInv'
  BY <1>2, <1>5, <1>6 DEF Replay, server
<1>7. ASSUME NEW c \in Conns, HandlerEnds(c) PROVE ConnInv'
  BY <1>1, <1>7 DEF HandlerEnds, ConnInv, Busy, server
<1>8. ASSUME NEW c \in Conns, Heartbeat(c) PROVE ConnInv'
  BY <1>5, <1>8 DEF Heartbeat, server
<1>9. ASSUME NEW c \in Conns, Breaks(c) PROVE ConnInv'
  BY <1>1, <1>2, <1>9 DEF Breaks, server
<1>10. ASSUME NEW c \in Conns, Open(c) PROVE ConnInv'
  <2>1. Unused(c) /\ connections' = connections \cup {c} /\ worker' = worker
        /\ link' = [link EXCEPT ![c] = "open"]
    BY <1>10 DEF Open, Accept, server
  <2> QED
    BY <1>1, <2>1 DEF ConnInv, Busy, Unused
<1>11. CASE Unmount
  <2>1. CASE page = "open"
    BY <1>1, <1>5, <1>11, <2>1 DEF Unmount, server
  <2>2. CASE page # "open"
    BY <1>2, <1>11, <2>2 DEF Unmount, server
  <2> QED
    BY <2>1, <2>2
<1>12. CASE \/ AttemptFails \/ ConnectionLost \/ TimerFires \/ Mount \/ OnMessage
            \/ \E m \in Event : HandleLogs(m)
  <2>1. UNCHANGED <<connections, worker, link>>
    BY <1>12 DEF AttemptFails, ConnectionLost, TimerFires, Mount, OnMessage, HandleLogs, server, net
  <2> QED
    BY <1>2, <2>1
<1>13. CASE ServerSide(Server)
  BY <1>3, <1>4, <1>6, <1>7, <1>8, <1>9, <1>13 DEF ServerSide, Server
<1>14. CASE UNCHANGED vars
  BY <1>2, <1>14 DEF vars, server, net
<1> QED
  BY <1>10, <1>11, <1>12, <1>13, <1>14 DEF Next

\* The latest message of a sticky kind is shown by the page, or on its way to
\* the page's socket, or will be sent there by the broadcast or by the replay.
Latest(k) == [kind |-> k, n |-> count[k]]
OnItsWay(k) == \E i \in 1..Len(wire[sock]) : wire[sock][i] = Latest(k)
Replaying(k) == /\ handler[sock].pc = "replay"
                /\ \E j \in handler[sock].pos..Len(sticky) : sticky[j].kind = k
Coming(k) ==
    shown[k] = count[k] \/ sock \in worker[k].todo \/ OnItsWay(k) \/ Replaying(k)
UpToDate == page = "open" /\ link[sock] = "open" => \A k \in Sticky : Coming(k)

\* What is on its way stays so when a message is added.
LEMMA ComingKept ==
    ASSUME FeedInv, sock \in Conns, sock' = sock, NEW k \in Sticky, Coming(k),
           count'[k] = count[k], shown'[k] = shown[k], handler'[sock] = handler[sock],
           wire'[sock] = wire[sock]
             \/ \E m \in Message : wire'[sock] = Append(wire[sock], m),
           sock \in worker[k].todo => sock \in worker'[k].todo \/ OnItsWay(k)',
           sticky' \in Seq(Message), Len(sticky) <= Len(sticky'),
           \A i \in 1..Len(sticky) : sticky'[i].kind = sticky[i].kind
    PROVE  Coming(k)'
<1>1. /\ wire[sock] \in Seq(Message) /\ sticky \in Seq(Message) /\ handler[sock] \in Handlers
  BY DEF FeedInv, FeedTypes
<1>2. ASSUME OnItsWay(k) PROVE OnItsWay(k)'
  <2>1. PICK i \in 1..Len(wire[sock]) : wire[sock][i] = Latest(k)
    BY <1>2 DEF OnItsWay
  <2>2. CASE wire'[sock] = wire[sock]
    BY <2>1, <2>2 DEF OnItsWay, Latest
  <2>3. CASE \E m \in Message : wire'[sock] = Append(wire[sock], m)
    <3>1. PICK m \in Message : wire'[sock] = Append(wire[sock], m)
      BY <2>3
    <3>2. /\ Len(wire'[sock]) = Len(wire[sock]) + 1 /\ Len(wire[sock]) \in Nat
          /\ wire'[sock][i] = wire[sock][i]
      BY <1>1, <2>1, <3>1, AppendFacts
    <3>3. i \in 1..Len(wire'[sock])
      BY <3>2
    <3> QED
      BY <2>1, <3>2, <3>3 DEF OnItsWay, Latest
  <2> QED
    BY <2>2, <2>3
<1>3. ASSUME Replaying(k) PROVE Replaying(k)'
  <2>1. PICK j \in handler[sock].pos..Len(sticky) : sticky[j].kind = k
    BY <1>3 DEF Replaying
  <2>2. handler[sock].pc = "replay" /\ handler[sock].pos \in Nat /\ handler[sock].pos > 0
    BY <1>1, <1>3 DEF Replaying, Handlers
  <2>3. j \in 1..Len(sticky) /\ j \in handler[sock].pos..Len(sticky')
    BY <1>1, <2>2
  <2> QED
    BY <2>1, <2>2, <2>3 DEF Replaying
<1> QED
  BY <1>2, <1>3 DEF Coming

\* A broadcast sends its message on the page's socket or will.
LEMMA SendsReach ==
    ASSUME FeedInv, sock \in Conns, link[sock] = "open", sock' = sock, NEW k \in Kinds,
           NEW n \in Nat, NEW todo \in SUBSET Conns, NEW dead, Sends(k, n, todo, dead),
           count'[k] = n, sock \in todo
    PROVE  sock \in worker'[k].todo \/ OnItsWay(k)'
<1>1. PICK c \in todo :
         /\ worker' = [worker EXCEPT ![k] = [at |-> c, todo |-> todo \ {c}, dead |-> dead]]
         /\ Written(c, [kind |-> k, n |-> n])
  BY DEF Sends
<1>2. worker \in [Kinds -> Broadcasts] /\ wire \in [Conns -> Seq(Message)]
  BY DEF FeedInv, FeedTypes
<1>3. CASE c # sock
  BY <1>1, <1>2, <1>3
<1>4. CASE c = sock
  <2> DEFINE m == [kind |-> k, n |-> n]
  <2>1. m \in Message /\ m = Latest(k)'
    BY DEF Message, Latest
  <2>2. wire'[sock] = Append(wire[sock], m)
    BY <1>1, <1>2, <1>4 DEF Written
  <2> HIDE DEF m
  <2>3. Len(wire'[sock]) = Len(wire[sock]) + 1 /\ Len(wire[sock]) \in Nat
        /\ wire'[sock][Len(wire[sock]) + 1] = m
    BY <1>2, <2>1, <2>2, AppendFacts
  <2>4. Len(wire[sock]) + 1 \in 1..Len(wire'[sock])
    BY <2>3
  <2> QED
    BY <2>1, <2>3, <2>4 DEF OnItsWay
<1> QED
  BY <1>3, <1>4

\* A send changes what is on the page's wire only by adding to it, and no
\* other worker's broadcast.
LEMMA SendsAdd ==
    ASSUME FeedInv, sock \in Conns, NEW k \in Kinds, NEW n \in Nat, NEW todo \in SUBSET Conns,
           NEW dead, Sends(k, n, todo, dead)
    PROVE  /\ wire'[sock] = wire[sock] \/ \E m \in Message : wire'[sock] = Append(wire[sock], m)
           /\ \A q \in Kinds : q # k => worker'[q] = worker[q]
<1>1. worker \in [Kinds -> Broadcasts] /\ wire \in [Conns -> Seq(Message)]
  BY DEF FeedInv, FeedTypes
<1>2. CASE todo = {}
  BY <1>1, <1>2 DEF Sends
<1>3. CASE todo # {}
  <2>1. PICK c \in todo :
           /\ worker' = [worker EXCEPT ![k] = [at |-> c, todo |-> todo \ {c}, dead |-> dead]]
           /\ Written(c, [kind |-> k, n |-> n])
    BY <1>3 DEF Sends
  <2>2. [kind |-> k, n |-> n] \in Message
    BY DEF Message
  <2> QED
    BY <1>1, <2>1, <2>2 DEF Written
<1> QED
  BY <1>2, <1>3

LEMMA BroadcastComing ==
    ASSUME FeedInv, ConnInv, UpToDate, NEW q \in Kinds, Broadcast(q),
           UNCHANGED <<page, sock, shown>>
    PROVE  UpToDate'
<1> SUFFICES ASSUME page = "open", link[sock] = "open", NEW k \in Sticky PROVE Coming(k)'
  BY DEF UpToDate, Broadcast
<1>1. /\ sock \in Conns /\ Coming(k) /\ k \in Kinds /\ count \in [Kinds -> Nat]
      /\ connections \in SUBSET Conns /\ sticky \in Seq(Message)
  BY BroadcasterAssumption DEF UpToDate, FeedInv, FeedTypes
<1> DEFINE n == count[q] + 1
<1>2. /\ n \in Nat /\ count' = [count EXCEPT ![q] = n] /\ Sends(q, n, connections, {})
      /\ sticky' = IF q \in Sticky THEN Kept([kind |-> q, n |-> n]) ELSE sticky
      /\ handler' = handler /\ link' = link
  BY <1>1 DEF Broadcast, IsSticky
<1> HIDE DEF n
<1>3. count'[q] = n /\ (k # q => count'[k] = count[k])
  BY <1>1, <1>2
<1>4. CASE k = q
  <2>1. sock \in connections
    BY <1>1 DEF ConnInv
  <2>2. sock \in worker'[k].todo \/ OnItsWay(k)'
    BY <1>1, <1>2, <1>3, <1>4, <2>1, SendsReach
  <2> QED
    BY <2>2 DEF Coming
<1>5. CASE k # q
  <2>1. /\ sticky' \in Seq(Message) /\ Len(sticky) <= Len(sticky')
        /\ \A i \in 1..Len(sticky) : sticky'[i].kind = sticky[i].kind
    <3>1. CASE q \in Sticky
      BY <1>2, <3>1, KeptFacts
    <3>2. CASE q \notin Sticky
      BY <1>1, <1>2, <3>2
    <3> QED
      BY <3>1, <3>2
  <2>2. /\ wire'[sock] = wire[sock] \/ \E m \in Message : wire'[sock] = Append(wire[sock], m)
        /\ worker'[k] = worker[k]
    BY <1>1, <1>2, <1>5, SendsAdd
  <2> QED
    BY <1>1, <1>2, <1>3, <1>5, <2>1, <2>2, ComingKept
<1> QED
  BY <1>4, <1>5

LEMMA SendReturnsComing ==
    ASSUME FeedInv, ConnInv, UpToDate, NEW q \in Kinds, SendReturns(q),
           UNCHANGED <<page, sock, shown>>
    PROVE  UpToDate'
<1> SUFFICES ASSUME page = "open", link[sock] = "open", NEW k \in Sticky PROVE Coming(k)'
  BY DEF UpToDate, SendReturns
<1>1. /\ sock \in Conns /\ Coming(k) /\ k \in Kinds /\ count \in [Kinds -> Nat]
      /\ worker \in [Kinds -> Broadcasts] /\ sticky \in Seq(Message)
  BY BroadcasterAssumption DEF UpToDate, FeedInv, FeedTypes
<1>2. PICK dead : Sends(q, count[q], worker[q].todo, dead)
  BY DEF SendReturns
<1>3. /\ UNCHANGED <<count, sticky, link, handler>> /\ worker[q].todo \in SUBSET Conns
      /\ count[q] \in Nat
  BY <1>1 DEF SendReturns, Broadcasts
<1>4. /\ wire'[sock] = wire[sock] \/ \E m \in Message : wire'[sock] = Append(wire[sock], m)
      /\ k # q => worker'[k] = worker[k]
  BY <1>1, <1>2, <1>3, SendsAdd
<1>5. sock \in worker[k].todo => sock \in worker'[k].todo \/ OnItsWay(k)'
  <2>1. CASE k = q
    BY <1>1, <1>2, <1>3, <2>1, SendsReach
  <2>2. CASE k # q
    BY <1>4, <2>2
  <2> QED
    BY <2>1, <2>2
<1> QED
  BY <1>1, <1>3, <1>4, <1>5, ComingKept

\* What the replay has yet to send it sends, as the dict has it by then.
LEMMA ReplayComing ==
    ASSUME FeedInv, UpToDate, NEW c \in Conns, Replay(c), UNCHANGED <<page, sock, shown>>
    PROVE  UpToDate'
<1> SUFFICES ASSUME page = "open", link'[sock] = "open", NEW k \in Sticky PROVE Coming(k)'
  BY DEF UpToDate
<1>1. /\ sock \in Conns /\ k \in Kinds /\ UNCHANGED <<count, sticky, worker>>
      /\ sticky \in Seq(Message) /\ link \in [Conns -> {"open", "broken", "closed"}]
      /\ wire \in [Conns -> Seq(Message)] /\ handler \in [Conns -> Handlers]
  BY BroadcasterAssumption DEF UpToDate, FeedInv, FeedTypes, Replay, server
<1>2. CASE c # sock
  <2>1. wire'[sock] = wire[sock] /\ handler'[sock] = handler[sock] /\ link'[sock] = link[sock]
    BY <1>1, <1>2 DEF Replay, Close, Written
  <2>2. Coming(k)
    BY <2>1 DEF UpToDate
  <2> QED
    BY <1>1, <2>1, <2>2, ComingKept
<1>3. CASE c = sock
  <2>1. Len(sticky) = handler[sock].size /\ link'[sock] = link[sock] /\ link[sock] = "open"
    BY <1>1, <1>3 DEF Replay, Close
  <2>2. Coming(k) /\ handler[sock] \in Handlers /\ handler[sock].pc = "replay"
        /\ handler[sock].pos \in Nat /\ handler[sock].pos > 0
    BY <1>1, <1>3, <2>1 DEF UpToDate, Replay, Handlers
  <2>3. CASE handler[sock].pos > handler[sock].size
    <3>1. wire' = wire
      BY <1>3, <2>1, <2>3 DEF Replay, Replayed
    <3>2. ~Replaying(k)
      BY <1>1, <2>1, <2>2, <2>3 DEF Replaying
    <3> QED
      BY <1>1, <2>2, <3>1, <3>2 DEF Coming, OnItsWay, Latest
  <2>4. CASE ~(handler[sock].pos > handler[sock].size)
    <3> DEFINE m == sticky[handler[sock].pos]
    <3>1. /\ handler[sock].pos \in 1..Len(sticky) /\ m \in Message /\ m.n = count[m.kind]
      BY <1>1, <2>1, <2>2, <2>4 DEF FeedInv, Sticking
    <3>2. /\ wire' = [wire EXCEPT ![sock] = Append(wire[sock], m)]
          /\ handler'[sock] = [handler[sock] EXCEPT !.pos = handler[sock].pos + 1]
      BY <1>1, <1>3, <2>1, <2>4 DEF Replay, Replayed, Written
    <3>3. handler'[sock].pc = "replay" /\ handler'[sock].pos = handler[sock].pos + 1
      BY <2>2, <3>2 DEF Handlers
    <3> HIDE DEF m
    <3>4. /\ Len(wire'[sock]) = Len(wire[sock]) + 1 /\ Len(wire[sock]) \in Nat
          /\ wire'[sock][Len(wire[sock]) + 1] = m
          /\ \A i \in 1..Len(wire[sock]) : wire'[sock][i] = wire[sock][i]
      BY <1>1, <3>1, <3>2, AppendFacts
    <3>5. \A i \in 1..(Len(wire[sock]) + 1) : i \in 1..Len(wire'[sock])
      BY <3>4
    <3>6. CASE Replaying(k)
      <4>1. PICK j \in handler[sock].pos..Len(sticky) : sticky[j].kind = k
        BY <3>6 DEF Replaying
      <4>2. CASE j = handler[sock].pos
        <5>1. m = Latest(k)
          BY <3>1, <4>1, <4>2 DEF Latest, Message, m
        <5>2. Len(wire[sock]) + 1 \in 1..Len(wire'[sock])
          BY <3>4
        <5> QED
          BY <1>1, <3>4, <5>1, <5>2 DEF Coming, OnItsWay, Latest
      <4>3. CASE j # handler[sock].pos
        <5>1. j \in handler[sock].pos + 1..Len(sticky)
          BY <1>1, <2>2, <4>3
        <5> QED
          BY <1>1, <3>3, <4>1, <5>1 DEF Coming, Replaying
      <4> QED
        BY <4>2, <4>3
    <3>7. CASE OnItsWay(k)
      <4>1. PICK i \in 1..Len(wire[sock]) : wire[sock][i] = Latest(k)
        BY <3>7 DEF OnItsWay
      <4>2. i \in 1..Len(wire'[sock]) /\ wire'[sock][i] = wire[sock][i]
        BY <3>4
      <4> QED
        BY <1>1, <4>1, <4>2 DEF Coming, OnItsWay, Latest
    <3> QED
      BY <1>1, <2>2, <3>6, <3>7 DEF Coming
  <2> QED
    BY <2>3, <2>4
<1> QED
  BY <1>2, <1>3

LEMMA OpenComing ==
    ASSUME FeedInv, NEW c \in Conns, Open(c)
    PROVE  UpToDate'
<1> SUFFICES ASSUME NEW k \in Sticky PROVE Coming(k)'
  BY DEF UpToDate
<1>1. /\ sticky \in Seq(Message) /\ k \in Kinds /\ shown[k] \in Nat /\ count[k] \in Nat
      /\ shown[k] <= count[k] /\ wire \in [Conns -> Seq(Message)] /\ handler \in [Conns -> Handlers]
      /\ UNCHANGED <<count, sticky, worker, shown>> /\ sock' = c
  BY BroadcasterAssumption DEF FeedInv, FeedTypes, OnThePage, Open, Accept, server, store
<1>2. CASE count[k] = 0
  BY <1>1, <1>2 DEF Coming
<1>3. CASE count[k] > 0
  <2>1. PICK i \in 1..Len(sticky) : sticky[i].kind = k
    BY <1>3 DEF FeedInv, Sticking
  <2>2. sticky # <<>> /\ sticky[1] \in Message /\ sticky[i] \in Message
        /\ \A j \in 1..Len(sticky) : sticky[j].n = count[sticky[j].kind]
    BY <1>1, <2>1 DEF FeedInv, Sticking
  <2>3. /\ wire'[c] = <<sticky[1]>>
        /\ handler'[c] = [pc |-> "replay", pos |-> 2, size |-> Len(sticky)]
    BY <1>1, <2>2 DEF Open, Accept
  <2>4. CASE i = 1
    <3>1. Len(wire'[c]) = 1 /\ wire'[c][1] = sticky[1]
      BY <2>2, <2>3, SingletonFacts
    <3>2. sticky[1] = Latest(k)
      BY <2>1, <2>2, <2>4 DEF Latest, Message
    <3> QED
      BY <1>1, <3>1, <3>2 DEF Coming, OnItsWay, Latest
  <2>5. CASE i # 1
    <3>1. i \in 2..Len(sticky)
      BY <1>1, <2>5
    <3> QED
      BY <1>1, <2>1, <2>3, <3>1 DEF Coming, Replaying
  <2> QED
    BY <2>4, <2>5
<1> QED
  BY <1>1, <1>2, <1>3

LEMMA OnMessageComing ==
    ASSUME FeedInv, UpToDate, OnMessage
    PROVE  UpToDate'
<1> SUFFICES ASSUME NEW k \in Sticky PROVE Coming(k)'
  BY DEF UpToDate
<1> DEFINE m == Head(wire[sock])
<1>1. /\ sock \in Conns /\ k \in Kinds /\ Coming(k) /\ wire[sock] # <<>>
      /\ wire \in [Conns -> Seq(Message)] /\ shown \in [Kinds -> Nat] /\ count \in [Kinds -> Nat]
      /\ UNCHANGED <<count, sticky, worker, handler, sock>> /\ wire'[sock] = Tail(wire[sock])
  BY BroadcasterAssumption DEF UpToDate, FeedInv, FeedTypes, OnMessage, server, client
<1>2. /\ Len(Tail(wire[sock])) = Len(wire[sock]) - 1 /\ Len(wire[sock]) \in Nat
      /\ Len(wire[sock]) >= 1 /\ m \in Message /\ m = wire[sock][1]
      /\ \A i \in 1..Len(Tail(wire[sock])) : Tail(wire[sock])[i] = wire[sock][i + 1]
  BY <1>1, TailFacts
<1>3. \/ shown' = shown /\ m.kind # k
      \/ shown' = [shown EXCEPT ![m.kind] = m.n]
  BY DashboardAssumption DEF OnMessage, IsMarker, store
<1>4. m.kind = k => shown[k] <= m.n /\ m.n <= count[k]
  <2>1. 1 \in 1..Len(wire[sock])
    BY <1>2
  <2> QED
    BY <1>1, <1>2, <2>1 DEF FeedInv, OnTheWire, OnThePage, Queued, Before
<1> HIDE DEF m
<1>5. CASE m = Latest(k)
  <2>1. shown'[k] = count[k]
    BY <1>1, <1>3, <1>5 DEF Latest
  <2> QED
    BY <1>1, <2>1 DEF Coming
<1>6. CASE m # Latest(k) /\ OnItsWay(k)
  <2>1. PICK i \in 1..Len(wire[sock]) : wire[sock][i] = Latest(k)
    BY <1>6 DEF OnItsWay
  <2>2. i - 1 \in 1..Len(Tail(wire[sock])) /\ (i - 1) + 1 = i
    BY <1>2, <1>6, <2>1
  <2>3. Tail(wire[sock])[i - 1] = Latest(k)
    BY <1>2, <2>1, <2>2
  <2> QED
    BY <1>1, <2>2, <2>3 DEF Coming, OnItsWay, Latest
<1>7. CASE shown[k] = count[k]
  <2>1. m.kind \in Kinds /\ m.n \in Nat
    BY <1>2 DEF Message
  <2>2. shown'[k] = count[k]
    BY <1>1, <1>3, <1>4, <1>7, <2>1
  <2> QED
    BY <1>1, <2>2 DEF Coming
<1>8. CASE sock \in worker[k].todo \/ Replaying(k)
  BY <1>1, <1>8 DEF Coming, Replaying
<1> QED
  BY <1>1, <1>5, <1>6, <1>7, <1>8 DEF Coming

LEMMA StepComing ==
    ASSUME FeedInv, ConnInv, UpToDate, [Next]_vars
    PROVE  UpToDate'
<1>1. link \in [Conns -> {"open", "broken", "closed"}] /\ (page = "open" => sock \in Conns)
      /\ \A k \in Sticky : k \in Kinds
  BY BroadcasterAssumption DEF FeedInv, FeedTypes
\* What only takes connections away.
<1>2. ASSUME UNCHANGED <<count, sticky, worker, handler, shown>>,
             page' = "open" => page = "open" /\ sock' = sock /\
                 (link'[sock] = "open" => link[sock] = "open" /\ wire'[sock] = wire[sock])
      PROVE  UpToDate'
  BY <1>2 DEF UpToDate, Coming, OnItsWay, Replaying, Latest
<1>3. ASSUME NEW k \in Kinds, ServerSide(Broadcast(k)) PROVE UpToDate'
  BY <1>3, BroadcastComing DEF ServerSide, client, store
<1>4. ASSUME NEW k \in Kinds, ServerSide(SendReturns(k)) PROVE UpToDate'
  BY <1>4, SendReturnsComing DEF ServerSide, client, store
<1>5. ASSUME NEW c \in Conns, ServerSide(Replay(c)) PROVE UpToDate'
  BY <1>5, ReplayComing DEF ServerSide, client, store
<1>6. ASSUME NEW c \in Conns, ServerSide(HandlerEnds(c)) PROVE UpToDate'
  <2>1. /\ link[c] = "closed" /\ handler' = [handler EXCEPT ![c] = Returned]
        /\ UNCHANGED <<count, sticky, worker, link, wire, page, sock, shown>>
    BY <1>6 DEF ServerSide, HandlerEnds, server, client, store
  <2>2. ASSUME page = "open", link[sock] = "open", NEW k \in Sticky PROVE Coming(k)'
    <3>1. Coming(k) /\ handler'[sock] = handler[sock]
      <4>1. handler \in [Conns -> Handlers] /\ sock # c
        BY <2>1, <2>2 DEF FeedInv, FeedTypes
      <4> QED
        BY <1>1, <2>1, <2>2, <4>1 DEF UpToDate
    <3> QED
      BY <2>1, <3>1 DEF Coming, OnItsWay, Replaying, Latest
  <2> QED
    BY <2>1, <2>2 DEF UpToDate
<1>7. ASSUME NEW c \in Conns, Close(c), page' = "open" => page = "open" /\ sock' = sock,
             UNCHANGED <<count, sticky, worker, handler, shown>>
      PROVE  UpToDate'
  <2>1. page' = "open" /\ link'[sock] = "open" => link[sock] = "open" /\ wire'[sock] = wire[sock]
    <3>1. wire \in [Conns -> Seq(Message)]
      BY DEF FeedInv, FeedTypes
    <3> QED
      BY <1>1, <1>7, <3>1 DEF Close
  <2> QED
    BY <1>2, <1>7, <2>1
<1>8. ASSUME NEW c \in Conns, ServerSide(Heartbeat(c)) PROVE UpToDate'
  BY <1>7, <1>8 DEF ServerSide, Heartbeat, server, client, store
<1>9. ASSUME NEW c \in Conns, ServerSide(Breaks(c)) PROVE UpToDate'
  <2>1. /\ link' = [link EXCEPT ![c] = "broken"]
        /\ UNCHANGED <<count, sticky, worker, wire, handler, page, sock, shown>>
    BY <1>9 DEF ServerSide, Breaks, server, client, store
  <2> QED
    BY <1>1, <1>2, <2>1
<1>10. CASE ServerSide(Server)
  <2>1. \/ \E k \in Kinds : ServerSide(Broadcast(k)) \/ ServerSide(SendReturns(k))
        \/ \E c \in Conns : \/ ServerSide(Replay(c)) \/ ServerSide(HandlerEnds(c))
                            \/ ServerSide(Heartbeat(c)) \/ ServerSide(Breaks(c))
    BY <1>10, Zenon DEF ServerSide, Server
  <2> QED
    BY <1>3, <1>4, <1>5, <1>6, <1>8, <1>9, <2>1
<1>11. ASSUME NEW c \in Conns, Open(c) PROVE UpToDate'
  BY <1>11, OpenComing
<1>12. CASE OnMessage
  BY <1>12, OnMessageComing
<1>13. CASE AttemptFails \/ ConnectionLost \/ TimerFires \/ Mount
  <2>1. page' # "open" /\ UNCHANGED <<count, sticky, worker, handler, shown>>
    BY <1>13 DEF AttemptFails, ConnectionLost, TimerFires, Mount, OnClose, server, net, store
  <2> QED
    BY <1>2, <2>1
<1>14. CASE Unmount
  <2>1. page' # "open" /\ UNCHANGED <<count, sticky, worker, handler, shown>>
    BY <1>14 DEF Unmount, server, store
  <2> QED
    BY <1>2, <2>1
<1>15. ASSUME NEW m \in Event, HandleLogs(m) PROVE UpToDate'
  <2>1. UNCHANGED <<count, sticky, worker, connections, link, wire, handler, page, sock, shown>>
    BY <1>15 DEF HandleLogs, server, net, client
  <2> QED
    BY <1>2, <2>1
<1>16. CASE UNCHANGED vars
  BY <1>2, <1>16 DEF vars, server, net, client, store
<1> QED
  BY <1>10, <1>11, <1>12, <1>13, <1>14, <1>15, <1>16 DEF Next

\* A page that is connected and has read all that was sent to it shows the
\* latest report of every sticky kind that is not being broadcast: nothing
\* falls between the replay of _handle_ws() and the broadcasts that go on
\* during it, whenever the page joined and however often it joined again.
THEOREM NothingIsMissed == Spec => []ShowsLatest
<1>1. Init => FeedInv /\ ConnInv /\ UpToDate
  <2>1. Init => UpToDate
    BY DEF Init, UpToDate
  <2> QED
    BY <2>1, InitFeed, InitConn
<1>2. FeedInv /\ ConnInv /\ UpToDate /\ [Next]_vars => (FeedInv /\ ConnInv /\ UpToDate)'
  BY StepFeed, StepConn, StepComing
<1>3. FeedInv /\ ConnInv /\ UpToDate => ShowsLatest
  <2>1. ASSUME FeedInv, ConnInv, UpToDate, page = "open", link[sock] = "open",
               handler[sock].pc = "reading", wire[sock] = <<>>, NEW k \in Sticky, ~Busy(k)
        PROVE  shown[k] = count[k]
    <3>1. k \in Kinds /\ Coming(k)
      BY <2>1, BroadcasterAssumption DEF UpToDate
    <3>2. sock \notin worker[k].todo
      BY <2>1, <3>1 DEF ConnInv
    <3>3. ~OnItsWay(k)
      BY <2>1 DEF OnItsWay
    <3> QED
      BY <2>1, <3>1, <3>2, <3>3 DEF Coming, Replaying
  <2> QED
    BY <2>1 DEF ShowsLatest
<1> QED
  BY <1>1, <1>2, <1>3, PTL DEF Spec

----------------------------------------------------------------------------
(* The rows of an event.                                                   *)

\* An event that the page has read or passed over, and one that the chain's
\* feed has handled.
Read(m) == IF m.n <= shown[m.kind] THEN 1 ELSE 0
Handled(m) == IF \E i \in 1..Len(seen) : seen[i] = m THEN 1 ELSE 0

RowsInv ==
    /\ rows \in [Event -> Nat] /\ seen \in Seq(Event)
    /\ \A i, j \in 1..Len(seen) : i # j => seen[i] # seen[j]
    /\ Cardinality(Event) <= MaxSeen => \A m \in Event : rows[m] <= Read(m) + Handled(m)

LEMMA InitRows == ASSUME Init PROVE RowsInv
<1>1. rows = [m \in Event |-> 0] /\ seen = <<>>
  BY DEF Init
<1>2. \A m \in Event : Read(m) \in {0, 1} /\ Handled(m) \in {0, 1}
  BY DEF Read, Handled
<1>3. seen \in Seq(Event) /\ Len(seen) = 0
  BY <1>1
<1>4. ASSUME NEW m \in Event PROVE rows[m] <= Read(m) + Handled(m)
  BY <1>1, <1>2
<1> QED
  BY <1>1, <1>3, <1>4 DEF RowsInv

\* Reports that are all different are no more than there are events.
LEMMA SeenBounded ==
    ASSUME NEW s \in Seq(Event), \A i, j \in 1..Len(s) : i # j => s[i] # s[j]
    PROVE  Len(s) <= Cardinality(Event)
<1>1. Len(s) \in Nat /\ s \in [1..Len(s) -> Event]
  OBVIOUS
<1>2. Cardinality(Event) \in Nat
  BY EventAssumption, FS_CardinalityType
<1>3. IsFiniteSet(1..Len(s)) /\ Cardinality(1..Len(s)) = Len(s)
  <2>1. 1 \in Int /\ Len(s) \in Int
    BY <1>1
  <2>2. IsFiniteSet(1..Len(s))
        /\ Cardinality(1..Len(s)) = IF 1 > Len(s) THEN 0 ELSE Len(s) - 1 + 1
    BY <2>1, FS_Interval
  <2> QED
    BY <1>1, <2>2
<1>4. ~(Cardinality(Event) < Len(s))
  BY <1>1, <1>3, EventAssumption, FS_PigeonHole
<1> QED
  BY <1>1, <1>2, <1>4

LEMMA MessageRows ==
    ASSUME FeedInv, RowsInv, OnMessage
    PROVE  RowsInv'
<1> DEFINE m == Head(wire[sock])
<1>1. /\ page = "open" /\ wire[sock] # <<>> /\ seen' = seen /\ sock \in Conns
      /\ wire[sock] \in Seq(Message) /\ shown \in [Kinds -> Nat]
  BY DEF OnMessage, chain, FeedInv, FeedTypes
<1>2. 1 \in 1..Len(wire[sock]) /\ m \in Message /\ m = wire[sock][1]
  BY <1>1, TailFacts
<1>3. m.kind \in Kinds /\ m.n \in Nat /\ Before(m.kind, shown[m.kind], m.n)
  BY <1>1, <1>2 DEF FeedInv, OnThePage, Message
<1>4. \/ shown' = shown /\ rows' = rows
      \/ shown' = [shown EXCEPT ![m.kind] = m.n] /\ m.kind \in Sticky /\ rows' = rows
      \/ /\ shown' = [shown EXCEPT ![m.kind] = m.n] /\ m.kind \notin Sticky
         /\ rows' = [rows EXCEPT ![m] = rows[m] + 1]
  BY DEF OnMessage, store
<1> HIDE DEF m
<1>5. rows \in [Event -> Nat] /\ rows' \in [Event -> Nat]
  BY <1>4 DEF RowsInv
<1>6. ASSUME Cardinality(Event) <= MaxSeen, NEW e \in Event
      PROVE  rows'[e] <= Read(e)' + Handled(e)'
  <2>1. /\ rows[e] <= Read(e) + Handled(e) /\ Handled(e)' = Handled(e) /\ Handled(e) \in {0, 1}
        /\ rows[e] \in Nat
    BY <1>1, <1>5, <1>6 DEF RowsInv, Handled
  <2>2. e.kind \in Kinds /\ e.kind \notin Sticky /\ e.n \in Nat /\ shown[e.kind] \in Nat
    BY <1>1 DEF Event, Events
  <2>3. CASE shown'[e.kind] = shown[e.kind] /\ rows'[e] = rows[e]
    BY <2>1, <2>3 DEF Read
  <2>4. CASE e.kind = m.kind /\ shown'[e.kind] = m.n /\ e # m /\ rows'[e] = rows[e]
    <3>1. shown[e.kind] < m.n
      BY <1>3, <2>2, <2>4 DEF Before
    <3>2. Read(e)' \in {0, 1} /\ Read(e) \in {0, 1} /\ (Read(e) = 1 => Read(e)' = 1)
      BY <1>3, <2>2, <2>4, <3>1 DEF Read
    <3> QED
      BY <2>1, <2>4, <3>2
  <2>5. CASE e = m /\ shown'[e.kind] = m.n /\ rows'[e] = rows[e] + 1
    <3>1. Read(e) = 0 /\ Read(e)' = 1
      BY <1>3, <2>2, <2>5 DEF Before, Read
    <3> QED
      BY <2>1, <2>5, <3>1
  <2> QED
    BY <1>1, <1>3, <1>4, <1>5, <2>2, <2>3, <2>4, <2>5
<1> QED
  BY <1>1, <1>5, <1>6 DEF RowsInv

LEMMA LogsRows ==
    ASSUME RowsInv, NEW m \in Event, HandleLogs(m)
    PROVE  RowsInv'
<1>1. /\ rows \in [Event -> Nat] /\ seen \in Seq(Event) /\ shown' = shown
      /\ Len(seen) \in Nat /\ Len(seen) <= Cardinality(Event)
  BY SeenBounded DEF RowsInv, HandleLogs
<1>2. CASE UNCHANGED <<seen, rows>>
  BY <1>1, <1>2 DEF RowsInv, Read, Handled
<1>3. CASE ~ \E i \in 1..Len(seen) : seen[i] = m
  <2> DEFINE longer == Append(seen, m)
  <2>1. /\ longer \in Seq(Event) /\ Len(longer) = Len(seen) + 1 /\ longer[Len(seen) + 1] = m
        /\ \A i \in 1..Len(seen) : longer[i] = seen[i]
    BY <1>1, AppendFacts
  <2>2. seen' = Bounded(longer) /\ rows' = [rows EXCEPT ![m] = rows[m] + 1]
    BY <1>3 DEF HandleLogs
  <2> HIDE DEF longer
  <2>3. ASSUME NEW i \in 1..Len(longer), NEW j \in 1..Len(longer), i # j
        PROVE  longer[i] # longer[j]
    <3>1. \A a \in 1..Len(longer) : a = Len(seen) + 1 \/ a \in 1..Len(seen)
      BY <1>1, <2>1
    <3> QED
      BY <1>3, <2>1, <2>3, <3>1 DEF RowsInv
  <2>4. Len(longer) \in Nat /\ Len(longer) <= Cardinality(Event) /\ longer # <<>>
    BY <1>1, <2>1, <2>3, SeenBounded
  <2>5. seen' \in Seq(Event) /\ \A i, j \in 1..Len(seen') : i # j => seen'[i] # seen'[j]
    <3>1. CASE seen' = longer
      BY <2>1, <2>3, <3>1
    <3>2. CASE seen' = Tail(longer)
      <4>1. /\ Tail(longer) \in Seq(Event)
            /\ \A i \in 1..Len(Tail(longer)) : /\ i + 1 \in 1..Len(longer)
                                               /\ Tail(longer)[i] = longer[i + 1]
        BY <2>1, <2>4, TailFacts
      <4>2. \A i, j \in 1..Len(Tail(longer)) : i # j => i + 1 # j + 1
        OBVIOUS
      <4> QED
        BY <2>3, <3>2, <4>1, <4>2
    <3> QED
      BY <2>2, <3>1, <3>2 DEF Bounded
  <2>6. ASSUME Cardinality(Event) <= MaxSeen, NEW e \in Event
        PROVE  rows'[e] <= Read(e)' + Handled(e)'
    <3>1. seen' = longer
      BY <2>2, <2>4, <2>6, EventAssumption, FS_CardinalityType, DashboardAssumption DEF Bounded
    <3>2. /\ Read(e)' = Read(e) /\ Read(e) \in {0, 1} /\ rows[e] \in Nat
          /\ rows[e] <= Read(e) + Handled(e)
      BY <1>1, <2>6 DEF Read, RowsInv
    <3>3. Len(seen) + 1 \in 1..Len(longer) /\ \A i \in 1..Len(seen) : i \in 1..Len(longer)
      BY <1>1, <2>1
    <3>4. CASE e = m
      <4>1. Handled(e) = 0 /\ Handled(e)' = 1 /\ rows'[e] = rows[e] + 1
        BY <1>1, <1>3, <2>1, <2>2, <3>1, <3>3, <3>4 DEF Handled
      <4> QED
        BY <3>2, <4>1
    <3>5. CASE e # m
      <4>1. rows'[e] = rows[e] /\ Handled(e)' \in {0, 1} /\ Handled(e) \in {0, 1}
            /\ (Handled(e) = 1 => Handled(e)' = 1)
        BY <1>1, <2>1, <2>2, <3>1, <3>3, <3>5 DEF Handled
      <4> QED
        BY <3>2, <4>1
    <3> QED
      BY <3>4, <3>5
  <2>7. rows' \in [Event -> Nat]
    BY <1>1, <2>2
  <2> QED
    BY <2>5, <2>6, <2>7 DEF RowsInv
<1> QED
  BY <1>2, <1>3 DEF HandleLogs

LEMMA StepRows ==
    ASSUME FeedInv, RowsInv, [Next]_vars
    PROVE  RowsInv'
<1>1. CASE UNCHANGED <<shown, rows, seen>>
  BY <1>1 DEF RowsInv, Read, Handled
<1>2. CASE ServerSide(Server) \/ UNCHANGED vars
  BY <1>1, <1>2 DEF ServerSide, store, chain, vars
<1>3. ASSUME NEW c \in Conns, Open(c) PROVE RowsInv'
  BY <1>1, <1>3 DEF Open, store, chain
<1>4. CASE AttemptFails \/ ConnectionLost \/ TimerFires \/ Mount \/ Unmount
  BY <1>1, <1>4 DEF AttemptFails, ConnectionLost, TimerFires, Mount, Unmount, store, chain
<1>5. CASE OnMessage
  BY <1>5, MessageRows
<1>6. ASSUME NEW m \in Event, HandleLogs(m) PROVE RowsInv'
  BY <1>6, LogsRows
<1> QED
  BY <1>2, <1>3, <1>4, <1>5, <1>6 DEF Next

\* Two feeds and any number of repeated reports make at most two rows of an
\* event, while the set of signatures (markSeen) can hold them all.
THEOREM OneRowPerFeed == Spec => []RowsOncePerFeed
<1>1. FeedInv /\ RowsInv => RowsOncePerFeed
  <2>1. ASSUME RowsInv, Cardinality(Event) <= MaxSeen, NEW m \in Event PROVE rows[m] <= 2
    <3>1. Read(m) \in {0, 1} /\ Handled(m) \in {0, 1} /\ rows[m] \in Nat
          /\ rows[m] <= Read(m) + Handled(m)
      BY <2>1 DEF RowsInv, Read, Handled
    <3> QED
      BY <3>1
  <2> QED
    BY <2>1 DEF RowsOncePerFeed
<1>2. Init => FeedInv /\ RowsInv
  BY InitFeed, InitRows
<1>3. FeedInv /\ RowsInv /\ [Next]_vars => (FeedInv /\ RowsInv)'
  BY StepFeed, StepRows
<1> QED
  BY <1>1, <1>2, <1>3, PTL DEF Spec

----------------------------------------------------------------------------
(* Types: the dict of sticky messages, the reconnect delay and the set of  *)
(* signatures stay within their bounds.                                    *)

\* A dict has a key once.
StickyOnce == \A i, j \in 1..Len(sticky) : i # j => sticky[i].kind # sticky[j].kind

ClientTypes ==
    /\ StickyOnce
    /\ delay \in 0..MaxDelay /\ reports \in 0..MaxReports /\ Len(seen) <= MaxSeen

\* A dict with one message of each kind has as many as there are kinds.
LEMMA StickyBounded ==
    ASSUME FeedInv, StickyOnce
    PROVE  Len(sticky) <= Cardinality(Sticky)
<1> DEFINE kindOf == [i \in 1..Len(sticky) |-> sticky[i].kind]
<1>1. Len(sticky) \in Nat
  BY DEF FeedInv, FeedTypes
<1>2. kindOf \in [1..Len(sticky) -> Sticky]
  BY DEF FeedInv, Sticking
<1>3. IsFiniteSet(Sticky) /\ Cardinality(Sticky) \in Nat
  BY BroadcasterAssumption, FS_CardinalityType
<1>4. IsFiniteSet(1..Len(sticky)) /\ Cardinality(1..Len(sticky)) = Len(sticky)
  <2>1. 1 \in Int /\ Len(sticky) \in Int
    BY <1>1
  <2>2. IsFiniteSet(1..Len(sticky))
        /\ Cardinality(1..Len(sticky)) = IF 1 > Len(sticky) THEN 0 ELSE Len(sticky) - 1 + 1
    BY <2>1, FS_Interval
  <2> QED
    BY <1>1, <2>2
<1>5. \A i, j \in 1..Len(sticky) : i # j => kindOf[i] # kindOf[j]
  BY DEF StickyOnce
<1> HIDE DEF kindOf
<1>6. ~(Cardinality(Sticky) < Cardinality(1..Len(sticky)))
  BY <1>2, <1>3, <1>4, <1>5, FS_PigeonHole
<1> QED
  BY <1>1, <1>3, <1>4, <1>6

LEMMA InitClient == ASSUME Init PROVE ClientTypes
<1>1. sticky = <<>> /\ delay = 0 /\ reports = 0 /\ seen = <<>>
  BY DEF Init, ServerInit
<1>2. Len(sticky) = 0 /\ Len(seen) = 0
  BY <1>1
<1> QED
  BY <1>1, <1>2, DashboardAssumption DEF ClientTypes, StickyOnce

\* A key that is in the dict keeps its place, another is new.
LEMMA BroadcastOnce ==
    ASSUME FeedInv, StickyOnce, NEW k \in Kinds, Broadcast(k)
    PROVE  StickyOnce'
<1> DEFINE m == [kind |-> k, n |-> count[k] + 1]
<1>1. CASE k \notin Sticky
  <2>1. sticky' = sticky
    BY <1>1 DEF Broadcast, IsSticky
  <2> QED
    BY <2>1 DEF StickyOnce
<1>2. CASE k \in Sticky
  <2>1. sticky' = Kept(m) /\ m.kind = k /\ sticky \in Seq(Message) /\ m \in Message
    BY <1>2 DEF Broadcast, IsSticky, FeedInv, FeedTypes, Message
  <2> HIDE DEF m
  <2>2. CASE \E i \in 1..Len(sticky) : sticky[i].kind = k
    <3>1. sticky' = [i \in 1..Len(sticky) |-> IF sticky[i].kind = k THEN m ELSE sticky[i]]
      BY <2>1, <2>2 DEF Kept
    <3>2. \A i \in 1..Len(sticky) : sticky[i] \in Message
      BY <2>1
    <3>3. Len(sticky') = Len(sticky)
      BY <2>1, <3>1, <3>2
    <3>4. \A i \in 1..Len(sticky) : sticky'[i].kind = sticky[i].kind
      BY <2>1, <3>1
    <3> QED
      BY <3>3, <3>4 DEF StickyOnce
  <2>3. CASE ~ \E i \in 1..Len(sticky) : sticky[i].kind = k
    <3>1. sticky' = Append(sticky, m)
      BY <2>1, <2>3 DEF Kept
    <3>2. /\ Len(sticky') = Len(sticky) + 1 /\ Len(sticky) \in Nat
          /\ sticky'[Len(sticky) + 1] = m /\ \A i \in 1..Len(sticky) : sticky'[i] = sticky[i]
      BY <2>1, <3>1, AppendFacts
    <3>3. \A i \in 1..Len(sticky') : i = Len(sticky) + 1 \/ i \in 1..Len(sticky)
      BY <3>2
    <3> QED
      BY <2>1, <2>3, <3>2, <3>3 DEF StickyOnce
  <2> QED
    BY <2>2, <2>3
<1> QED
  BY <1>1, <1>2

LEMMA StepClient ==
    ASSUME FeedInv, RowsInv, ClientTypes, [Next]_vars
    PROVE  ClientTypes'
<1>1. /\ MaxDelay \in Nat /\ MaxReports \in Nat /\ MaxSeen \in Nat /\ MaxSeen > 0
      /\ delay \in Nat /\ delay <= MaxDelay
  BY DashboardAssumption DEF ClientTypes
<1>2. ASSUME UNCHANGED <<sticky, reports, seen>>, delay' \in {delay, 0, NextDelay}
      PROVE  ClientTypes'
  <2>1. delay' \in 0..MaxDelay
    BY <1>1, <1>2 DEF NextDelay
  <2> QED
    BY <1>2, <2>1 DEF ClientTypes, StickyOnce
<1>3. ASSUME NEW k \in Kinds, ServerSide(Broadcast(k)) PROVE ClientTypes'
  <2>1. StickyOnce'
    BY <1>3, BroadcastOnce DEF ServerSide, ClientTypes
  <2> QED
    BY <1>3, <2>1 DEF ServerSide, client, chain, ClientTypes
<1>4. ASSUME NEW k \in Kinds, ServerSide(SendReturns(k)) PROVE ClientTypes'
  BY <1>2, <1>4 DEF ServerSide, SendReturns, client, chain
<1>5. ASSUME NEW c \in Conns,
             \/ ServerSide(Replay(c)) \/ ServerSide(HandlerEnds(c))
             \/ ServerSide(Heartbeat(c)) \/ ServerSide(Breaks(c))
      PROVE  ClientTypes'
  BY <1>2, <1>5 DEF ServerSide, Replay, HandlerEnds, Heartbeat, Breaks, server, client, chain
<1>6. CASE ServerSide(Server)
  <2>1. \/ \E k \in Kinds : ServerSide(Broadcast(k)) \/ ServerSide(SendReturns(k))
        \/ \E c \in Conns : \/ ServerSide(Replay(c)) \/ ServerSide(HandlerEnds(c))
                            \/ ServerSide(Heartbeat(c)) \/ ServerSide(Breaks(c))
    BY <1>6, Zenon DEF ServerSide, Server
  <2> QED
    BY <1>3, <1>4, <1>5, <2>1
<1>7. ASSUME NEW c \in Conns, Open(c) PROVE ClientTypes'
  BY <1>2, <1>7 DEF Open, Accept, server, chain
<1>8. CASE AttemptFails \/ ConnectionLost
  <2>1. UNCHANGED <<sticky, reports, seen>> /\ delay' \in {delay, NextDelay}
    BY <1>8 DEF AttemptFails, ConnectionLost, OnClose, server, chain
  <2> QED
    BY <1>2, <2>1
<1>9. CASE TimerFires \/ OnMessage \/ Unmount \/ Mount
  <2>1. UNCHANGED <<sticky, reports, seen>> /\ delay' \in {delay, 0}
    BY <1>9 DEF TimerFires, OnMessage, Unmount, Mount, server, client, chain
  <2> QED
    BY <1>2, <2>1
<1>10. ASSUME NEW m \in Event, HandleLogs(m) PROVE ClientTypes'
  <2>1. UNCHANGED <<sticky, delay>> /\ reports' \in 0..MaxReports
    BY <1>1, <1>10 DEF HandleLogs, server, client, ClientTypes
  <2>2. Len(seen') <= MaxSeen
    <3>1. seen \in Seq(Event) /\ Len(seen) \in Nat /\ Len(seen) <= MaxSeen
      BY DEF RowsInv, ClientTypes
    <3>2. CASE seen' = seen
      BY <3>1, <3>2
    <3>3. CASE seen' = Bounded(Append(seen, m))
      <4>1. Append(seen, m) \in Seq(Event) /\ Len(Append(seen, m)) = Len(seen) + 1
        BY <3>1, AppendFacts
      <4>2. Append(seen, m) # <<>>
        BY <3>1, <4>1
      <4>3. Len(Tail(Append(seen, m))) = Len(seen)
        BY <3>1, <4>1, <4>2, TailFacts
      <4> QED
        BY <1>1, <3>1, <3>3, <4>1, <4>3 DEF Bounded
    <3> QED
      BY <1>10, <3>2, <3>3 DEF HandleLogs
  <2> QED
    BY <2>1, <2>2 DEF ClientTypes, StickyOnce
<1>11. CASE UNCHANGED vars
  BY <1>2, <1>11 DEF vars, server, client, chain
<1> QED
  BY <1>6, <1>7, <1>8, <1>9, <1>10, <1>11 DEF Next

\* The page, the server and what is between them keep their types: the server
\* replays at most one message of a kind (_sticky), the reconnect delay stays
\* within its maximum, the set of signatures within MAX_SEEN.
THEOREM DashboardTypes == Spec => []TypeOK
<1>1. FeedInv /\ RowsInv /\ ClientTypes => TypeOK
  <2>1. ASSUME FeedInv, RowsInv, ClientTypes PROVE ServerTypes
    BY <2>1, StickyBounded DEF FeedInv, FeedTypes, ClientTypes, ServerTypes, Broadcasts, Handlers
  <2>2. ASSUME RowsInv PROVE seen \in Seq(Message)
    <3>1. Event \subseteq Message /\ seen \in Seq(Event)
      BY <2>2 DEF RowsInv, Event, Message, Events
    <3> QED
      BY <3>1
  <2> QED
    BY <2>1, <2>2 DEF FeedInv, FeedTypes, RowsInv, ClientTypes, TypeOK
<1>2. Init => FeedInv /\ RowsInv /\ ClientTypes
  BY InitFeed, InitRows, InitClient
<1>3. FeedInv /\ RowsInv /\ ClientTypes /\ [Next]_vars => (FeedInv /\ RowsInv /\ ClientTypes)'
  BY StepFeed, StepRows, StepClient
<1> QED
  BY <1>1, <1>2, <1>3, PTL DEF Spec
----------------------------------------------------------------------------
(* Broadcasts come to an end.                                              *)

\* The page has the one connection that is open at both ends.
SockInv == \A c \in Conns : link[c] = "open" => page = "open" /\ sock = c

LEMMA StepSock ==
    ASSUME FeedInv, SockInv, [Next]_vars
    PROVE  SockInv'
<1>1. /\ link \in [Conns -> {"open", "broken", "closed"}]
      /\ sock \in Conns \cup {NoConn} /\ (page = "open" => sock \in Conns)
  BY DEF FeedInv, FeedTypes
<1>2. CASE /\ UNCHANGED <<page, sock>>
           /\ \A c \in Conns : link'[c] = "open" => link[c] = "open"
  BY <1>2 DEF SockInv
<1>3. ASSUME NEW c \in Conns, Close(c) PROVE \A d \in Conns : link'[d] = "open" => link[d] = "open" /\ d # c
  BY <1>1, <1>3 DEF Close
<1>4. ASSUME NEW c \in Conns, Open(c) PROVE SockInv'
  <2>1. /\ page = "connecting" /\ page' = "open" /\ sock' = c
        /\ link' = [link EXCEPT ![c] = "open"]
    BY <1>4 DEF Open, Accept
  <2> QED
    BY <1>1, <2>1 DEF SockInv
<1>5. CASE AttemptFails \/ TimerFires \/ Mount
  BY <1>5 DEF AttemptFails, TimerFires, Mount, OnClose, net, SockInv
<1>6. CASE ConnectionLost
  BY <1>1, <1>6 DEF ConnectionLost, OnClose, net, SockInv
<1>7. CASE Unmount
  <2>1. CASE page = "open"
    BY <1>1, <1>3, <1>7, <2>1 DEF Unmount, SockInv
  <2>2. CASE page # "open"
    BY <1>7, <2>2 DEF Unmount, SockInv
  <2> QED
    BY <2>1, <2>2
<1>8. CASE OnMessage \/ \E m \in Event : HandleLogs(m)
  BY <1>2, <1>8 DEF OnMessage, HandleLogs, net, client
<1>9. CASE ServerSide(Server)
  <2>1. UNCHANGED <<page, sock>>
    BY <1>9 DEF ServerSide, client
  <2>2. ASSUME NEW k \in Kinds, Broadcast(k) \/ SendReturns(k) PROVE link' = link
    BY <2>2 DEF Broadcast, SendReturns
  <2>3. ASSUME NEW c \in Conns, Replay(c) \/ HandlerEnds(c) \/ Heartbeat(c) \/ Breaks(c)
        PROVE  \A d \in Conns : link'[d] = "open" => link[d] = "open"
    <3>1. CASE link' = link
      BY <3>1
    <3>2. CASE Close(c)
      BY <1>3, <3>2
    <3>3. CASE Breaks(c)
      BY <1>1, <3>3 DEF Breaks
    <3> QED
      BY <2>3, <3>1, <3>2, <3>3 DEF Replay, HandlerEnds, Heartbeat
  <2> QED
    BY <1>2, <1>9, <2>1, <2>2, <2>3 DEF ServerSide, Server
<1>10. CASE UNCHANGED vars
  BY <1>2, <1>10 DEF vars, net, client
<1> QED
  BY <1>4, <1>5, <1>6, <1>7, <1>8, <1>9, <1>10 DEF Next

\* For any number of clients, kinds and messages: whatever a broadcast waits
\* for, the client, the heartbeat or the transport will give it.
THEOREM HeldUpOnlyByReader == Spec => []HeldUpByReader
<1>1. Init => FeedInv /\ SockInv
  <2>1. Init => SockInv
    BY DEF Init, ServerInit, SockInv
  <2> QED
    BY <2>1, InitFeed
<1>2. FeedInv /\ SockInv /\ [Next]_vars => (FeedInv /\ SockInv)'
  BY StepFeed, StepSock
<1>3. FeedInv /\ SockInv => HeldUpByReader
  <2> SUFFICES ASSUME FeedInv, SockInv, NEW k \in Kinds, Busy(k)
               PROVE  LET c == worker[k].at
                      IN  \/ Writable(c)
                          \/ link[c] = "broken"
                          \/ page = "open" /\ sock = c /\ link[c] = "open" /\ wire[c] # <<>>
    BY DEF HeldUpByReader
  <2>1. PICK c \in Conns : c = worker[k].at
    BY DEF FeedInv, FeedTypes, Broadcasts, Busy
  <2>2. link[c] \in {"open", "broken", "closed"} /\ wire[c] \in Seq(Message)
    BY <2>1 DEF FeedInv, FeedTypes
  <2>3. CASE link[c] = "open" /\ ~Writable(c)
    <3>1. wire[c] # <<>>
      <4> SUFFICES ASSUME wire[c] = <<>> PROVE FALSE
        OBVIOUS
      <4>1. Len(wire[c]) = 0
        OBVIOUS
      <4> QED
        BY <2>3, <4>1, BroadcasterAssumption DEF Writable
    <3> QED
      BY <2>1, <2>3, <3>1 DEF SockInv
  <2> QED
    BY <2>1, <2>2, <2>3 DEF Writable
<1> QED
  BY <1>1, <1>2, <1>3, PTL DEF Spec

\* A broadcast, in progress for some connections, is not extended and not
\* replaced: with HeldUpOnlyByReader, only fairness is left of BroadcastsEnd.
THEOREM BroadcastsShrink == Spec => BroadcastShrinks
<1>1. ASSUME FeedInv, [Next]_vars, NEW k \in Kinds, Busy(k)
      PROVE  \/ worker'[k] = worker[k]
             \/ worker'[k].at = NoConn
             \/ /\ worker'[k].at \in worker[k].todo
                /\ worker'[k].todo = worker[k].todo \ {worker'[k].at}
                /\ count'[k] = count[k]
  <2>1. worker \in [Kinds -> Broadcasts] /\ Idle.at = NoConn
    BY <1>1 DEF FeedInv, FeedTypes, Idle
  <2>2. CASE worker' = worker
    BY <2>2
  <2>3. ASSUME NEW q \in Kinds, NEW n, NEW todo, NEW dead, Sends(q, n, todo, dead), q # k
        PROVE  worker'[k] = worker[k]
    BY <2>1, <2>3 DEF Sends
  <2>4. ASSUME NEW dead, Sends(k, count[k], worker[k].todo, dead), UNCHANGED count
        PROVE  \/ worker'[k].at = NoConn
               \/ /\ worker'[k].at \in worker[k].todo
                  /\ worker'[k].todo = worker[k].todo \ {worker'[k].at}
                  /\ count'[k] = count[k]
    <3>1. CASE worker[k].todo = {}
      BY <2>1, <2>4, <3>1 DEF Sends
    <3>2. CASE worker[k].todo # {}
      <4>1. PICK c \in worker[k].todo :
              worker' = [worker EXCEPT ![k] =
                           [at |-> c, todo |-> worker[k].todo \ {c}, dead |-> dead]]
        BY <2>4, <3>2 DEF Sends
      <4>2. worker'[k] = [at |-> c, todo |-> worker[k].todo \ {c}, dead |-> dead]
        BY <2>1, <4>1
      <4>3. worker'[k].at = c /\ worker'[k].todo = worker[k].todo \ {c}
        BY <4>2
      <4> QED
        BY <2>4, <4>3
    <3> QED
      BY <3>1, <3>2
  <2>5. ASSUME NEW q \in Kinds, Broadcast(q) PROVE worker'[k] = worker[k]
    <3>1. q # k
      BY <1>1, <2>5 DEF Broadcast
    <3> QED
      BY <2>3, <2>5, <3>1 DEF Broadcast
  <2>6. ASSUME NEW q \in Kinds, SendReturns(q)
        PROVE  \/ worker'[k] = worker[k]
               \/ worker'[k].at = NoConn
               \/ /\ worker'[k].at \in worker[k].todo
                  /\ worker'[k].todo = worker[k].todo \ {worker'[k].at}
                  /\ count'[k] = count[k]
    BY <2>3, <2>4, <2>6 DEF SendReturns
  <2>7. ASSUME NEW c \in Conns, Replay(c) \/ HandlerEnds(c) \/ Heartbeat(c) \/ Breaks(c)
        PROVE  worker' = worker
    BY <2>7 DEF Replay, HandlerEnds, Heartbeat, Breaks, server
  <2>8. CASE ServerSide(Server)
    BY <2>2, <2>5, <2>6, <2>7, <2>8 DEF ServerSide, Server
  <2>9. CASE ~ServerSide(Server)
    <3>1. worker' = worker
      BY <1>1, <2>9 DEF Next, Open, Accept, AttemptFails, ConnectionLost, TimerFires, OnMessage,
                        Unmount, Mount, HandleLogs, vars, server
    <3> QED
      BY <3>1
  <2> QED
    BY <2>8, <2>9
<1>2. FeedInv /\ [Next]_vars
        => [\A k \in Kinds : Busy(k) =>
               \/ worker'[k] = worker[k]
               \/ worker'[k].at = NoConn
               \/ /\ worker'[k].at \in worker[k].todo
                  /\ worker'[k].todo = worker[k].todo \ {worker'[k].at}
                  /\ count'[k] = count[k]]_vars
  BY <1>1
<1>3. Init => FeedInv
  BY InitFeed
<1>4. FeedInv /\ [Next]_vars => FeedInv'
  BY StepFeed
<1> QED
  BY <1>2, <1>3, <1>4, PTL DEF Spec, BroadcastShrinks
=============================================================================
