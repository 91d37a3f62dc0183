----------------------------- MODULE Dashboard -----------------------------
(***************************************************************************)
(* One dashboard page at the bridge's WebSocket: useBridgeSocket with its  *)
(* reconnect timer, useProgramEvents with the chain's own log feed, and    *)
(* the store both write to, which outlives the page's components.          *)
(***************************************************************************)
EXTENDS Broadcaster

CONSTANTS MaxDelay,     \* doublings from RECONNECT_BASE_MS to RECONNECT_MAX_MS
          MaxSeen,      \* MAX_SEEN
          Markers,      \* numbers of the compliance events that mark a session
          MaxEvents,    \* bound: the largest Limit of an event
          MaxReports    \* bound: reports of the chain

ASSUME DashboardAssumption ==
    {MaxDelay, MaxReports} \subseteq Nat /\ MaxSeen \in Nat \ {0} /\ "compliance" \notin Sticky

VARIABLES
    page,       \* connecting, open, waiting (for the timer), unmounted
    sock,       \* wsRef
    delay,      \* delayRef, in doublings of the base
    shown,      \* shown[k]: number of the latest message of kind k applied
    tally,      \* tally[k]: geminiCallCount, complianceEventCount
    rows,       \* rows[m]: rows of event m in payments or complianceLogs
    seen,       \* signatures useProgramEvents has handled, oldest first
    reports     \* bound: reports of the chain so far

client == <<page, sock, delay>>
store == <<shown, tally, rows>>
chain == <<seen, reports>>
vars == <<server, net, client, store, chain>>

Events == Kinds \ Sticky
Event == {m \in [kind : Events, n : 1..MaxEvents] : m.n <= Limit[m.kind]}

ASSUME EventAssumption == IsFiniteSet(Event)

TypeOK ==
    /\ ServerTypes
    /\ page \in {"connecting", "open", "waiting", "unmounted"}
    /\ sock \in Conns \cup {NoConn}
    /\ delay \in 0..MaxDelay
    /\ shown \in [Kinds -> Nat] /\ tally \in [Events -> Nat]
    /\ rows \in [Event -> Nat] /\ reports \in 0..MaxReports
    /\ seen \in Seq(Message) /\ Len(seen) <= MaxSeen

Init ==
    /\ ServerInit
    /\ page = "connecting" /\ sock = NoConn /\ delay = 0
    /\ shown = [k \in Kinds |-> 0] /\ tally = [k \in Events |-> 0]
    /\ rows = [m \in Event |-> 0] /\ seen = <<>> /\ reports = 0

----------------------------------------------------------------------------
(* useBridgeSocket.                                                        *)

\* onopen resets the delay.
Open(c) ==
    /\ page = "connecting" /\ Accept(c)
    /\ page' = "open" /\ sock' = c /\ delay' = 0
    /\ UNCHANGED <<store, chain>>

\* onclose: of a connection attempt, or of an open socket.
NextDelay == IF delay < MaxDelay THEN delay + 1 ELSE MaxDelay
OnClose == page' = "waiting" /\ sock' = NoConn /\ delay' = NextDelay

AttemptFails ==
    /\ page = "connecting"
    /\ OnClose \/ (page' = "waiting" /\ UNCHANGED <<sock, delay>>)
    /\ UNCHANGED <<server, net, store, chain>>

ConnectionLost ==
    /\ page = "open" /\ link[sock] # "open"
    /\ OnClose
    /\ UNCHANGED <<server, net, store, chain>>

\* Variant: no further attempt once the delay has reached its maximum.
TimerFiresBounded ==
    /\ page = "waiting" /\ delay < MaxDelay /\ page' = "connecting"
    /\ UNCHANGED <<server, net, sock, delay, store, chain>>
TimerFires ==
    /\ page = "waiting" /\ page' = "connecting"
    /\ UNCHANGED <<server, net, sock, delay, store, chain>>

\* onmessage, by the kind of the message; markers of a replay session are not
\* shown.
IsMarker(m) == m.kind = "compliance" /\ m.n \in Markers

OnMessage ==
    /\ page = "open" /\ link[sock] = "open" /\ wire[sock] # <<>>
    /\ LET m == Head(wire[sock])
       IN  IF IsMarker(m) THEN UNCHANGED store
           ELSE /\ shown' = [shown EXCEPT ![m.kind] = m.n]
                /\ IF m.kind \in Sticky THEN UNCHANGED <<tally, rows>>
                   ELSE /\ tally' = [tally EXCEPT ![m.kind] = @ + 1]
                        /\ rows' = [rows EXCEPT ![m] = @ + 1]
    /\ wire' = [wire EXCEPT ![sock] = Tail(@)]
    /\ UNCHANGED <<server, connections, link, handler, client, chain>>

\* The effect's cleanup: the socket is closed and its onclose taken off.
Unmount ==
    /\ page # "unmounted"
    /\ page' = "unmounted" /\ sock' = NoConn
    /\ IF page = "open" THEN Close(sock) ELSE UNCHANGED <<link, wire>>
    /\ UNCHANGED <<server, connections, handler, delay, store, chain>>

Mount ==
    /\ page = "unmounted" /\ page' = "connecting" /\ delay' = 0
    /\ UNCHANGED <<server, net, sock, store, chain>>

----------------------------------------------------------------------------
(* useProgramEvents.                                                       *)

\* markSeen: the set forgets its oldest signature when it outgrows MAX_SEEN.
\* It is the module's, and outlives the hook.
\* Variant: it forgets when it is full.
BoundedEarly(signatures) ==
    IF Len(signatures) >= MaxSeen THEN Tail(signatures) ELSE signatures
Bounded(signatures) ==
    IF Len(signatures) > MaxSeen THEN Tail(signatures) ELSE signatures

\* The chain reports a transaction of the program, perhaps more than once, and
\* before or after the bridge's message about it.
HandleLogs(m) ==
    /\ page # "unmounted" /\ reports < MaxReports
    /\ reports' = reports + 1
    /\ IF \E i \in 1..Len(seen) : seen[i] = m THEN UNCHANGED <<seen, rows>>
       ELSE /\ seen' = Bounded(Append(seen, m))
            /\ rows' = [rows EXCEPT ![m] = @ + 1]
    /\ UNCHANGED <<server, net, client, shown, tally>>

ServerSide(step) == step /\ UNCHANGED <<client, store, chain>>

Next ==
    \/ ServerSide(Server)
    \/ \E c \in Conns : Open(c)
    \/ AttemptFails \/ ConnectionLost \/ TimerFires \/ OnMessage \/ Unmount \/ Mount
    \/ \E m \in Event : HandleLogs(m)

Spec == Init /\ [][Next]_vars

\* The event loop runs what is ready, the heartbeat and the browser notice a
\* lost connection, a page that reads goes on reading, and a server that can
\* be reached again and again is reached.
LiveSpec ==
    /\ Spec
    /\ \A k \in Kinds : WF_vars(ServerSide(SendReturns(k)))
    /\ \A c \in Conns : /\ WF_vars(ServerSide(Heartbeat(c)))
                        /\ WF_vars(ServerSide(Replay(c)))
                        /\ WF_vars(ServerSide(HandlerEnds(c)))
    /\ WF_vars(ConnectionLost) /\ WF_vars(TimerFires) /\ WF_vars(OnMessage)
    /\ SF_vars(\E c \in Conns : Open(c))

----------------------------------------------------------------------------
\* A page that is connected, once its replay is done and nothing is on its way,
\* shows the latest report of every sticky kind, whenever it joined, also in
\* the middle of a broadcast and after any number of reconnects.
ShowsLatest ==
    (/\ page = "open" /\ link[sock] = "open"
     /\ handler[sock].pc = "reading" /\ wire[sock] = <<>>)
    => \A k \in Sticky : ~Busy(k) => shown[k] = count[k]

\* What a page shows of a kind never goes back to an older message, over the
\* replay racing a broadcast and over reconnects.
NeverBackwards == [][\A k \in Kinds : shown'[k] >= shown[k]]_vars

\* The page counts and adds up a payment at most once: reconnects, replays and
\* the second feed do not count it again.
CountedOnce == \A k \in Events : tally[k] <= count[k]

\* While the chain's feed is about no more than MAX_SEEN transactions, an event
\* has at most one row from each of the two feeds, however often the chain
\* reports it and the page mounts its hooks again.
RowsOncePerFeed == Cardinality(Event) <= MaxSeen => \A m \in Event : rows[m] <= 2

\* A broadcast ends, so a client that stops reading holds a worker up only
\* until the heartbeat closes its connection.
BroadcastsEnd == \A k \in Kinds : Busy(k) ~> ~Busy(k)

\* What a broadcast still has to do only shrinks: a client that joins while it
\* is under way is left to the replay, and no second broadcast of the same
\* worker starts before it ends.
BroadcastShrinks ==
    [][\A k \in Kinds : Busy(k) =>
          \/ worker'[k] = worker[k]
          \/ worker'[k].at = NoConn
          \/ /\ worker'[k].at \in worker[k].todo
             /\ worker'[k].todo = worker[k].todo \ {worker'[k].at}
             /\ count'[k] = count[k]]_vars

\* A broadcast is held up only by somebody who will notice: its next client can
\* be written to, or is half-open and the heartbeat's, or is the page, which is
\* connected and has something to read.
HeldUpByReader ==
    \A k \in Kinds : Busy(k) =>
        LET c == worker[k].at
        IN  \/ Writable(c)
            \/ link[c] = "broken"
            \/ page = "open" /\ sock = c /\ link[c] = "open" /\ wire[c] # <<>>

\* A page whose connection was lost or refused is connected again.
Reconnects == (page = "waiting") ~> (page \in {"open", "unmounted"})

\* useBridgeSocket.ts: session markers "should not appear in the dashboard".
MarkersHidden == \A m \in Event : IsMarker(m) => rows[m] = 0
=============================================================================
