---------------------------- MODULE Broadcaster ----------------------------
(***************************************************************************)
(* The bridge's WebSocket server.  Every worker broadcasts messages of its *)
(* own kind, one at a time; the broadcasts of different workers interleave *)
(* because a send to a client that does not read suspends.  A client that  *)
(* joins is first sent the latest message of each sticky kind.             *)
(*                                                                         *)
(* A message is its kind and its number.  TCP keeps the order of what is   *)
(* sent on a connection.  The network and the clients are external.        *)
(***************************************************************************)
EXTENDS Integers, Sequences, FiniteSets

CONSTANTS Kinds,        \* kinds of messages, one worker each
          Sticky,       \* those replayed to a client that joins
          Limit,        \* bound: messages of each kind
          Conns,        \* connection objects
          HighWater,    \* messages a transport buffers before a send suspends
          NoConn

ASSUME BroadcasterAssumption ==
    /\ Sticky \subseteq Kinds /\ IsFiniteSet(Sticky) /\ Limit \in [Kinds -> Nat]
    /\ HighWater \in Nat /\ NoConn \notin Conns

VARIABLES
    count,         \* count[k]: messages of kind k broadcast so far
    sticky,        \* _sticky, in the order in which its keys were inserted
    connections,   \* _connections
    worker,        \* worker[k]: the broadcast in progress
    link,          \* link[c]: open, broken (half-open) or closed
    wire,          \* wire[c]: sent and not yet read by the client
    handler        \* handler[c]: where _handle_ws is

server == <<count, sticky, worker>>
net == <<connections, link, wire, handler>>

Message == [kind : Kinds, n : Nat]
Idle == [at |-> NoConn, todo |-> {}, dead |-> {}]
Returned == [pc |-> "none", pos |-> 0, size |-> 0]

ServerTypes ==
    /\ count \in [Kinds -> Nat]
    /\ sticky \in Seq(Message) /\ Len(sticky) <= Cardinality(Sticky)
    /\ connections \subseteq Conns
    /\ worker \in [Kinds -> [at : Conns \cup {NoConn},
                             todo : SUBSET Conns, dead : SUBSET Conns]]
    /\ link \in [Conns -> {"open", "broken", "closed"}]
    /\ wire \in [Conns -> Seq(Message)]
    /\ handler \in [Conns -> [pc : {"none", "replay", "reading"}, pos : Nat, size : Nat]]

ServerInit ==
    /\ count = [k \in Kinds |-> 0] /\ sticky = <<>> /\ connections = {}
    /\ worker = [k \in Kinds |-> Idle]
    /\ link = [c \in Conns |-> "closed"] /\ wire = [c \in Conns |-> <<>>]
    /\ handler = [c \in Conns |-> Returned]

Busy(k) == worker[k].at # NoConn
Writable(c) == link[c] = "closed" \/ Len(wire[c]) <= HighWater

\* send_str on a closed transport raises; otherwise the message is buffered.
Written(c, message) ==
    wire' = IF link[c] = "closed" THEN wire
                                  ELSE [wire EXCEPT ![c] = Append(@, message)]

\* What the client has not read is lost with the connection.
Close(c) ==
    /\ link' = [link EXCEPT ![c] = "closed"]
    /\ wire' = [wire EXCEPT ![c] = <<>>]

----------------------------------------------------------------------------
(* broadcast().                                                            *)

\* A dict keeps the place of a key whose value is replaced.
\* Variants: every kind is kept; a value is never replaced.
IsStickyToo(k) == k \in Kinds
IsSticky(k) == k \in Sticky

KeptFirst(message) ==
    IF \E i \in 1..Len(sticky) : sticky[i].kind = message.kind THEN sticky
    ELSE Append(sticky, message)
Kept(message) ==
    IF \E i \in 1..Len(sticky) : sticky[i].kind = message.kind
    THEN [i \in 1..Len(sticky) |->
             IF sticky[i].kind = message.kind THEN message ELSE sticky[i]]
    ELSE Append(sticky, message)

\* The loop over a copy of the connections, up to its next await; after the
\* last one, those whose send raised are removed.
Sends(k, n, todo, dead) ==
    IF todo = {}
    THEN /\ worker' = [worker EXCEPT ![k] = Idle]
         /\ connections' = connections \ dead /\ UNCHANGED wire
    ELSE \E c \in todo :
         /\ worker' = [worker EXCEPT ![k] = [at |-> c, todo |-> todo \ {c}, dead |-> dead]]
         /\ Written(c, [kind |-> k, n |-> n]) /\ UNCHANGED connections

Broadcast(k) ==
    /\ ~Busy(k) /\ count[k] < Limit[k]
    /\ count' = [count EXCEPT ![k] = @ + 1]
    /\ sticky' = IF IsSticky(k) THEN Kept([kind |-> k, n |-> count[k] + 1]) ELSE sticky
    /\ Sends(k, count[k] + 1, connections, {})
    /\ UNCHANGED <<link, handler>>

\* The awaited send returns, or raises because the connection is closed.
SendReturns(k) ==
    LET c == worker[k].at
    IN  /\ Busy(k) /\ Writable(c)
        /\ Sends(k, count[k], worker[k].todo,
                 IF link[c] = "closed" THEN worker[k].dead \cup {c} ELSE worker[k].dead)
        /\ UNCHANGED <<count, sticky, link, handler>>

----------------------------------------------------------------------------
(* _handle_ws() and the heartbeat of aiohttp.                              *)

\* No task refers to the connection object any more.
Unused(c) ==
    /\ link[c] = "closed" /\ handler[c].pc = "none" /\ c \notin connections
    /\ \A k \in Kinds : c \notin worker[k].todo \cup worker[k].dead \cup {worker[k].at}

\* The handler adds the connection and sends what is sticky, up to its first
\* await.
Accept(c) ==
    /\ Unused(c)
    /\ connections' = connections \cup {c}
    /\ link' = [link EXCEPT ![c] = "open"]
    /\ wire' = [wire EXCEPT ![c] = IF sticky = <<>> THEN <<>> ELSE <<sticky[1]>>]
    /\ handler' = [handler EXCEPT ![c] =
          IF sticky = <<>> THEN [Returned EXCEPT !.pc = "reading"]
                           ELSE [pc |-> "replay", pos |-> 2, size |-> Len(sticky)]]
    /\ UNCHANGED server

\* The awaited send of the replay returns.  A key that was added to the dict
\* meanwhile makes its iterator raise, and the handler ends outside of its try
\* statement: the connection stays in the set.
\* Variant: the loop stops one message short.
ReplayedEarly(c) == handler[c].pos >= handler[c].size
Replayed(c) == handler[c].pos > handler[c].size

Replay(c) ==
    /\ handler[c].pc = "replay" /\ Writable(c)
    /\ IF Len(sticky) # handler[c].size
       THEN handler' = [handler EXCEPT ![c] = Returned] /\ Close(c)
       ELSE /\ UNCHANGED link
            /\ IF Replayed(c)
               THEN /\ handler' = [handler EXCEPT ![c] = [Returned EXCEPT !.pc = "reading"]]
                    /\ UNCHANGED wire
               ELSE /\ Written(c, sticky[handler[c].pos])
                    /\ handler' = [handler EXCEPT ![c].pos = @ + 1]
    /\ UNCHANGED <<server, connections>>

HandlerEnds(c) ==
    /\ handler[c].pc = "reading" /\ link[c] = "closed"
    /\ handler' = [handler EXCEPT ![c] = Returned]
    /\ connections' = connections \ {c}
    /\ UNCHANGED <<server, link, wire>>

\* No pong within the heartbeat: the server closes the connection.
\* Variant: no heartbeat.
HeartbeatOff(c) == FALSE /\ UNCHANGED <<server, net>>
Heartbeat(c) ==
    /\ link[c] = "broken"
    /\ Close(c)
    /\ UNCHANGED <<server, connections, handler>>

\* The network loses the client, and nobody is told.
Breaks(c) ==
    /\ link[c] = "open"
    /\ link' = [link EXCEPT ![c] = "broken"]
    /\ UNCHANGED <<server, connections, wire, handler>>

Server ==
    \/ \E k \in Kinds : Broadcast(k) \/ SendReturns(k)
    \/ \E c \in Conns : Replay(c) \/ HandlerEnds(c) \/ Heartbeat(c) \/ Breaks(c)
=============================================================================
