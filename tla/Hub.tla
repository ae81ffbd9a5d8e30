-------------------------------- MODULE Hub --------------------------------
(***************************************************************************)
(* The websocket hub: one goroutine (Run) owns the client set, and every   *)
(* connection has a read pump, which is also its http handler, and a write *)
(* pump.  They share three unbuffered channels (register, unregister,      *)
(* done), the broadcast backlog, and one send buffer per client.           *)
(*                                                                         *)
(* An event is the number of the Broadcast call that carried it, so order, *)
(* loss and duplication can be read off what a client was sent.  A select  *)
(* with several ready cases takes any of them.                             *)
(***************************************************************************)
EXTENDS Naturals, Sequences

CONSTANTS Clients,     \* websocket connections; a reconnect is a new one
          MaxEvents,   \* bound: how many events are broadcast
          SendBuffer,  \* sendBuffer
          Backlog      \* capacity of h.broadcast

ASSUME HubAssumption == MaxEvents \in Nat /\ SendBuffer \in Nat \ {0}
                                          /\ Backlog \in Nat \ {0}

VARIABLES done,      \* h.done is closed
          running,   \* Run has not returned
          backlog,   \* h.broadcast
          clients,   \* h.clients
          send,      \* c.send
          closes,    \* how often c.send was closed
          conn,      \* the connection
          reader,    \* ServeHTTP, which becomes readPump
          writer,    \* writePump
          got,       \* the events written to the connection
          offered    \* number of Broadcast calls so far

hubVars    == <<done, running, backlog, clients, offered>>
clientVars == <<send, closes, conn, reader, writer, got>>
vars       == <<hubVars, clientVars>>

Event == 1..MaxEvents

TypeOK ==
    /\ done \in BOOLEAN /\ running \in BOOLEAN
    /\ backlog \in Seq(Event) /\ Len(backlog) <= Backlog
    /\ clients \in SUBSET Clients
    /\ send    \in [Clients -> Seq(Event)]
    /\ \A c \in Clients : Len(send[c]) <= SendBuffer
    /\ closes  \in [Clients -> 0..1]
    /\ conn    \in [Clients -> {"none", "open", "closed"}]
    /\ reader  \in [Clients -> {"new", "register", "read", "unregister", "close", "gone"}]
    /\ writer  \in [Clients -> {"off", "on", "gone"}]
    /\ got     \in [Clients -> Seq(Event)]
    /\ offered \in 0..MaxEvents

Init ==
    /\ done = FALSE /\ running = TRUE
    /\ backlog = <<>> /\ clients = {} /\ offered = 0
    /\ send   = [c \in Clients |-> <<>>]
    /\ closes = [c \in Clients |-> 0]
    /\ conn   = [c \in Clients |-> "none"]
    /\ reader = [c \in Clients |-> "new"]
    /\ writer = [c \in Clients |-> "off"]
    /\ got    = [c \in Clients |-> <<>>]

Reader(c, label) == reader' = [reader EXCEPT ![c] = label]
Writer(c, label) == writer' = [writer EXCEPT ![c] = label]
Conn(c, state)   == conn' = [conn EXCEPT ![c] = state]

-----------------------------------------------------------------------------
(* Broadcast and Close *)

\* Queued when there is room; dropped when there is none, or, once the hub is
\* closed, whenever select picks that case.  It never waits.
Broadcast ==
    /\ offered < MaxEvents
    /\ offered' = offered + 1
    /\ \/ Len(backlog) < Backlog /\ backlog' = Append(backlog, offered + 1)
       \/ (Len(backlog) = Backlog \/ done) /\ UNCHANGED backlog
    /\ UNCHANGED <<done, running, clients, clientVars>>

Close ==
    /\ ~done
    /\ done' = TRUE
    /\ UNCHANGED <<running, backlog, clients, offered, clientVars>>

-----------------------------------------------------------------------------
(* Run *)

\* Run receives from register: the handler goes on to start the write pump and
\* to read.
Register(c) ==
    /\ running
    /\ reader[c] = "register"
    /\ clients' = clients \cup {c}
    /\ Reader(c, "read")
    /\ Writer(c, "on")
    /\ UNCHANGED <<done, running, backlog, offered, send, closes, conn, got>>

\* Wrong variant: the channel is closed and the client stays in the set.
UnregisterKeepingClient(c) ==
    /\ running
    /\ reader[c] = "unregister"
    /\ closes' = [closes EXCEPT ![c] = @ + 1]
    /\ Reader(c, "close")
    /\ UNCHANGED <<hubVars, send, conn, writer, got>>

\* Run receives from unregister.
Unregister(c) ==
    /\ running
    /\ reader[c] = "unregister"
    /\ clients' = clients \ {c}
    /\ closes'  = IF c \in clients THEN [closes EXCEPT ![c] = @ + 1] ELSE closes
    /\ Reader(c, "close")
    /\ UNCHANGED <<done, running, backlog, offered, send, conn, writer, got>>

\* Wrong variant: a full client gets the event ahead of what it has not read.
FanOutOverwriting ==
    /\ running
    /\ backlog # <<>>
    /\ backlog' = Tail(backlog)
    /\ send' = [c \in Clients |->
                  IF c \notin clients THEN send[c]
                  ELSE IF Len(send[c]) < SendBuffer THEN Append(send[c], Head(backlog))
                  ELSE <<Head(backlog)>> \o Tail(send[c])]
    /\ UNCHANGED <<done, running, clients, offered, closes, conn, reader, writer, got>>

\* Run receives an event and offers it to every client; a client whose buffer
\* is full goes without.  The sends do not block and touch one client each, so
\* one step stands for the loop.
FanOut ==
    /\ running
    /\ backlog # <<>>
    /\ backlog' = Tail(backlog)
    /\ send' = [c \in Clients |->
                  IF c \in clients /\ Len(send[c]) < SendBuffer
                  THEN Append(send[c], Head(backlog))
                  ELSE send[c]]
    /\ UNCHANGED <<done, running, clients, offered, closes, conn, reader, writer, got>>

\* Wrong variant: the clients are forgotten and their channels left open.
RunStopsWithoutClosing ==
    /\ running
    /\ done
    /\ running' = FALSE
    /\ clients' = {}
    /\ UNCHANGED <<done, backlog, offered, clientVars>>

\* Run sees done: it closes every client's channel and returns.
RunStops ==
    /\ running
    /\ done
    /\ running' = FALSE
    /\ clients' = {}
    /\ closes'  = [c \in Clients |-> IF c \in clients THEN closes[c] + 1 ELSE closes[c]]
    /\ UNCHANGED <<done, backlog, offered, send, conn, reader, writer, got>>

-----------------------------------------------------------------------------
(* The handler and the read pump *)

\* The upgrade succeeds, or it writes an error response and that is all.
Upgrade(c) ==
    /\ reader[c] = "new"
    /\ \/ Conn(c, "open") /\ Reader(c, "register")
       \/ UNCHANGED conn /\ Reader(c, "gone")
    /\ UNCHANGED <<hubVars, send, closes, writer, got>>

RefusedAfterClose(c) ==
    /\ reader[c] = "register"
    /\ done
    /\ Conn(c, "closed")
    /\ Reader(c, "gone")
    /\ UNCHANGED <<hubVars, send, closes, writer, got>>

\* ReadMessage returns an error: the peer went away, nothing was heard for
\* pongWait, or our side of the connection is closed.
ReadFails(c) ==
    /\ reader[c] = "read"
    /\ Reader(c, "unregister")
    /\ UNCHANGED <<hubVars, send, closes, conn, writer, got>>

\* The deferred select takes its done case.
SkipUnregister(c) ==
    /\ reader[c] = "unregister"
    /\ done
    /\ Reader(c, "close")
    /\ UNCHANGED <<hubVars, send, closes, conn, writer, got>>

CloseConn(c) ==
    /\ reader[c] = "close"
    /\ Conn(c, "closed")
    /\ Reader(c, "gone")
    /\ UNCHANGED <<hubVars, send, closes, writer, got>>

-----------------------------------------------------------------------------
(* The write pump *)

WriteEvent(c) ==
    /\ writer[c] = "on"
    /\ send[c] # <<>>
    /\ conn[c] = "open"
    /\ send' = [send EXCEPT ![c] = Tail(@)]
    /\ got'  = [got EXCEPT ![c] = Append(@, Head(send[c]))]
    /\ UNCHANGED <<hubVars, closes, conn, reader, writer>>

\* The write times out or the connection is gone; the deferred Close follows.
WriteEventFails(c) ==
    /\ writer[c] = "on"
    /\ send[c] # <<>>
    /\ send' = [send EXCEPT ![c] = Tail(@)]
    /\ Writer(c, "gone")
    /\ Conn(c, "closed")
    /\ UNCHANGED <<hubVars, closes, reader, got>>

PingFails(c) ==
    /\ writer[c] = "on"
    /\ Writer(c, "gone")
    /\ Conn(c, "closed")
    /\ UNCHANGED <<hubVars, send, closes, reader, got>>

\* A closed channel is drained first; then the close frame is written.
WriterEnds(c) ==
    /\ writer[c] = "on"
    /\ send[c] = <<>>
    /\ closes[c] > 0
    /\ Writer(c, "gone")
    /\ Conn(c, "closed")
    /\ UNCHANGED <<hubVars, send, closes, reader, got>>

-----------------------------------------------------------------------------
(* Specification *)

WritePump(c) == WriteEvent(c) \/ WriteEventFails(c) \/ WriterEnds(c)

Next ==
    \/ Broadcast \/ Close \/ FanOut \/ RunStops
    \/ \E c \in Clients :
          \/ Register(c) \/ Unregister(c)
          \/ Upgrade(c) \/ RefusedAfterClose(c) \/ ReadFails(c)
          \/ SkipUnregister(c) \/ CloseConn(c)
          \/ WritePump(c) \/ PingFails(c)

Spec == Init /\ [][Next]_vars

\* Run serves every case that stays ready (select picks among them at random),
\* a goroutine that can go on does, a read on a closed connection returns, and
\* a ping that must fail does.  Nothing is assumed of peers or of Close.
Fairness ==
    /\ WF_vars(FanOut) /\ WF_vars(RunStops)
    /\ \A c \in Clients :
          /\ WF_vars(Register(c) \/ RefusedAfterClose(c))
          /\ WF_vars(Unregister(c) \/ SkipUnregister(c))
          /\ WF_vars(CloseConn(c)) /\ WF_vars(WritePump(c))
          /\ WF_vars(conn[c] = "closed" /\ ReadFails(c))
          /\ WF_vars(conn[c] = "closed" /\ PingFails(c))

FairSpec == Spec /\ Fairness

-----------------------------------------------------------------------------
(* Properties *)

\* Run never sends on a closed channel and never closes one twice, either of
\* which would panic the api: the clients it knows are those whose channel is
\* open, and a channel is closed at most once.
NoChannelPanic ==
    \A c \in Clients : closes[c] <= 1 /\ (c \in clients => closes[c] = 0)

Increasing(s) == \A i, k \in 1..Len(s) : i < k => s[i] < s[k]

\* What a client was sent, has waiting, and has still to be offered are in the
\* order of the Broadcast calls, each event once: drops leave gaps and never
\* put an older status after a newer one.
DeliveredInOrder ==
    \A c \in Clients :
        Increasing(got[c] \o send[c] \o (IF c \in clients THEN backlog ELSE <<>>))

\* Nobody is left behind, and that is what NoGoroutineLeak asks of the code: a
\* write pump always has somebody who will end it, since Run knows its client or
\* has closed its channel; and when one of the two pumps is gone the connection
\* is closed, so the other one hears of it.
NobodyStranded ==
    \A c \in Clients :
        /\ writer[c] = "on" => c \in clients \/ closes[c] = 1
        /\ conn[c] = "open" => reader[c] # "gone" /\ writer[c] # "gone"

\* After Close every goroutine of every connection ends, whichever channel it
\* was waiting on.
NoGoroutineLeak ==
    \A c \in Clients :
        done /\ reader[c] # "new" ~> reader[c] = "gone" /\ writer[c] # "on"

\* A connection that broke is forgotten, so its buffer stops filling.
BrokenClientForgotten ==
    \A c \in Clients : conn[c] = "closed" ~> c \notin clients

\* An event that has a place in a client's buffer is written, or the connection
\* ends: later events do not push it out, and Close does not strand it.
QueuedIsWritten ==
    \A c \in Clients, e \in Event :
        (\E i \in 1..Len(send[c]) : send[c][i] = e)
            ~> (\E i \in 1..Len(got[c]) : got[c][i] = e) \/ conn[c] = "closed"

\* sendBuffer is "how far behind a client may fall before it gets dropped": a
\* client that cannot take an event is disconnected, which is what makes it
\* reload the list.
SlowClientDropped ==
    [][FanOut => \A c \in clients : Len(send[c]) = SendBuffer => c \notin clients']_vars

Feed == INSTANCE EventFeed WITH published <- offered, link <- conn, seen <- got

\* To a page the hub is a feed: some of the events, in order, while connected.
ImplementsFeed == Feed!Spec

-----------------------------------------------------------------------------
(* The inductive invariant *)

\* A client is in the set exactly from its registration to the one step that
\* closes its channel.
Membership(c) ==
    /\ c \in clients => /\ running
                        /\ closes[c] = 0
                        /\ reader[c] \in {"read", "unregister", "close", "gone"}
                        /\ reader[c] \in {"close", "gone"} => done
    /\ reader[c] \in {"new", "register"} => closes[c] = 0
    /\ reader[c] \in {"read", "unregister"} => c \in clients \/ ~running

HubInv ==
    /\ clients \in SUBSET Clients
    /\ closes \in [Clients -> 0..1]
    /\ reader \in [Clients -> {"new", "register", "read", "unregister", "close", "gone"}]
    /\ done \in BOOLEAN /\ running \in BOOLEAN
    /\ ~running => done
    /\ \A c \in Clients : Membership(c)

=============================================================================
