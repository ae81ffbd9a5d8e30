------------------------------ MODULE HubProofs ------------------------------
(***************************************************************************)
(* Proofs about Hub, for any set of connections and any buffer sizes.      *)
(* HubInv follows a client from its registration to the one step that      *)
(* closes its channel: Unregister, or RunStops for those still in the set. *)
(* OrderInv compares what is written, waiting and still to be offered pair *)
(* by pair, which an append and a drop at either end keep.                 *)
(***************************************************************************)
EXTENDS Hub, SequenceTheorems, TLAPS

LEMMA HubInit == Init => HubInv
<1> SUFFICES ASSUME Init PROVE HubInv
  OBVIOUS
<1>1. closes \in [Clients -> 0..1]
  BY DEF Init
<1>2. reader \in [Clients -> {"new", "register", "read", "unregister", "close", "gone"}]
  BY DEF Init
<1>3. running /\ ~done /\ running \in BOOLEAN /\ done \in BOOLEAN /\ clients = {}
  BY DEF Init
<1>4. ASSUME NEW c \in Clients PROVE Membership(c)
  BY <1>3 DEF Init, Membership
<1> QED
  BY <1>1, <1>2, <1>3, <1>4 DEF HubInv

\* Steps of one connection that Run has no part in.
LEMMA PumpSteps ==
    ASSUME HubInv, NEW c \in Clients,
           \/ Upgrade(c) \/ RefusedAfterClose(c) \/ ReadFails(c)
           \/ SkipUnregister(c) \/ CloseConn(c) \/ WritePump(c) \/ PingFails(c)
    PROVE  HubInv'
<1>1. UNCHANGED <<clients, closes, done, running>>
  BY DEF Upgrade, RefusedAfterClose, ReadFails, SkipUnregister, CloseConn, WritePump,
         WriteEvent, WriteEventFails, WriterEnds, PingFails, hubVars
<1>2. CASE Upgrade(c)
  BY <1>1, <1>2 DEF HubInv, Membership, Upgrade, Reader
<1>3. CASE RefusedAfterClose(c)
  BY <1>1, <1>3 DEF HubInv, Membership, RefusedAfterClose, Reader
<1>4. CASE ReadFails(c)
  BY <1>1, <1>4 DEF HubInv, Membership, ReadFails, Reader
<1>5. CASE SkipUnregister(c)
  BY <1>1, <1>5 DEF HubInv, Membership, SkipUnregister, Reader
<1>6. CASE CloseConn(c)
  BY <1>1, <1>6 DEF HubInv, Membership, CloseConn, Reader
<1>7. CASE WritePump(c) \/ PingFails(c)
  <2>1. UNCHANGED reader
    BY <1>7 DEF WritePump, WriteEvent, WriteEventFails, WriterEnds, PingFails
  <2> QED
    BY <1>1, <2>1 DEF HubInv, Membership
<1> QED
  BY <1>2, <1>3, <1>4, <1>5, <1>6, <1>7

\* The cases of Run's select, Broadcast and Close.
LEMMA RunSteps ==
    ASSUME HubInv,
           \/ Broadcast \/ Close \/ FanOut \/ RunStops
           \/ \E c \in Clients : Register(c) \/ Unregister(c)
    PROVE  HubInv'
<1>1. CASE Broadcast \/ FanOut
  <2>1. UNCHANGED <<clients, closes, reader, done, running>>
    BY <1>1 DEF Broadcast, FanOut, clientVars
  <2> QED
    BY <2>1 DEF HubInv, Membership
<1>2. CASE Close
  BY <1>2 DEF HubInv, Membership, Close, clientVars
<1>3. CASE RunStops
  <2>1. closes' \in [Clients -> 0..1]
    <3>1. \A c \in clients : closes[c] = 0
      BY DEF HubInv, Membership
    <3>2. closes \in [Clients -> 0..1]
      BY DEF HubInv
    <3> QED
      BY <1>3, <3>1, <3>2 DEF RunStops
  <2>2. done' /\ done' \in BOOLEAN /\ ~running' /\ running' \in BOOLEAN /\ clients' = {}
    BY <1>3 DEF RunStops, HubInv
  <2>3. reader' = reader
    BY <1>3 DEF RunStops
  <2>4. ASSUME NEW c \in Clients PROVE Membership(c)'
    <3>1. reader[c] \in {"new", "register"} => c \notin clients
      BY DEF HubInv, Membership
    <3>2. reader[c] \in {"new", "register"} => closes[c] = 0
      BY DEF HubInv, Membership
    <3>3. c \notin clients => closes'[c] = closes[c]
      BY <1>3 DEF RunStops
    <3> QED
      BY <2>2, <2>3, <3>1, <3>2, <3>3 DEF Membership
  <2> QED
    BY <2>1, <2>2, <2>3, <2>4 DEF HubInv
<1>4. ASSUME NEW c \in Clients, Register(c) PROVE HubInv'
  BY <1>4 DEF HubInv, Membership, Register, Reader
<1>5. ASSUME NEW c \in Clients, Unregister(c) PROVE HubInv'
  BY <1>5 DEF HubInv, Membership, Unregister, Reader
<1> QED
  BY <1>1, <1>2, <1>3, <1>4, <1>5

LEMMA HubNext == HubInv /\ [Next]_vars => HubInv'
<1> SUFFICES ASSUME HubInv, [Next]_vars PROVE HubInv'
  OBVIOUS
<1>1. CASE UNCHANGED vars
  BY <1>1 DEF vars, hubVars, clientVars, HubInv, Membership
<1> QED
  BY <1>1, PumpSteps, RunSteps DEF Next

\* The invariant holds in every reachable state.
THEOREM HubInvariant == Spec => []HubInv
BY HubInit, HubNext, PTL DEF Spec

\* No send on a closed channel and no second close, for any number of clients
\* and however their ends interleave with broadcasts and with Close.
THEOREM ChannelsSafe == Spec => []NoChannelPanic
<1>1. HubInv => NoChannelPanic
  <2> SUFFICES ASSUME HubInv, NEW c \in Clients
               PROVE  closes[c] <= 1 /\ (c \in clients => closes[c] = 0)
    BY DEF NoChannelPanic
  <2>1. closes[c] \in 0..1
    BY DEF HubInv
  <2>2. c \in clients => closes[c] = 0
    BY DEF HubInv, Membership
  <2> QED
    BY <2>1, <2>2
<1> QED
  BY <1>1, HubInvariant, PTL

-----------------------------------------------------------------------------
(* Types *)

\* What each step does to the variables HubInv does not speak of.
LEMMA TypeStep ==
    ASSUME TypeOK, HubInv', Next PROVE TypeOK'
<1> USE HubAssumption
<1>1. /\ done' \in BOOLEAN /\ running' \in BOOLEAN /\ clients' \in SUBSET Clients
      /\ closes' \in [Clients -> 0..1]
      /\ reader' \in [Clients -> {"new", "register", "read", "unregister", "close", "gone"}]
  BY DEF HubInv
<1>2. CASE Broadcast
  <2>1. offered + 1 \in Event /\ offered' \in 0..MaxEvents
    BY <1>2 DEF Broadcast, TypeOK, Event
  <2>2. backlog' \in Seq(Event) /\ Len(backlog') <= Backlog
    <3>1. backlog \in Seq(Event) /\ Len(backlog) \in Nat /\ Len(backlog) <= Backlog
      BY LenProperties DEF TypeOK
    <3>2. CASE UNCHANGED backlog
      BY <3>1, <3>2
    <3>3. CASE Len(backlog) < Backlog /\ backlog' = Append(backlog, offered + 1)
      <4>1. Append(backlog, offered + 1) \in Seq(Event)
            /\ Len(Append(backlog, offered + 1)) = Len(backlog) + 1
        BY <2>1, <3>1, AppendProperties
      <4> QED
        BY <3>1, <3>3, <4>1
    <3> QED
      BY <1>2, <3>2, <3>3 DEF Broadcast
  <2> QED
    BY <1>1, <1>2, <2>1, <2>2 DEF Broadcast, TypeOK, clientVars
<1>3. CASE Close \/ RunStops \/ \E c \in Clients : Unregister(c) \/ ReadFails(c) \/ SkipUnregister(c)
  <2>1. UNCHANGED <<backlog, send, conn, writer, got, offered>>
    BY <1>3 DEF Close, RunStops, Unregister, ReadFails, SkipUnregister, hubVars, clientVars
  <2> QED
    BY <1>1, <2>1 DEF TypeOK
<1>4. CASE FanOut
  <2>1. backlog' \in Seq(Event) /\ Len(backlog') <= Backlog /\ Head(backlog) \in Event
    BY <1>4 DEF FanOut, TypeOK
  <2>2. ASSUME NEW c \in Clients PROVE send'[c] \in Seq(Event) /\ Len(send'[c]) <= SendBuffer
    <3>1. send[c] \in Seq(Event) /\ Len(send[c]) <= SendBuffer
      BY DEF TypeOK
    <3>2. Append(send[c], Head(backlog)) \in Seq(Event)
          /\ Len(Append(send[c], Head(backlog))) = Len(send[c]) + 1
      BY <2>1, <3>1
    <3>3. send'[c] = IF c \in clients /\ Len(send[c]) < SendBuffer
                     THEN Append(send[c], Head(backlog)) ELSE send[c]
      BY <1>4 DEF FanOut
    <3> QED
      BY <3>1, <3>2, <3>3
  <2>3. send' \in [Clients -> Seq(Event)]
    BY <1>4, <2>2 DEF FanOut
  <2> QED
    BY <1>1, <1>4, <2>1, <2>2, <2>3 DEF FanOut, TypeOK
<1>5. ASSUME NEW c \in Clients,
             \/ Register(c) \/ Upgrade(c) \/ RefusedAfterClose(c) \/ CloseConn(c)
             \/ PingFails(c) \/ WriterEnds(c)
      PROVE  TypeOK'
  <2>1. UNCHANGED <<backlog, send, got, offered>>
    BY <1>5 DEF Register, Upgrade, RefusedAfterClose, CloseConn, PingFails, WriterEnds, hubVars
  <2>2. conn' \in [Clients -> {"none", "open", "closed"}]
    BY <1>5 DEF Register, Upgrade, RefusedAfterClose, CloseConn, PingFails, WriterEnds, Conn, TypeOK
  <2>3. writer' \in [Clients -> {"off", "on", "gone"}]
    BY <1>5 DEF Register, Upgrade, RefusedAfterClose, CloseConn, PingFails, WriterEnds, Writer, TypeOK
  <2> QED
    BY <1>1, <2>1, <2>2, <2>3 DEF TypeOK
<1>6. ASSUME NEW c \in Clients, WriteEvent(c) \/ WriteEventFails(c) PROVE TypeOK'
  <2>1. UNCHANGED <<backlog, offered>>
    BY <1>6 DEF WriteEvent, WriteEventFails, hubVars
  <2>2. /\ Head(send[c]) \in Event /\ Tail(send[c]) \in Seq(Event)
        /\ Len(Tail(send[c])) <= SendBuffer
        /\ Append(got[c], Head(send[c])) \in Seq(Event)
    BY <1>6 DEF WriteEvent, WriteEventFails, TypeOK
  <2>3. send' = [send EXCEPT ![c] = Tail(send[c])]
    BY <1>6 DEF WriteEvent, WriteEventFails
  <2>4. send' \in [Clients -> Seq(Event)] /\ \A d \in Clients : Len(send'[d]) <= SendBuffer
    BY <2>2, <2>3 DEF TypeOK
  <2>5. got' \in [Clients -> Seq(Event)]
    BY <1>6, <2>2 DEF WriteEvent, WriteEventFails, TypeOK
  <2>6. conn' \in [Clients -> {"none", "open", "closed"}] /\ writer' \in [Clients -> {"off", "on", "gone"}]
    BY <1>6 DEF WriteEvent, WriteEventFails, Conn, Writer, TypeOK
  <2> QED
    BY <1>1, <2>1, <2>4, <2>5, <2>6 DEF TypeOK
<1> QED
  BY <1>2, <1>3, <1>4, <1>5, <1>6 DEF Next, WritePump

LEMMA TypeNext == TypeOK /\ HubInv /\ [Next]_vars => TypeOK'
<1> SUFFICES ASSUME TypeOK, HubInv, [Next]_vars PROVE TypeOK'
  OBVIOUS
<1>1. CASE UNCHANGED vars
  BY <1>1 DEF vars, hubVars, clientVars, TypeOK
<1> QED
  BY <1>1, HubNext, TypeStep

LEMMA TypeInit == Init => TypeOK
<1> SUFFICES ASSUME Init PROVE TypeOK
  OBVIOUS
<1>1. <<>> \in Seq(Event) /\ Len(<<>>) = 0
  OBVIOUS
<1>2. send \in [Clients -> Seq(Event)] /\ \A c \in Clients : Len(send[c]) <= SendBuffer
  BY <1>1, HubAssumption DEF Init
<1>3. got \in [Clients -> Seq(Event)]
  BY <1>1 DEF Init
<1>4. backlog \in Seq(Event) /\ Len(backlog) <= Backlog /\ offered \in 0..MaxEvents
  BY <1>1, HubAssumption DEF Init
<1>5. /\ conn \in [Clients -> {"none", "open", "closed"}]
      /\ writer \in [Clients -> {"off", "on", "gone"}]
  BY DEF Init
<1> QED
  BY <1>2, <1>3, <1>4, <1>5, HubInit DEF HubInv, TypeOK

\* Buffers never hold more than their capacity, and a channel is closed at most
\* once.
THEOREM TypeCorrect == Spec => []TypeOK
BY TypeInit, TypeNext, HubInvariant, PTL DEF Spec

-----------------------------------------------------------------------------
(* Order *)

Before(s, t) == \A i \in 1..Len(s), k \in 1..Len(t) : s[i] < t[k]

\* s is t without some elements at its ends.
LEMMA TailKeepsOrder ==
    ASSUME NEW s \in Seq(Nat), s # <<>>
    PROVE  /\ Increasing(s) => Increasing(Tail(s))
           /\ \A t \in Seq(Nat) : Before(t, s) => Before(t, Tail(s))
           /\ \A t \in Seq(Nat) : Before(s, t) => Before(Tail(s), t)
<1>1. Len(s) > 0 /\ Len(s) \in Nat
  BY EmptySeq, LenProperties
<1>2. Len(Tail(s)) = Len(s) - 1 /\ \A i \in 1..Len(Tail(s)) : Tail(s)[i] = s[i + 1]
  BY <1>1
<1>3. \A i \in 1..Len(Tail(s)) : i + 1 \in 1..Len(s)
  BY <1>1, <1>2
<1>4. Increasing(s) => Increasing(Tail(s))
  <2> SUFFICES ASSUME Increasing(s), NEW i \in 1..Len(Tail(s)), NEW k \in 1..Len(Tail(s)), i < k
               PROVE  Tail(s)[i] < Tail(s)[k]
    BY DEF Increasing
  <2>1. i + 1 \in 1..Len(s) /\ k + 1 \in 1..Len(s) /\ i + 1 < k + 1
    BY <1>3
  <2>2. s[i + 1] < s[k + 1]
    BY <2>1 DEF Increasing
  <2> QED
    BY <1>2, <2>2
<1>5. ASSUME NEW t \in Seq(Nat), Before(t, s) PROVE Before(t, Tail(s))
  BY <1>2, <1>3, <1>5 DEF Before
<1>6. ASSUME NEW t \in Seq(Nat), Before(s, t) PROVE Before(Tail(s), t)
  BY <1>2, <1>3, <1>6 DEF Before
<1> QED
  BY <1>4, <1>5, <1>6

LEMMA AppendKeepsOrder ==
    ASSUME NEW s \in Seq(Nat), NEW e \in Nat
    PROVE  /\ Increasing(s) /\ Before(s, <<e>>) => Increasing(Append(s, e))
           /\ \A t \in Seq(Nat) : Before(t, s) /\ Before(t, <<e>>) => Before(t, Append(s, e))
           /\ \A t \in Seq(Nat) : Before(s, t) /\ Before(<<e>>, t) => Before(Append(s, e), t)
<1> DEFINE a == Append(s, e)
<1>1. Len(s) \in Nat /\ Len(a) = Len(s) + 1 /\ a[Len(s) + 1] = e
      /\ \A i \in 1..Len(s) : a[i] = s[i]
  BY AppendProperties, LenProperties
<1>2. Len(<<e>>) = 1 /\ <<e>>[1] = e
  OBVIOUS
<1>3. \A i \in 1..Len(a) : i \in 1..Len(s) \/ i = Len(s) + 1
  BY <1>1
<1> HIDE DEF a
<1>4. ASSUME Increasing(s), Before(s, <<e>>) PROVE Increasing(a)
  <2>1. \A i \in 1..Len(s) : s[i] < e
    BY <1>2, <1>4 DEF Before
  <2> SUFFICES ASSUME NEW i \in 1..Len(a), NEW k \in 1..Len(a), i < k PROVE a[i] < a[k]
    BY DEF Increasing
  <2>2. i \in 1..Len(s)
    BY <1>1
  <2>3. CASE k \in 1..Len(s)
    BY <1>1, <1>4, <2>2, <2>3 DEF Increasing
  <2>4. CASE k = Len(s) + 1
    BY <1>1, <2>1, <2>2, <2>4
  <2> QED
    BY <1>3, <2>3, <2>4
<1>5. ASSUME NEW t \in Seq(Nat), Before(t, s), Before(t, <<e>>) PROVE Before(t, a)
  <2>1. \A i \in 1..Len(t) : t[i] < e
    BY <1>2, <1>5 DEF Before
  <2> QED
    BY <1>1, <1>3, <1>5, <2>1 DEF Before
<1>6. ASSUME NEW t \in Seq(Nat), Before(s, t), Before(<<e>>, t) PROVE Before(a, t)
  <2>1. \A k \in 1..Len(t) : e < t[k]
    BY <1>2, <1>6 DEF Before
  <2> QED
    BY <1>1, <1>3, <1>6, <2>1 DEF Before
<1> QED
  BY <1>4, <1>5, <1>6 DEF a

LEMMA JoinedInOrder ==
    ASSUME NEW s \in Seq(Nat), NEW t \in Seq(Nat), Increasing(s), Increasing(t), Before(s, t)
    PROVE  Increasing(s \o t)
<1> DEFINE j == s \o t
<1>1. /\ Len(s) \in Nat /\ Len(t) \in Nat /\ Len(j) = Len(s) + Len(t)
      /\ \A i \in 1..Len(s) : j[i] = s[i]
      /\ \A i \in 1..Len(j) : i > Len(s) => i - Len(s) \in 1..Len(t) /\ j[i] = t[i - Len(s)]
  BY ConcatProperties, LenProperties
<1> HIDE DEF j
<1> SUFFICES ASSUME NEW i \in 1..Len(j), NEW k \in 1..Len(j), i < k PROVE j[i] < j[k]
  BY DEF Increasing, j
<1>2. CASE k <= Len(s)
  <2>1. i \in 1..Len(s) /\ k \in 1..Len(s)
    BY <1>1, <1>2
  <2> QED
    BY <1>1, <2>1 DEF Increasing
<1>3. CASE i <= Len(s) /\ k > Len(s)
  <2>1. i \in 1..Len(s) /\ k - Len(s) \in 1..Len(t)
    BY <1>1, <1>3
  <2>2. s[i] < t[k - Len(s)]
    BY <2>1 DEF Before
  <2> QED
    BY <1>1, <1>3, <2>1, <2>2
<1>4. CASE i > Len(s)
  <2>1. i - Len(s) \in 1..Len(t) /\ k - Len(s) \in 1..Len(t) /\ i - Len(s) < k - Len(s)
    BY <1>1, <1>4
  <2>2. t[i - Len(s)] < t[k - Len(s)]
    BY <2>1 DEF Increasing
  <2>3. j[i] = t[i - Len(s)]
    BY <1>1, <1>4
  <2>4. k > Len(s)
    BY <1>1, <1>4
  <2>5. j[k] = t[k - Len(s)]
    BY <1>1, <2>4
  <2> QED
    BY <2>2, <2>3, <2>5
<1> QED
  BY <1>1, <1>2, <1>3, <1>4

LEMMA BeforeJoined ==
    ASSUME NEW s \in Seq(Nat), NEW t \in Seq(Nat), NEW u \in Seq(Nat),
           Before(s, u), Before(t, u)
    PROVE  Before(s \o t, u)
<1> SUFFICES ASSUME NEW i \in 1..Len(s \o t), NEW k \in 1..Len(u) PROVE (s \o t)[i] < u[k]
  BY DEF Before
<1>1. /\ Len(s) \in Nat /\ Len(t) \in Nat /\ Len(s \o t) = Len(s) + Len(t)
      /\ (s \o t)[i] = IF i <= Len(s) THEN s[i] ELSE t[i - Len(s)]
  BY ConcatProperties, LenProperties
<1>2. IF i <= Len(s) THEN i \in 1..Len(s) ELSE i - Len(s) \in 1..Len(t)
  BY <1>1
<1> QED
  BY <1>1, <1>2 DEF Before


\* What is written, waiting and to be offered is in order, part by part, and not
\* beyond the last Broadcast.  A client that is not registered yet has nothing.
OrderOf(c) ==
    /\ Increasing(got[c]) /\ Increasing(send[c]) /\ Before(got[c], send[c])
    /\ c \in clients => Before(got[c], backlog) /\ Before(send[c], backlog)
    /\ \A i \in 1..Len(got[c]) : got[c][i] <= offered
    /\ \A i \in 1..Len(send[c]) : send[c][i] <= offered
    /\ reader[c] \in {"new", "register"} => got[c] = <<>> /\ send[c] = <<>>

OrderInv ==
    /\ Increasing(backlog)
    /\ \A i \in 1..Len(backlog) : backlog[i] <= offered
    /\ \A c \in Clients : OrderOf(c)

LEMMA OrderInit == Init => OrderInv
<1> SUFFICES ASSUME Init PROVE OrderInv
  OBVIOUS
<1>1. Len(<<>>) = 0
  OBVIOUS
<1>2. backlog = <<>> /\ clients = {} /\ offered = 0
      /\ \A c \in Clients : send[c] = <<>> /\ got[c] = <<>>
  BY DEF Init
<1> QED
  BY <1>1, <1>2 DEF OrderInv, OrderOf, Increasing, Before

\* Events are natural numbers, which is all that order needs.
LEMMA EventsAreNumbers ==
    ASSUME TypeOK
    PROVE  /\ backlog \in Seq(Nat) /\ offered \in Nat
           /\ \A i \in 1..Len(backlog) : backlog[i] \in Event
           /\ \A c \in Clients : send[c] \in Seq(Nat) /\ got[c] \in Seq(Nat)
<1>1. Event \subseteq Nat
  BY DEF Event
<1>2. \A s \in Seq(Event) : s \in Seq(Nat)
  BY <1>1, SeqMonotonic
<1>3. \A i \in 1..Len(backlog) : backlog[i] \in Event
  BY ElementOfSeq DEF TypeOK
<1> QED
  BY <1>2, <1>3, HubAssumption DEF TypeOK

\* One event of a queue is before a later one, and what comes before the queue is
\* before its head.
LEMMA HeadInOrder ==
    ASSUME NEW s \in Seq(Nat), s # <<>>, Increasing(s)
    PROVE  /\ Head(s) \in Nat /\ Head(s) = s[1] /\ 1 \in 1..Len(s)
           /\ Before(<<Head(s)>>, Tail(s))
           /\ \A t \in Seq(Nat) : Before(t, s) => Before(t, <<Head(s)>>)
<1>1. Len(s) > 0 /\ Len(s) \in Nat /\ 1 \in 1..Len(s)
  BY EmptySeq, LenProperties
<1>2. Head(s) = s[1] /\ s[1] \in Nat
  BY <1>1, ElementOfSeq
<1>3. Len(<<Head(s)>>) = 1 /\ <<Head(s)>>[1] = Head(s)
  OBVIOUS
<1>4. Len(Tail(s)) = Len(s) - 1 /\ \A i \in 1..Len(Tail(s)) : Tail(s)[i] = s[i + 1]
  BY <1>1
<1>5. \A i \in 1..Len(Tail(s)) : i + 1 \in 1..Len(s) /\ 1 < i + 1
  BY <1>1, <1>4
<1>6. Before(<<Head(s)>>, Tail(s))
  <2>1. ASSUME NEW k \in 1..Len(Tail(s)) PROVE s[1] < Tail(s)[k]
    BY <1>1, <1>4, <1>5 DEF Increasing
  <2> QED
    BY <1>2, <1>3, <2>1 DEF Before
<1>7. ASSUME NEW t \in Seq(Nat), Before(t, s) PROVE Before(t, <<Head(s)>>)
  BY <1>1, <1>2, <1>3, <1>7 DEF Before
<1> QED
  BY <1>1, <1>2, <1>6, <1>7

\* Steps that leave every queue alone; clients may leave the set.
LEMMA QuietStep ==
    ASSUME OrderInv, UNCHANGED <<backlog, send, got, offered>>,
           clients' \subseteq clients,
           \A c \in Clients : reader'[c] \in {"new", "register"} => reader[c] \in {"new", "register"}
    PROVE  OrderInv'
<1>1. ASSUME NEW c \in Clients PROVE OrderOf(c)'
  BY DEF OrderInv, OrderOf
<1> QED
  BY <1>1 DEF OrderInv

LEMMA BroadcastKeepsOrder == ASSUME TypeOK, OrderInv, Broadcast PROVE OrderInv'
<1>1. /\ backlog \in Seq(Nat) /\ offered \in Nat /\ offered' = offered + 1
      /\ \A c \in Clients : send[c] \in Seq(Nat) /\ got[c] \in Seq(Nat)
  BY EventsAreNumbers DEF Broadcast
<1>2. UNCHANGED <<clients, send, got, reader>>
  BY DEF Broadcast, clientVars
<1>3. CASE UNCHANGED backlog
  <2>1. \A i \in 1..Len(backlog) : backlog[i] \in Nat /\ backlog[i] <= offered
    BY EventsAreNumbers, HubAssumption DEF OrderInv, Event
  <2>2. ASSUME NEW c \in Clients PROVE OrderOf(c)'
    <3>1. \A i \in 1..Len(got[c]) : got[c][i] \in Nat
      BY <1>1, ElementOfSeq
    <3>2. \A i \in 1..Len(send[c]) : send[c][i] \in Nat
      BY <1>1, ElementOfSeq
    <3> QED
      BY <1>1, <1>2, <1>3, <3>1, <3>2 DEF OrderInv, OrderOf
  <2> QED
    BY <1>1, <1>3, <2>1, <2>2 DEF OrderInv
<1>4. CASE backlog' = Append(backlog, offered + 1)
  <2>1. Len(<<offered + 1>>) = 1 /\ <<offered + 1>>[1] = offered + 1
    OBVIOUS
  <2>2. \A i \in 1..Len(backlog) : backlog[i] \in Nat /\ backlog[i] <= offered
    BY EventsAreNumbers, HubAssumption DEF OrderInv, Event
  <2>3. Before(backlog, <<offered + 1>>)
    BY <1>1, <2>1, <2>2 DEF Before
  <2>4. Increasing(backlog')
    BY <1>1, <1>4, <2>3, AppendKeepsOrder DEF OrderInv
  <2>5. \A i \in 1..Len(backlog') : backlog'[i] <= offered'
    <3>1. Len(backlog') = Len(backlog) + 1 /\ backlog'[Len(backlog) + 1] = offered + 1
          /\ \A i \in 1..Len(backlog) : backlog'[i] = backlog[i]
      BY <1>1, <1>4, AppendProperties
    <3>2. Len(backlog) \in Nat
      BY <1>1, LenProperties
    <3> QED
      BY <1>1, <2>2, <3>1, <3>2
  <2>6. ASSUME NEW c \in Clients PROVE OrderOf(c)'
    <3>1. \A i \in 1..Len(got[c]) : got[c][i] \in Nat /\ got[c][i] <= offered
      BY <1>1, ElementOfSeq DEF OrderInv, OrderOf
    <3>2. \A i \in 1..Len(send[c]) : send[c][i] \in Nat /\ send[c][i] <= offered
      BY <1>1, ElementOfSeq DEF OrderInv, OrderOf
    <3>3. Before(got[c], <<offered + 1>>) /\ Before(send[c], <<offered + 1>>)
      <4>1. \A n \in Nat : n <= offered => n < offered + 1
        BY <1>1
      <4>2. \A k \in 1..Len(<<offered + 1>>) : <<offered + 1>>[k] = offered + 1
        BY <2>1
      <4> QED
        BY <3>1, <3>2, <4>1, <4>2 DEF Before
    <3>4. c \in clients => Before(got[c], backlog') /\ Before(send[c], backlog')
      BY <1>1, <1>4, <3>3, AppendKeepsOrder DEF OrderInv, OrderOf
    <3> QED
      BY <1>1, <1>2, <3>1, <3>2, <3>4 DEF OrderInv, OrderOf
  <2> QED
    BY <2>4, <2>5, <2>6 DEF OrderInv
<1> QED
  BY <1>3, <1>4 DEF Broadcast

LEMMA FanOutKeepsOrder == ASSUME TypeOK, HubInv, OrderInv, FanOut PROVE OrderInv'
<1> DEFINE e == Head(backlog)
<1>1. /\ backlog \in Seq(Nat) /\ offered \in Nat /\ backlog # <<>>
      /\ \A c \in Clients : send[c] \in Seq(Nat) /\ got[c] \in Seq(Nat)
  BY EventsAreNumbers DEF FanOut
<1>2. UNCHANGED <<clients, got, reader, offered>> /\ backlog' = Tail(backlog)
  BY DEF FanOut
<1>3. Increasing(backlog) /\ \A i \in 1..Len(backlog) : backlog[i] <= offered
  BY DEF OrderInv
<1>4. e \in Nat /\ e <= offered /\ Before(<<e>>, Tail(backlog))
  BY <1>1, <1>3, HeadInOrder
<1>5. Increasing(backlog')
  BY <1>1, <1>2, <1>3, TailKeepsOrder
<1>6. \A i \in 1..Len(backlog') : backlog'[i] <= offered'
  <2>1. Len(backlog) > 0 /\ Len(backlog) \in Nat
    BY <1>1, EmptySeq, LenProperties
  <2>2. Len(backlog') = Len(backlog) - 1 /\ \A i \in 1..Len(backlog') : backlog'[i] = backlog[i + 1]
    BY <1>1, <1>2, <2>1
  <2>3. \A i \in 1..Len(backlog') : i + 1 \in 1..Len(backlog)
    BY <2>1, <2>2
  <2> QED
    BY <1>2, <1>3, <2>2, <2>3
<1> HIDE DEF e
<1>7. ASSUME NEW c \in Clients PROVE OrderOf(c)'
  <2>1. OrderOf(c)
    BY DEF OrderInv
  <2>2. send'[c] = send[c] \/ (c \in clients /\ send'[c] = Append(send[c], e))
    BY DEF FanOut, e
  <2>3. c \in clients => Before(got[c], backlog') /\ Before(send[c], backlog')
    BY <1>1, <1>2, <2>1, TailKeepsOrder DEF OrderOf
  <2>4. CASE send'[c] = send[c]
    BY <1>2, <2>1, <2>3, <2>4 DEF OrderOf
  <2>5. CASE c \in clients /\ send'[c] = Append(send[c], e)
    <3>1. Before(got[c], <<e>>) /\ Before(send[c], <<e>>)
      BY <1>1, <1>3, <2>1, <2>5, HeadInOrder DEF OrderOf, e
    <3>2. Increasing(send'[c]) /\ Before(got[c], send'[c]) /\ Before(send'[c], backlog')
      <4>1. Tail(backlog) \in Seq(Nat)
        BY <1>1
      <4>2. /\ Increasing(send[c]) => Increasing(Append(send[c], e))
            /\ Before(got[c], send[c]) => Before(got[c], Append(send[c], e))
            /\ Before(send[c], Tail(backlog)) => Before(Append(send[c], e), Tail(backlog))
        BY <1>1, <1>4, <3>1, <4>1, AppendKeepsOrder
      <4> QED
        BY <1>2, <2>1, <2>3, <2>5, <4>2 DEF OrderOf
    <3>3. \A i \in 1..Len(send'[c]) : send'[c][i] <= offered
      <4>1. Len(send'[c]) = Len(send[c]) + 1 /\ send'[c][Len(send[c]) + 1] = e
            /\ \A i \in 1..Len(send[c]) : send'[c][i] = send[c][i]
        BY <1>1, <1>4, <2>5, AppendProperties
      <4>2. Len(send[c]) \in Nat
        BY <1>1, LenProperties
      <4>3. \A i \in 1..Len(send[c]) : send[c][i] <= offered
        BY <2>1 DEF OrderOf
      <4>4. \A i \in 1..Len(send'[c]) : i \in 1..Len(send[c]) \/ i = Len(send[c]) + 1
        BY <4>1, <4>2
      <4> QED
        BY <1>4, <4>1, <4>3, <4>4
    <3>4. reader[c] \notin {"new", "register"}
      BY <2>5 DEF HubInv, Membership
    <3> QED
      BY <1>2, <2>1, <2>3, <3>2, <3>3, <3>4 DEF OrderOf
  <2> QED
    BY <2>2, <2>4, <2>5
<1> QED
  BY <1>5, <1>6, <1>7 DEF OrderInv

\* A client joins with nothing sent and nothing waiting.
LEMMA RegisterKeepsOrder ==
    ASSUME HubInv, OrderInv, NEW c \in Clients, Register(c) PROVE OrderInv'
<1>1. UNCHANGED <<backlog, send, got, offered>> /\ clients' = clients \cup {c}
  BY DEF Register
<1>2. reader[c] = "register" /\ reader' = [reader EXCEPT ![c] = "read"]
      /\ reader \in [Clients -> {"new", "register", "read", "unregister", "close", "gone"}]
  BY DEF Register, Reader, HubInv
<1>3. got[c] = <<>> /\ send[c] = <<>> /\ Len(<<>>) = 0
  BY <1>2 DEF OrderInv, OrderOf
<1>4. Before(got[c], backlog) /\ Before(send[c], backlog)
  BY <1>3 DEF Before
<1>5. ASSUME NEW d \in Clients PROVE OrderOf(d)'
  <2>1. OrderOf(d)
    BY DEF OrderInv
  <2>2. reader'[d] \in {"new", "register"} => reader[d] \in {"new", "register"}
    BY <1>2
  <2> QED
    BY <1>1, <1>4, <2>1, <2>2 DEF OrderOf
<1> QED
  BY <1>1, <1>5 DEF OrderInv

\* The write pump takes the head of its buffer, and writes it or drops it.
LEMMA WriteKeepsOrder ==
    ASSUME TypeOK, HubInv, OrderInv, NEW c \in Clients, WriteEvent(c) \/ WriteEventFails(c)
    PROVE  OrderInv'
<1> DEFINE e == Head(send[c])
<1>1. /\ backlog \in Seq(Nat) /\ \A d \in Clients : send[d] \in Seq(Nat) /\ got[d] \in Seq(Nat)
      /\ send \in [Clients -> Seq(Event)] /\ got \in [Clients -> Seq(Event)]
  BY EventsAreNumbers DEF TypeOK
<1>2. /\ UNCHANGED <<backlog, clients, offered, reader>> /\ send[c] # <<>>
      /\ send' = [send EXCEPT ![c] = Tail(send[c])]
      /\ got' = got \/ got' = [got EXCEPT ![c] = Append(got[c], e)]
  BY DEF WriteEvent, WriteEventFails, hubVars
<1>3. OrderOf(c)
  BY DEF OrderInv
<1>4. e \in Nat /\ e <= offered /\ Before(<<e>>, Tail(send[c])) /\ Before(got[c], <<e>>)
      /\ (c \in clients => Before(<<e>>, backlog))
  <2>1. 1 \in 1..Len(send[c]) /\ e = send[c][1] /\ e \in Nat
        /\ Before(<<e>>, Tail(send[c])) /\ Before(got[c], <<e>>)
    BY <1>1, <1>2, <1>3, HeadInOrder DEF OrderOf
  <2>2. e <= offered
    BY <1>3, <2>1 DEF OrderOf
  <2>3. Len(<<e>>) = 1 /\ <<e>>[1] = e
    OBVIOUS
  <2>4. c \in clients => Before(<<e>>, backlog)
    BY <1>3, <2>1, <2>3 DEF OrderOf, Before
  <2> QED
    BY <2>1, <2>2, <2>4
<1> HIDE DEF e
<1>5. send'[c] = Tail(send[c]) /\ (got'[c] = got[c] \/ got'[c] = Append(got[c], e))
  BY <1>1, <1>2
<1>6. Tail(send[c]) \in Seq(Nat)
  BY <1>1, <1>2
<1>7. Increasing(send'[c]) /\ Before(got[c], send'[c])
      /\ (c \in clients => Before(send'[c], backlog))
  BY <1>1, <1>2, <1>3, <1>5, TailKeepsOrder DEF OrderOf
<1>8. \A i \in 1..Len(send'[c]) : send'[c][i] <= offered
  <2>1. Len(send[c]) > 0 /\ Len(send[c]) \in Nat
    BY <1>1, <1>2, EmptySeq, LenProperties
  <2>2. Len(send'[c]) = Len(send[c]) - 1 /\ \A i \in 1..Len(send'[c]) : send'[c][i] = send[c][i + 1]
    BY <1>1, <1>5, <2>1
  <2>3. \A i \in 1..Len(send'[c]) : i + 1 \in 1..Len(send[c])
    BY <2>1, <2>2
  <2> QED
    BY <1>3, <2>2, <2>3 DEF OrderOf
<1>9. reader[c] \notin {"new", "register"}
  BY <1>2, <1>3 DEF OrderOf
<1>10. OrderOf(c)'
  <2>1. CASE got'[c] = got[c]
    BY <1>2, <1>3, <1>7, <1>8, <1>9, <2>1 DEF OrderOf
  <2>2. CASE got'[c] = Append(got[c], e)
    <3>1. /\ Increasing(Append(got[c], e))
          /\ Before(Append(got[c], e), Tail(send[c]))
          /\ c \in clients => Before(Append(got[c], e), backlog)
      <4>1. Increasing(got[c]) /\ Before(got[c], Tail(send[c]))
            /\ (c \in clients => Before(got[c], backlog))
        BY <1>3, <1>5, <1>7 DEF OrderOf
      <4> QED
        BY <1>1, <1>4, <1>6, <4>1, AppendKeepsOrder
    <3>2. \A i \in 1..Len(got'[c]) : got'[c][i] <= offered
      <4>1. Len(got'[c]) = Len(got[c]) + 1 /\ got'[c][Len(got[c]) + 1] = e
            /\ \A i \in 1..Len(got[c]) : got'[c][i] = got[c][i]
        BY <1>1, <1>4, <2>2, AppendProperties
      <4>2. Len(got[c]) \in Nat
        BY <1>1, LenProperties
      <4>3. \A i \in 1..Len(got'[c]) : i \in 1..Len(got[c]) \/ i = Len(got[c]) + 1
        BY <4>1, <4>2
      <4>4. \A i \in 1..Len(got[c]) : got[c][i] <= offered
        BY <1>3 DEF OrderOf
      <4>5. e <= offered
        BY <1>4
      <4> QED
        BY <4>1, <4>3, <4>4, <4>5
    <3> QED
      BY <1>2, <1>5, <1>7, <1>8, <1>9, <2>2, <3>1, <3>2 DEF OrderOf
  <2> QED
    BY <1>5, <2>1, <2>2
<1>11. ASSUME NEW d \in Clients, d # c PROVE OrderOf(d)'
  <2>1. send'[d] = send[d] /\ got'[d] = got[d] /\ OrderOf(d)
    BY <1>1, <1>2, <1>11 DEF OrderInv
  <2> QED
    BY <1>2, <2>1 DEF OrderOf
<1> QED
  BY <1>2, <1>10, <1>11 DEF OrderInv

LEMMA OrderNext == TypeOK /\ HubInv /\ OrderInv /\ [Next]_vars => OrderInv'
<1> SUFFICES ASSUME TypeOK, HubInv, OrderInv, [Next]_vars PROVE OrderInv'
  OBVIOUS
<1>1. CASE UNCHANGED vars
  BY <1>1, QuietStep DEF vars, hubVars, clientVars
<1>2. CASE Broadcast \/ FanOut
  BY <1>2, BroadcastKeepsOrder, FanOutKeepsOrder
<1>3. CASE Close \/ RunStops
  BY <1>3, QuietStep DEF Close, RunStops, clientVars
<1>4. ASSUME NEW c \in Clients, Register(c) PROVE OrderInv'
  BY <1>4, RegisterKeepsOrder
<1>5. ASSUME NEW c \in Clients, WriteEvent(c) \/ WriteEventFails(c) PROVE OrderInv'
  BY <1>5, WriteKeepsOrder
<1>6. ASSUME NEW c \in Clients, PingFails(c) \/ WriterEnds(c) PROVE OrderInv'
  BY <1>6, QuietStep DEF PingFails, WriterEnds, hubVars
<1>7. ASSUME NEW c \in Clients,
             \/ Unregister(c) \/ Upgrade(c) \/ RefusedAfterClose(c) \/ ReadFails(c)
             \/ SkipUnregister(c) \/ CloseConn(c)
      PROVE  OrderInv'
  <2>1. UNCHANGED <<backlog, send, got, offered>> /\ clients' \subseteq clients
    BY <1>7 DEF Unregister, Upgrade, RefusedAfterClose, ReadFails, SkipUnregister, CloseConn, hubVars
  <2>2. reader \in [Clients -> {"new", "register", "read", "unregister", "close", "gone"}]
    BY DEF HubInv
  <2>3. \A d \in Clients : reader'[d] \in {"new", "register"} => reader[d] \in {"new", "register"}
    BY <1>7, <2>2 DEF Unregister, Upgrade, RefusedAfterClose, ReadFails, SkipUnregister,
                      CloseConn, Reader
  <2> QED
    BY <2>1, <2>3, QuietStep
<1> QED
  BY <1>1, <1>2, <1>3, <1>4, <1>5, <1>6, <1>7 DEF Next, WritePump

\* Drops leave gaps and never put an older status after a newer one, for any
\* number of clients and events and any capacities.
THEOREM OrderKept == Spec => []DeliveredInOrder
<1>1. TypeOK /\ OrderInv => DeliveredInOrder
  <2> SUFFICES ASSUME TypeOK, OrderInv, NEW c \in Clients
               PROVE  Increasing(got[c] \o send[c] \o (IF c \in clients THEN backlog ELSE <<>>))
    BY DEF DeliveredInOrder
  <2>1. got[c] \in Seq(Nat) /\ send[c] \in Seq(Nat) /\ backlog \in Seq(Nat) /\ OrderOf(c)
        /\ Increasing(backlog)
    BY EventsAreNumbers DEF OrderInv
  <2>2. Increasing(got[c] \o send[c])
    BY <2>1, JoinedInOrder DEF OrderOf
  <2>3. got[c] \o send[c] \in Seq(Nat)
    BY <2>1
  <2>4. CASE c \in clients
    <3>1. Before(got[c] \o send[c], backlog)
      BY <2>1, <2>4, BeforeJoined DEF OrderOf
    <3> QED
      BY <2>1, <2>2, <2>3, <2>4, <3>1, JoinedInOrder
  <2>5. CASE c \notin clients
    <3>1. <<>> \in Seq(Nat) /\ Len(<<>>) = 0
      OBVIOUS
    <3>2. Increasing(<<>>) /\ Before(got[c] \o send[c], <<>>)
      BY <3>1 DEF Increasing, Before
    <3> QED
      BY <2>2, <2>3, <2>5, <3>1, <3>2, JoinedInOrder
  <2> QED
    BY <2>4, <2>5
<1> QED
  BY <1>1, OrderInit, OrderNext, TypeCorrect, HubInvariant, PTL DEF Spec

-----------------------------------------------------------------------------
(* The pumps and the connection *)

\* A connection is opened by the upgrade, before either pump, and a pump that
\* ends closes it.
LinkOf(c) ==
    /\ reader[c] = "new" => conn[c] = "none"
    /\ reader[c] \in {"register", "read", "unregister", "close"} => conn[c] \in {"open", "closed"}
    /\ reader[c] \in {"new", "register"} => writer[c] = "off"
    /\ writer[c] = "on" => conn[c] # "none" /\ (c \in clients \/ closes[c] = 1)
    /\ reader[c] = "gone" \/ writer[c] = "gone" => conn[c] # "open"

LinkInv == \A c \in Clients : LinkOf(c)

LEMMA LinkNext ==
    ASSUME TypeOK, HubInv, LinkInv, [Next]_vars PROVE LinkInv'
<1>1. /\ reader \in [Clients -> {"new", "register", "read", "unregister", "close", "gone"}]
      /\ writer \in [Clients -> {"off", "on", "gone"}]
      /\ conn \in [Clients -> {"none", "open", "closed"}]
      /\ closes \in [Clients -> 0..1]
  BY DEF TypeOK
<1>2. ASSUME NEW c \in Clients, UNCHANGED <<reader[c], writer[c], conn[c], closes[c]>>,
             c \in clients => c \in clients'
      PROVE  LinkOf(c)'
  BY <1>2 DEF LinkInv, LinkOf
<1>3. ASSUME NEW d \in Clients, NEW c \in Clients,
             Upgrade(d) \/ RefusedAfterClose(d) \/ ReadFails(d) \/ SkipUnregister(d) \/ CloseConn(d)
      PROVE  LinkOf(c)'
  <2>1. UNCHANGED <<writer, closes, clients>>
    BY <1>3 DEF Upgrade, RefusedAfterClose, ReadFails, SkipUnregister, CloseConn, hubVars
  <2>2. CASE c # d
    BY <1>1, <1>2, <1>3, <2>1, <2>2 DEF Upgrade, RefusedAfterClose, ReadFails, SkipUnregister,
       CloseConn, Reader, Conn
  <2>3. CASE c = d
    BY <1>1, <1>3, <2>1, <2>3 DEF Upgrade, RefusedAfterClose, ReadFails, SkipUnregister,
       CloseConn, Reader, Conn, LinkInv, LinkOf
  <2> QED
    BY <2>2, <2>3
<1>4. ASSUME NEW d \in Clients, NEW c \in Clients, WritePump(d) \/ PingFails(d)
      PROVE  LinkOf(c)'
  <2>1. UNCHANGED <<reader, closes, clients>>
    BY <1>4 DEF WritePump, WriteEvent, WriteEventFails, WriterEnds, PingFails, hubVars
  <2>2. CASE c # d
    BY <1>1, <1>2, <1>4, <2>1, <2>2 DEF WritePump, WriteEvent, WriteEventFails, WriterEnds,
       PingFails, Writer, Conn
  <2>3. CASE c = d
    BY <1>1, <1>4, <2>1, <2>3 DEF WritePump, WriteEvent, WriteEventFails, WriterEnds,
       PingFails, Writer, Conn, LinkInv, LinkOf
  <2> QED
    BY <2>2, <2>3
<1>5. ASSUME NEW d \in Clients, NEW c \in Clients, Register(d) PROVE LinkOf(c)'
  <2>1. CASE c # d
    BY <1>1, <1>2, <1>5, <2>1 DEF Register, Reader, Writer
  <2>2. CASE c = d
    BY <1>1, <1>5, <2>2 DEF Register, Reader, Writer, LinkInv, LinkOf
  <2> QED
    BY <2>1, <2>2
<1>6. ASSUME NEW d \in Clients, NEW c \in Clients, Unregister(d) PROVE LinkOf(c)'
  <2>1. CASE c # d
    BY <1>1, <1>2, <1>6, <2>1 DEF Unregister, Reader
  <2>2. CASE c = d
    <3>1. c \in clients => closes'[c] = 1
      BY <1>1, <1>6, <2>2 DEF Unregister, HubInv, Membership
    <3>2. c \notin clients => closes'[c] = closes[c]
      BY <1>6, <2>2 DEF Unregister
    <3> QED
      BY <1>1, <1>6, <2>2, <3>1, <3>2 DEF Unregister, Reader, LinkInv, LinkOf
  <2> QED
    BY <2>1, <2>2
<1>7. ASSUME NEW c \in Clients, RunStops PROVE LinkOf(c)'
  <2>1. c \in clients => closes'[c] = 1
    BY <1>1, <1>7 DEF RunStops, HubInv, Membership
  <2>2. c \notin clients => closes'[c] = closes[c]
    BY <1>7 DEF RunStops
  <2> QED
    BY <1>7, <2>1, <2>2 DEF RunStops, LinkInv, LinkOf
<1>8. ASSUME NEW c \in Clients, Broadcast \/ Close \/ FanOut \/ UNCHANGED vars
      PROVE  LinkOf(c)'
  BY <1>2, <1>8 DEF Broadcast, Close, FanOut, vars, hubVars, clientVars
<1> QED
  BY <1>3, <1>4, <1>5, <1>6, <1>7, <1>8 DEF Next, LinkInv

LEMMA LinkInit == ASSUME Init PROVE LinkInv
BY DEF Init, LinkInv, LinkOf

\* No pump is left without somebody to end it, and no connection stays open with
\* one of its pumps gone, for any number of clients.
THEOREM NobodyLeftBehind == Spec => []NobodyStranded
<1>1. TypeOK /\ LinkInv => NobodyStranded
  BY DEF LinkInv, LinkOf, NobodyStranded
<1> QED
  BY <1>1, LinkInit, LinkNext, TypeCorrect, HubInvariant, PTL DEF Spec

-----------------------------------------------------------------------------
(* The hub is a feed *)

\* What a write pump sends is published and newer than all it has sent.
LEMMA SentIsNew ==
    ASSUME TypeOK, OrderInv, NEW c \in Clients, WriteEvent(c)
    PROVE  \E e \in 1..offered : Feed!See(c, e)
<1>1. /\ send[c] \in Seq(Nat) /\ got[c] \in Seq(Nat) /\ send[c] # <<>> /\ offered \in Nat
      /\ OrderOf(c) /\ send[c] \in Seq(Event)
  BY EventsAreNumbers DEF WriteEvent, OrderInv, TypeOK
<1>2. PICK e : e = Head(send[c])
  OBVIOUS
<1>3. /\ e \in Nat /\ e = send[c][1] /\ 1 \in 1..Len(send[c])
      /\ Before(got[c], <<e>>)
  BY <1>1, <1>2, HeadInOrder DEF OrderOf
<1>4. e \in Event /\ e <= offered
  BY <1>1, <1>3, ElementOfSeq DEF OrderOf
<1>5. e \in 1..offered
  BY <1>1, <1>3, <1>4 DEF Event
<1>6. Len(<<e>>) = 1 /\ <<e>>[1] = e
  OBVIOUS
<1>7. \A i \in 1..Len(got[c]) : got[c][i] < e
  BY <1>3, <1>6 DEF Before
<1> QED
  BY <1>2, <1>5, <1>7 DEF WriteEvent, Feed!See, hubVars

LEMMA FeedSimulated ==
    ASSUME TypeOK, OrderInv, LinkInv, [Next]_vars
    PROVE  [Feed!Next]_(Feed!vars)
<1>1. conn \in [Clients -> {"none", "open", "closed"}]
  BY DEF TypeOK
<1>2. CASE Broadcast
  BY <1>2 DEF Broadcast, clientVars, Feed!Next, Feed!Publish
<1>3. ASSUME NEW c \in Clients, UNCHANGED <<offered, got>>, conn[c] # "none",
             conn' = [conn EXCEPT ![c] = "closed"]
      PROVE  [Feed!Next]_(Feed!vars)
  <2>1. CASE conn[c] = "open"
    <3>1. Feed!End(c)
      BY <1>3, <2>1 DEF Feed!End
    <3> QED
      BY <3>1 DEF Feed!Next
  <2>2. CASE conn[c] = "closed"
    <3>1. conn' = conn
      BY <1>1, <1>3, <2>2
    <3> QED
      BY <1>3, <3>1 DEF Feed!vars
  <2> QED
    BY <1>1, <1>3, <2>1, <2>2
<1>4. ASSUME NEW c \in Clients, RefusedAfterClose(c) \/ CloseConn(c)
      PROVE  [Feed!Next]_(Feed!vars)
  BY <1>3, <1>4 DEF RefusedAfterClose, CloseConn, Conn, hubVars, LinkInv, LinkOf
<1>5. ASSUME NEW c \in Clients, WriteEventFails(c) \/ PingFails(c) \/ WriterEnds(c)
      PROVE  [Feed!Next]_(Feed!vars)
  BY <1>3, <1>5 DEF WriteEventFails, PingFails, WriterEnds, Conn, hubVars, LinkInv, LinkOf
<1>6. ASSUME NEW c \in Clients, Upgrade(c) PROVE [Feed!Next]_(Feed!vars)
  <2>1. conn[c] = "none" /\ UNCHANGED <<offered, got>>
    BY <1>6 DEF Upgrade, hubVars, LinkInv, LinkOf
  <2>2. CASE Conn(c, "open")
    BY <2>1, <2>2 DEF Conn, Feed!Next, Feed!Open
  <2>3. CASE UNCHANGED conn
    BY <2>1, <2>3 DEF Feed!vars
  <2> QED
    BY <1>6, <2>2, <2>3 DEF Upgrade
<1>7. ASSUME NEW c \in Clients, WriteEvent(c) PROVE [Feed!Next]_(Feed!vars)
  BY <1>7, SentIsNew DEF Feed!Next
<1>8. CASE UNCHANGED <<offered, conn, got>>
  BY <1>8 DEF Feed!vars
<1>9. \/ Broadcast \/ UNCHANGED <<offered, conn, got>>
      \/ \E c \in Clients : \/ RefusedAfterClose(c) \/ CloseConn(c) \/ Upgrade(c)
                            \/ WriteEvent(c) \/ WriteEventFails(c) \/ PingFails(c) \/ WriterEnds(c)
  BY DEF Next, WritePump, vars, hubVars, clientVars, Close, FanOut, RunStops, Register, Unregister,
         ReadFails, SkipUnregister
<1> QED
  BY <1>2, <1>4, <1>5, <1>6, <1>7, <1>8, <1>9

\* The hub implements the feed: whatever is dropped, closed or forgotten, a page
\* sees events in order, each once, and only while it is connected.
THEOREM FeedImplemented == Spec => ImplementsFeed
<1>1. Init => Feed!Init
  BY DEF Init, Feed!Init
<1>2. Spec => [](TypeOK /\ HubInv /\ OrderInv /\ LinkInv)
  BY OrderInit, OrderNext, LinkInit, LinkNext, TypeCorrect, HubInvariant, PTL DEF Spec
<1>3. TypeOK /\ OrderInv /\ LinkInv /\ [Next]_vars => [Feed!Next]_(Feed!vars)
  BY FeedSimulated
<1> QED
  BY <1>1, <1>2, <1>3, PTL DEF Spec, ImplementsFeed, Feed!Spec

=============================================================================
