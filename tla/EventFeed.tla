------------------------------ MODULE EventFeed ------------------------------
(***************************************************************************)
(* What the websocket promises a page, and nothing of how: "push is a      *)
(* hint, never the truth".  While its connection is open a page is sent    *)
(* some of the events that were published, each at most once and none      *)
(* after a newer one; nothing is sent before it connects or after the end, *)
(* and a connection that ended does not come back.  Hub, which has the     *)
(* goroutines, the buffers and the channels, is shown to implement this.   *)
(***************************************************************************)
EXTENDS Naturals, Sequences

CONSTANTS Clients,    \* websocket connections
          MaxEvents   \* bound: how many events are published

VARIABLES published,  \* number of events so far
          link,       \* the connection of each client
          seen        \* the events it was sent

vars == <<published, link, seen>>

Init ==
    /\ published = 0
    /\ link = [c \in Clients |-> "none"]
    /\ seen = [c \in Clients |-> <<>>]

Publish ==
    /\ published < MaxEvents
    /\ published' = published + 1
    /\ UNCHANGED <<link, seen>>

Open(c) ==
    /\ link[c] = "none"
    /\ link' = [link EXCEPT ![c] = "open"]
    /\ UNCHANGED <<published, seen>>

\* Any event the page has not been sent yet, and no older one than the last.
See(c, e) ==
    /\ link[c] = "open"
    /\ \A i \in 1..Len(seen[c]) : seen[c][i] < e
    /\ seen' = [seen EXCEPT ![c] = Append(@, e)]
    /\ UNCHANGED <<published, link>>

End(c) ==
    /\ link[c] = "open"
    /\ link' = [link EXCEPT ![c] = "closed"]
    /\ UNCHANGED <<published, seen>>

Next ==
    \/ Publish
    \/ \E c \in Clients : Open(c) \/ End(c) \/ \E e \in 1..published : See(c, e)

Spec == Init /\ [][Next]_vars

=============================================================================
