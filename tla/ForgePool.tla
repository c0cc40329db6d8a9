----------------------------- MODULE ForgePool -----------------------------
(***************************************************************************)
(* What the leaf forge queue promises its callers, whatever the event loop *)
(* does in between: one request per name at a time, at most Limit of them  *)
(* served at once, first come first served, and an answer for everybody.   *)
(***************************************************************************)
EXTENDS Naturals, Sequences, FiniteSets

CONSTANTS
    Names,       \* names to forge a leaf for
    Callers,     \* each asks once
    Limit        \* requests served at once

VARIABLES
    requests,    \* the requests so far, in the order they came: name and stage
    holds        \* caller -> the request whose answer it waits for, or 0

vars == <<requests, holds>>

InStage(s) == {r \in DOMAIN requests : requests[r].stage = s}
Open(n) == {r \in DOMAIN requests : requests[r].name = n /\ requests[r].stage # "answered"}
Oldest(r) == r \in InStage("queued") /\ \A q \in InStage("queued") : r <= q

Init == requests = <<>> /\ holds = [c \in Callers |-> 0]

\* A caller joins the request of its name that is open ...
Join(c, n) ==
    /\ holds[c] = 0
    /\ \E r \in Open(n) : holds' = [holds EXCEPT ![c] = r]
    /\ UNCHANGED requests

\* ... or makes one, which is served at once when a slot is free.
Request(c, n) ==
    /\ holds[c] = 0 /\ Open(n) = {}
    /\ \/ /\ Cardinality(InStage("served")) < Limit
          /\ requests' = Append(requests, [name |-> n, stage |-> "served"])
       \/ /\ Cardinality(InStage("served")) >= Limit
          /\ requests' = Append(requests, [name |-> n, stage |-> "queued"])
    /\ holds' = [holds EXCEPT ![c] = Len(requests) + 1]

\* A request that was served hands its slot to the oldest that is queued.
End(r) ==
    /\ r \in InStage("served")
    /\ \/ /\ InStage("queued") = {}
          /\ requests' = [requests EXCEPT ![r].stage = "ended"]
       \/ \E q \in InStage("queued") :
             /\ Oldest(q)
             /\ requests' = [requests EXCEPT ![r].stage = "ended", ![q].stage = "served"]
    /\ UNCHANGED holds

Answer(r) ==
    /\ r \in InStage("ended")
    /\ requests' = [requests EXCEPT ![r].stage = "answered"]
    /\ UNCHANGED holds

Next ==
    \/ \E c \in Callers, n \in Names : Join(c, n) \/ Request(c, n)
    \/ \E r \in DOMAIN requests : End(r) \/ Answer(r)

Spec == Init /\ [][Next]_vars

FairSpec ==
    /\ Spec
    /\ WF_vars(\E r \in DOMAIN requests : End(r))
    /\ WF_vars(\E r \in DOMAIN requests : Answer(r))

=============================================================================
