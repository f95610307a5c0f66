------------------------------ MODULE Ownership ------------------------------
(* What the watchlist store promises about the owners of places                *)
(* (internal/watchlist/store.go, handler.go), without objects, index updates,   *)
(* locks or a manager: a request claims places that are free or its own, and    *)
(* when it settles, nobody loses a place to it, except where two apps claimed   *)
(* the place side by side.  An app gives up what its new spec leaves out.       *)
EXTENDS Naturals

CONSTANTS
    Apps,           \* the names of apps
    Places,         \* pairs of a cluster and a namespace
    Handlers,       \* HTTP requests in flight at the same time
    Absent          \* no owner; {Absent} is the spec of an app that is not registered

Unregistered == {Absent}
Values == (SUBSET Places) \cup {Unregistered}
NoClaim == [app |-> Absent, value |-> Unregistered]
Claims == [app : Apps, value : Values]

VARIABLES
    owner,          \* [Places -> the app found for it, or Absent]
    spec,           \* [Apps -> the places of the app, or Unregistered]
    claim,          \* [Handlers -> what the request is about to register]
    contested       \* the places two apps have claimed side by side

ownershipVars == <<owner, spec, claim, contested>>

Lists(value, p) == p \in value /\ p # Absent
OwnersOf(p) == {a \in Apps : Lists(spec[a], p)}

Init ==
    /\ owner = [p \in Places |-> Absent]
    /\ spec = [a \in Apps |-> Unregistered]
    /\ claim = [h \in Handlers |-> NoClaim]
    /\ contested = {}

\* A request passes the check; what it claims is Unregistered for a DELETE.
Claim(h) ==
    LET c == claim'[h]
    IN  /\ claim[h] = NoClaim
        /\ c \in Claims
        /\ claim' = [claim EXCEPT ![h] = c]
        /\ \A p \in Places : Lists(c.value, p) => owner[p] \in {Absent, c.app}
        /\ contested' = contested \cup
             {p \in Places : /\ Lists(c.value, p)
                             /\ \E g \in Handlers \ {h} :
                                   Lists(claim[g].value, p) /\ claim[g].app # c.app}
        /\ UNCHANGED <<owner, spec>>

\* A claim is honoured: only a contested place is taken from another app.
Settle(h) ==
    LET a == claim[h].app
        value == claim[h].value
    IN  /\ claim[h] # NoClaim
        /\ \A p \in Places \ contested : Lists(value, p) => owner[p] \in {Absent, a}
        /\ spec' = [spec EXCEPT ![a] = value]
        /\ owner' = [p \in Places |->
                       IF Lists(value, p) THEN a
                       ELSE IF owner[p] = a THEN Absent ELSE owner[p]]
        /\ claim' = [claim EXCEPT ![h] = NoClaim]
        /\ UNCHANGED contested

\* The request failed, or its client is gone.
Withdraw(h) ==
    /\ claim' = [claim EXCEPT ![h] = NoClaim]
    /\ UNCHANGED <<owner, spec, contested>>

\* After a restart every place belongs to an app that lists it, if any does.
Reload ==
    /\ claim' = [h \in Handlers |-> NoClaim]
    /\ spec' \in [Apps -> Values]
    /\ owner' \in [Places -> Apps \cup {Absent}]
    /\ \A p \in Places : IF OwnersOf(p)' = {} THEN owner'[p] = Absent
                                              ELSE owner'[p] \in OwnersOf(p)'
    /\ contested' = {p \in Places : \E a, b \in OwnersOf(p)' : a # b}

Next ==
    \/ \E h \in Handlers : Claim(h) \/ Settle(h) \/ Withdraw(h)
    \/ Reload

Spec == Init /\ [][Next]_ownershipVars
==============================================================================
