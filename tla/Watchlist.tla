------------------------------ MODULE Watchlist ------------------------------
(* The watchlist API (internal/watchlist/store.go, handler.go): concurrent PUT *)
(* and DELETE requests, the AppWatchConfig objects in the API server, the index *)
(* in memory from which events get their owner, the trigger that wakes the      *)
(* manager, and restarts, after which the memory is loaded from the objects.    *)
(* A spec is the set of places (cluster and namespace) an app registers.        *)
EXTENDS Naturals, FiniteSets

CONSTANTS
    Apps,           \* the names of apps
    NameOf,         \* sanitizeName: the name of an app's object
    Places,         \* pairs of a cluster and a namespace
    ClusterOf,      \* the cluster of a place
    Handlers,       \* HTTP requests in flight at the same time
    Absent,         \* no entry, no object
    MaxRequests,    \* bound: requests
    MaxLost,        \* bound: writes whose reply is lost
    MaxRestarts     \* bound: restarts of the monitor

Names == {NameOf[a] : a \in Apps}
Clusters == {ClusterOf[p] : p \in Places}

ASSUME WatchlistAssumption ==
    /\ NameOf \in [Apps -> Apps]
    /\ \A a \in Apps : NameOf[NameOf[a]] = NameOf[a]
    /\ DOMAIN ClusterOf = Places
    /\ Absent \notin Apps \cup Places
    /\ {MaxRequests, MaxLost, MaxRestarts} \subseteq Nat

VARIABLES
    index,          \* Store.index: the app that owns a place
    apps,           \* Store.apps: the spec of an app
    crd,            \* the objects in the API server, by name
    req,            \* what each request does, and how far it is
    token,          \* the length of the trigger channel, whose capacity is 1
    manager,        \* the reconcile loop: "booting", "waiting" or "woken"
    ensured,        \* the clusters of its last look at DesiredClusters
    contested,      \* history: places that two apps claimed side by side
    unsure,         \* history: names whose last writes were not alone or unclear
    requests, lost, restarts

memory == <<index, apps>>
counters == <<requests, lost, restarts>>
vars == <<memory, crd, req, token, manager, ensured, contested, unsure, counters>>

\* The value of an app that is not registered, of an object that does not exist.
NoSpec == {Absent}
Values == (SUBSET Places) \cup {NoSpec}

Request == [op : {"put", "delete"}, app : Apps \cup {Absent}, spec : SUBSET Places,
            stage : {"idle", "known", "checked", "found", "written", "stored"},
            base : {"absent", "current", "stale"}, alone : BOOLEAN]
Idle == [op |-> "put", app |-> Absent, spec |-> {}, stage |-> "idle",
         base |-> "absent", alone |-> TRUE]

TypeOK ==
    /\ index \in [Places -> Apps \cup {Absent}]
    /\ apps \in [Apps -> Values]
    /\ crd \in [Names -> Values]
    /\ req \in [Handlers -> Request]
    /\ token \in 0 .. 1
    /\ manager \in {"booting", "waiting", "woken"}
    /\ ensured \in SUBSET Clusters
    /\ contested \in SUBSET Places
    /\ unsure \in SUBSET Names
    /\ {requests, lost, restarts} \subseteq Nat

NameFor(h) == NameOf[req[h].app]
\* Between the check and the end of the update of the memory.
InWindow(h) == req[h].stage \in {"checked", "found", "written"}
Claims(h, p) == InWindow(h) /\ req[h].op = "put" /\ p \in req[h].spec
Registered(a) == apps[a] # NoSpec
\* DesiredClusters: the clusters of all registered apps.
DesiredClusters == {ClusterOf[p] : p \in UNION {apps[a] : a \in {b \in Apps : Registered(b)}}}

Init ==
    /\ index = [p \in Places |-> Absent]
    /\ apps = [a \in Apps |-> NoSpec]
    /\ crd = [n \in Names |-> NoSpec]
    /\ req = [h \in Handlers |-> Idle]
    /\ token = 0
    /\ manager = "booting"
    /\ ensured = {}
    /\ contested = {}
    /\ unsure = {}
    /\ requests = 0 /\ lost = 0 /\ restarts = 0

Goes(h, s) == req' = [req EXCEPT ![h].stage = s]
Ends(h) == req' = [req EXCEPT ![h] = Idle]

------------------------------------------------------------------------------
(* A request up to its write *)

\* A PUT with a body.  The clusters that have no kubeconfig are left out; the
\* answer is "none" when the directory cannot be read.
Put(h, a, s, known) ==
    /\ req[h].stage = "idle"
    /\ requests < MaxRequests
    /\ s # {}
    /\ req' = [req EXCEPT ![h] = [op |-> "put", app |-> a,
                    spec |-> {p \in s : ClusterOf[p] \in known},
                    stage |-> "known", base |-> "absent", alone |-> TRUE]]
    /\ requests' = requests + 1
    /\ UNCHANGED <<memory, crd, token, manager, ensured, contested, unsure, lost, restarts>>

\* A request enters its window; those on the same object know of each other.
Enter(h, r) ==
    LET peers == {g \in Handlers \ {h} : InWindow(g) /\ NameFor(g) = NameOf[r.app]}
    IN  req' = [g \in Handlers |->
                    IF g = h THEN [r EXCEPT !.stage = "checked", !.alone = (peers = {})]
                    ELSE IF g \in peers THEN [req[g] EXCEPT !.alone = FALSE]
                    ELSE req[g]]

Conflicts(h) == {p \in req[h].spec : index[p] \notin {Absent, req[h].app}}

\* Mutant of CheckConflicts: nobody looks whose places these are.
CheckNothing(h) ==
    /\ req[h].stage = "known"
    /\ Enter(h, req[h])
    /\ contested' = contested \cup
         {p \in req[h].spec : \E g \in Handlers \ {h} :
                                 Claims(g, p) /\ req[g].app # req[h].app}
    /\ UNCHANGED <<memory, crd, token, manager, ensured, unsure, counters>>

\* The check under the read lock: a place of another app ends the request (409).
CheckConflicts(h) ==
    /\ req[h].stage = "known"
    /\ \/ Conflicts(h) # {} /\ Ends(h) /\ UNCHANGED contested
       \/ /\ Conflicts(h) = {}
          /\ Enter(h, req[h])
          /\ contested' = contested \cup
               {p \in req[h].spec : \E g \in Handlers \ {h} :
                                       Claims(g, p) /\ req[g].app # req[h].app}
    /\ UNCHANGED <<memory, crd, token, manager, ensured, unsure, counters>>

\* A DELETE of a registered app; of any other it is refused (404).
Delete(h, a) ==
    /\ req[h].stage = "idle"
    /\ requests < MaxRequests
    /\ Registered(a)
    /\ Enter(h, [req[h] EXCEPT !.op = "delete", !.app = a, !.spec = {}])
    /\ requests' = requests + 1
    /\ UNCHANGED <<memory, crd, token, manager, ensured, contested, unsure, lost, restarts>>

\* upsertCRD reads the object first.
GetCrd(h) ==
    /\ req[h].stage = "checked" /\ req[h].op = "put"
    /\ req' = [req EXCEPT ![h].stage = "found",
                          ![h].base = IF crd[NameFor(h)] = NoSpec THEN "absent" ELSE "current"]
    /\ UNCHANGED <<memory, crd, token, manager, ensured, contested, unsure, counters>>

------------------------------------------------------------------------------
(* The write *)

\* The object gets the value v: whoever has read it holds an old version.  The
\* reply may be lost, or the client gone: the request ends, nothing in memory.
Writes(h, n, v) ==
    /\ crd' = [crd EXCEPT ![n] = v]
    /\ \E reply \in BOOLEAN :
          /\ reply \/ lost < MaxLost
          /\ req' = [g \in Handlers |->
                IF g = h THEN IF reply THEN [req[h] EXCEPT !.stage = "written"] ELSE Idle
                ELSE IF req[g].base = "current" /\ NameFor(g) = n
                     THEN [req[g] EXCEPT !.base = "stale"]
                ELSE req[g]]
          /\ lost' = IF reply THEN lost ELSE lost + 1
          /\ unsure' = IF reply THEN unsure ELSE unsure \cup {NameFor(h)}
    /\ UNCHANGED <<memory, token, manager, ensured, contested, requests, restarts>>

\* Create when there was no object, Update with the version that was read.
UpsertCrd(h) ==
    /\ req[h].stage = "found" /\ req[h].op = "put"
    /\ \/ req[h].base = "absent" /\ crd[NameFor(h)] = NoSpec
       \/ req[h].base = "current"
    /\ Writes(h, NameFor(h), req[h].spec)

\* The write is refused (AlreadyExists, Conflict, NotFound), or a call to the API
\* server fails without effect: 500.
Fails(h) ==
    /\ \/ req[h].stage = "checked"
       \/ req[h].stage = "found"
    /\ Ends(h)
    /\ UNCHANGED <<memory, crd, token, manager, ensured, contested, unsure, counters>>

\* Mutant of DeleteCrd: the object of an app is looked for under the app's name.
DeleteCrdRawName(h) ==
    /\ req[h].stage = "checked" /\ req[h].op = "delete"
    /\ IF req[h].app \in Names
       THEN Writes(h, req[h].app, NoSpec)
       ELSE /\ Goes(h, "written")
            /\ UNCHANGED <<memory, crd, token, manager, ensured, contested, unsure, counters>>

\* An object that is gone already is fine.
DeleteCrd(h) ==
    /\ req[h].stage = "checked" /\ req[h].op = "delete"
    /\ Writes(h, NameFor(h), NoSpec)

------------------------------------------------------------------------------
(* The memory and the trigger *)

\* The request was the only one on its object, and no other app shares the name:
\* what it wrote is what the memory holds.
Settles(h) ==
    unsure' = IF /\ req[h].alone
                 /\ \A b \in Apps \ {req[h].app} : NameOf[b] = NameFor(h) => ~Registered(b)
              THEN unsure \ {NameFor(h)} ELSE unsure \cup {NameFor(h)}

\* removeFromIndex
Without(a) == [p \in Places |-> IF index[p] = a THEN Absent ELSE index[p]]

\* Mutant of Store: the entries of places the app gave up stay in the index.
StoreKeepsOld(h) ==
    /\ req[h].stage = "written" /\ req[h].op = "put"
    /\ apps' = [apps EXCEPT ![req[h].app] = req[h].spec]
    /\ index' = [p \in Places |-> IF p \in req[h].spec THEN req[h].app ELSE index[p]]
    /\ Settles(h)
    /\ Goes(h, "stored")
    /\ UNCHANGED <<crd, token, manager, ensured, contested, counters>>

\* Under the write lock, without a second look for conflicts.
Store(h) ==
    /\ req[h].stage = "written" /\ req[h].op = "put"
    /\ apps' = [apps EXCEPT ![req[h].app] = req[h].spec]
    /\ index' = [p \in Places |-> IF p \in req[h].spec THEN req[h].app
                                  ELSE Without(req[h].app)[p]]
    /\ Settles(h)
    /\ Goes(h, "stored")
    /\ UNCHANGED <<crd, token, manager, ensured, contested, counters>>

Remove(h) ==
    /\ req[h].stage = "written" /\ req[h].op = "delete"
    /\ apps' = [apps EXCEPT ![req[h].app] = NoSpec]
    /\ index' = Without(req[h].app)
    /\ Settles(h)
    /\ Goes(h, "stored")
    /\ UNCHANGED <<crd, token, manager, ensured, contested, counters>>

\* Mutant of Trigger: only a new registration wakes the manager.
TriggerOnPut(h) ==
    /\ req[h].stage = "stored"
    /\ token' = IF req[h].op = "put" THEN 1 ELSE token
    /\ Ends(h)
    /\ UNCHANGED <<memory, crd, manager, ensured, contested, unsure, counters>>

\* triggerReconcile does not block: a full channel is signal enough.
Trigger(h) ==
    /\ req[h].stage = "stored"
    /\ token' = 1
    /\ Ends(h)
    /\ UNCHANGED <<memory, crd, manager, ensured, contested, unsure, counters>>

------------------------------------------------------------------------------
(* The manager, and restarts *)

\* The ticker or the trigger wakes the reconcile loop.
Wake ==
    /\ manager # "woken"
    /\ manager' = "woken"
    /\ token' \in {token, 0}
    /\ UNCHANGED <<memory, crd, req, ensured, contested, unsure, counters>>

\* ensureWatchlistClusters takes the desired clusters.
Ensure ==
    /\ manager = "woken"
    /\ manager' = "waiting"
    /\ ensured' = DesiredClusters
    /\ UNCHANGED <<memory, crd, req, token, contested, unsure, counters>>

\* The names of the objects that list a place.
Owners(p) == {n \in Names : crd[n] # NoSpec /\ p \in crd[n]}

\* The monitor stops and starts: requests are gone, the memory is loaded from the
\* objects.  An app is now called by the name of its object; which of two objects
\* with the same place wins is a matter of their order.
Restart ==
    /\ restarts < MaxRestarts
    /\ restarts' = restarts + 1
    /\ apps' = [a \in Apps |-> IF a \in Names THEN crd[a] ELSE NoSpec]
    /\ index' \in {f \in [Places -> Names \cup {Absent}] :
                     \A p \in Places : IF Owners(p) = {} THEN f[p] = Absent ELSE f[p] \in Owners(p)}
    /\ contested' = {p \in Places : \E m, n \in Owners(p) : m # n}
    /\ unsure' = {}
    /\ req' = [h \in Handlers |-> Idle]
    /\ token' = 0
    /\ manager' = "booting"
    /\ ensured' = {}
    /\ UNCHANGED <<crd, requests, lost>>

------------------------------------------------------------------------------
Next ==
    \/ \E h \in Handlers, a \in Apps :
          \/ \E s \in SUBSET Places, known \in SUBSET Clusters : Put(h, a, s, known)
          \/ Delete(h, a)
    \/ \E h \in Handlers :
          \/ CheckConflicts(h) \/ GetCrd(h) \/ UpsertCrd(h) \/ Fails(h) \/ DeleteCrd(h)
          \/ Store(h) \/ Remove(h) \/ Trigger(h)
    \/ Wake \/ Ensure \/ Restart

Spec == Init /\ [][Next]_vars

------------------------------------------------------------------------------
(* Properties *)

(* A lookup names only an app that is registered for the place, and, unless two *)
(* apps claimed it in overlapping requests or had it in their objects at the    *)
(* last start, the app that is registered for a place is the one found.  So a   *)
(* place has one owner, although the check and the update take separate locks.  *)
IndexIsRight ==
    /\ \A p \in Places : index[p] # Absent =>
          Registered(index[p]) /\ p \in apps[index[p]]
    /\ \A p \in Places \ contested, a \in Apps :
          Registered(a) /\ p \in apps[a] => index[p] = a

(* What survives a restart is what the API shows: without a request on its way, *)
(* the object of a name and the app in memory agree, unless the last requests   *)
(* on it overlapped, shared the name or lost a reply.  A later request that     *)
(* runs alone repairs it.                                                       *)
CrdsAgree ==
    \A n \in Names \ unsure : (\A h \in Handlers : InWindow(h) => NameFor(h) # n) =>
        /\ \A a \in Apps : NameOf[a] = n /\ Registered(a) => crd[n] = apps[a]
        /\ crd[n] # NoSpec => \E a \in Apps : NameOf[a] = n /\ apps[a] = crd[n]

(* No trigger is lost: when the manager waits, with nothing in the channel and  *)
(* no request about to send, its last look saw the clusters desired now.        *)
TriggersReach ==
    manager = "waiting" /\ token = 0 /\ (\A h \in Handlers : req[h].stage # "stored")
        => ensured = DesiredClusters

(* What a request in its window is about to register.                           *)
ClaimOf(h) ==
    IF ~InWindow(h) THEN [app |-> Absent, value |-> NoSpec]
    ELSE [app |-> req[h].app, value |-> IF req[h].op = "put" THEN req[h].spec ELSE NoSpec]

Claimed == [h \in Handlers |-> ClaimOf(h)]

Owned == INSTANCE Ownership WITH
    owner <- index,
    spec <- apps,
    claim <- Claimed

(* The store implements the ownership of places: although the check, the write  *)
(* of the object and the update of the index are three critical sections, a     *)
(* request takes no place from another app unless both claimed it side by side, *)
(* and a request that fails leaves no trace in the index (store.go:61-214).     *)
OwnershipSpec == Owned!Spec
==============================================================================
