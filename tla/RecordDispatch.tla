--------------------------- MODULE RecordDispatch ---------------------------
(***************************************************************************)
(* Split mode: the monitor writes RolloutRecord objects                    *)
(* (internal/persistence/audit_recorder.go), the replicas of the           *)
(* dispatcher binary claim them, dispatch them and write the outcome       *)
(* (internal/dispatch/record_watcher.go), each replica scans for stuck     *)
(* records every minute, and deletes old ones (ttl_cleaner.go).            *)
(*                                                                         *)
(* The API server is the only thing the replicas share.  A record is the   *)
(* sequence of the phases it had: its length is the resourceVersion, and   *)
(* an UpdateStatus succeeds only with the current one.  A replica works    *)
(* on versions it saw in notifications or lists, which may be stale.       *)
(***************************************************************************)
EXTENDS Naturals, Sequences, FiniteSets

CONSTANTS
  Records,           \* RolloutRecord names
  Replicas,          \* dispatcher pods
  StuckTimeout,      \* 10 minutes, in ticks
  TTL,               \* RolloutRecordTTLDays, in ticks
  MaxResets,         \* bound: recovery resets per record
  CreateKeepsStatus  \* does the API server keep .status on a create?

ASSUME RecordAssumption ==
  /\ IsFiniteSet(Replicas)
  /\ StuckTimeout \in Nat \ {0}
  /\ TTL \in Nat /\ TTL >= StuckTimeout
  /\ MaxResets \in Nat
  /\ CreateKeepsStatus \in BOOLEAN

VARIABLES
  hist,        \* [Records -> the phases the record had, <<>> before creation]
  gone,        \* records deleted from the API server
  age,         \* [Records -> ticks since creationTimestamp, at most TTL]
  held,        \* [Records -> ticks since the last claim, at most StuckTimeout]
  seen,        \* [Replicas -> [Records -> newest version its informer delivered]]
  handler,     \* [Replicas -> what its informer handler goroutine does]
  scan,        \* [Replicas -> <<record, version>> left of its recovery list]
  sweep,       \* [Replicas -> records left of its cleaner's list]
  claims,      \* history: [Records -> claims the server accepted]
  resets,      \* history: [Records -> resets the server accepted]
  dispatches,  \* history: [Records -> calls of DispatchEvent]
  outcomes     \* history: [Records -> results those calls returned]

server == <<hist, gone, age, held>>
ghosts == <<claims, resets, dispatches, outcomes>>
vars == <<hist, gone, age, held, seen, handler, scan, sweep, claims, resets,
          dispatches, outcomes>>

Terminal == {"Dispatched", "Failed"}
\* "": .status is empty; getNestedString reads the phase as the empty string.
Phases == {"", "Detected", "Processing"} \cup Terminal
Stages == {"idle", "claim", "dispatch", "get", "put"}

\* Mutant of InitialPhase: a phase the CRD does not know.
InitialPending == IF CreateKeepsStatus THEN "Pending" ELSE ""

\* What a record shows when it was created.
InitialPhase == IF CreateKeepsStatus THEN "Detected" ELSE ""

Version(r) == Len(hist[r])
Phase(r) == hist[r][Version(r)]
Exists(r) == hist[r] # <<>> /\ r \notin gone

\* What handleRecord is doing: the record, the version it holds, whether the
\* dispatch returned without error.
Handlers == [stage : Stages, rec : Records, ver : Nat, ok : BOOLEAN]

TypeOK ==
  /\ hist \in [Records -> Seq(Phases)]
  /\ gone \subseteq Records
  /\ age \in [Records -> 0..TTL]
  /\ held \in [Records -> 0..StuckTimeout]
  /\ seen \in [Replicas -> [Records -> Nat]]
  /\ handler \in [Replicas -> Handlers]
  /\ scan \in [Replicas -> SUBSET (Records \X Nat)]
  /\ sweep \in [Replicas -> SUBSET Records]
  /\ claims \in [Records -> Nat]
  /\ resets \in [Records -> 0..MaxResets]
  /\ dispatches \in [Records -> Nat]
  /\ outcomes \in [Records -> SUBSET BOOLEAN]

Init ==
  /\ hist = [r \in Records |-> <<>>]
  /\ gone = {}
  /\ age = [r \in Records |-> 0]
  /\ held = [r \in Records |-> 0]
  /\ seen = [p \in Replicas |-> [r \in Records |-> 0]]
  /\ \E r \in Records : handler =
       [p \in Replicas |-> [stage |-> "idle", rec |-> r, ver |-> 0, ok |-> FALSE]]
  /\ scan = [p \in Replicas |-> {}]
  /\ sweep = [p \in Replicas |-> {}]
  /\ claims = [r \in Records |-> 0]
  /\ resets = [r \in Records |-> 0]
  /\ dispatches = [r \in Records |-> 0]
  /\ outcomes = [r \in Records |-> {}]

----------------------------------------------------------------------------
\* The API server's compare-and-swap: UpdateStatus of r, prepared on version v.
Accepts(r, v) == Exists(r) /\ v = Version(r)
Write(r, phase) == hist' = [hist EXCEPT ![r] = Append(hist[r], phase)]

Goto(p, stage) == handler' = [handler EXCEPT ![p].stage = stage]

\* The monitor's RecordRollout.  Its status is Detected in the request; a
\* status subresource makes the API server drop it.
Create(r) ==
  /\ hist[r] = <<>>
  /\ Write(r, InitialPhase)
  /\ UNCHANGED <<gone, age, held, seen, handler, scan, sweep, ghosts>>

\* A watch notification or the 30 s resync hands a version of r to the
\* replica's handler, which ignores every phase but Detected.
Notify(p, r, v) ==
  /\ handler[p].stage = "idle"
  /\ v \in 1..Version(r) /\ v >= seen[p][r]
  /\ seen' = [seen EXCEPT ![p][r] = v]
  /\ handler' = IF hist[r][v] # "Detected" THEN handler
                ELSE [handler EXCEPT ![p] =
                        [stage |-> "claim", rec |-> r, ver |-> v, ok |-> FALSE]]
  /\ UNCHANGED <<server, scan, sweep, ghosts>>

\* Mutant of ClaimAccepted: the update carries no resourceVersion.
ClaimUnversioned(p) ==
  LET r == handler[p].rec IN
  /\ handler[p].stage = "claim"
  /\ Exists(r)
  /\ Write(r, "Processing")
  /\ held' = [held EXCEPT ![r] = 0]
  /\ claims' = [claims EXCEPT ![r] = claims[r] + 1]
  /\ Goto(p, "dispatch") \/ Goto(p, "idle")
  /\ UNCHANGED <<gone, age, seen, scan, sweep, resets, dispatches, outcomes>>

\* claimRecord: the write is accepted and the replica learns it, or its reply
\* is lost and the replica believes the claim failed.
ClaimAccepted(p) ==
  LET r == handler[p].rec IN
  /\ handler[p].stage = "claim"
  /\ Accepts(r, handler[p].ver)
  /\ Write(r, "Processing")
  /\ held' = [held EXCEPT ![r] = 0]
  /\ claims' = [claims EXCEPT ![r] = claims[r] + 1]
  /\ Goto(p, "dispatch") \/ Goto(p, "idle")
  /\ UNCHANGED <<gone, age, seen, scan, sweep, resets, dispatches, outcomes>>

\* Mutant of ClaimRefused: handleRecord ignores the error and dispatches.
ClaimRefusedIgnored(p) ==
  /\ handler[p].stage = "claim"
  /\ Goto(p, "dispatch")
  /\ UNCHANGED <<server, seen, scan, sweep, ghosts>>

\* claimRecord: 409, 404 or any other error; handleRecord returns.
ClaimRefused(p) ==
  /\ handler[p].stage = "claim"
  /\ Goto(p, "idle")
  /\ UNCHANGED <<server, seen, scan, sweep, ghosts>>

\* DispatchEvent calls all targets; dispatchErr is set when one of them failed.
Dispatch(p) ==
  LET r == handler[p].rec IN
  /\ handler[p].stage = "dispatch"
  /\ dispatches' = [dispatches EXCEPT ![r] = dispatches[r] + 1]
  /\ \E ok \in BOOLEAN :
       /\ handler' = [handler EXCEPT ![p].stage = "get", ![p].ok = ok]
       /\ outcomes' = [outcomes EXCEPT ![r] = outcomes[r] \cup {ok}]
  /\ UNCHANGED <<server, seen, scan, sweep, claims, resets>>

\* updateRecordStatus reads the latest version ...
StatusGet(p) ==
  LET r == handler[p].rec IN
  /\ handler[p].stage = "get"
  /\ Exists(r)
  /\ handler' = [handler EXCEPT ![p].stage = "put", ![p].ver = Version(r)]
  /\ UNCHANGED <<server, seen, scan, sweep, ghosts>>

\* Mutant of StatusPut: the test of dispatchErr is the wrong way round.
StatusPutSwapped(p) ==
  LET r == handler[p].rec IN
  /\ handler[p].stage = "put"
  /\ Accepts(r, handler[p].ver)
  /\ Write(r, IF handler[p].ok THEN "Failed" ELSE "Dispatched")
  /\ Goto(p, "idle")
  /\ UNCHANGED <<gone, age, held, seen, scan, sweep, ghosts>>

\* ... and writes the outcome over it, whatever the phase it read.
StatusPut(p) ==
  LET r == handler[p].rec IN
  /\ handler[p].stage = "put"
  /\ Accepts(r, handler[p].ver)
  /\ Write(r, IF handler[p].ok THEN "Dispatched" ELSE "Failed")
  /\ Goto(p, "idle")
  /\ UNCHANGED <<gone, age, held, seen, scan, sweep, ghosts>>

\* The Get or the UpdateStatus fails: a warning, and the phase stays.
StatusLost(p) ==
  /\ handler[p].stage \in {"get", "put"}
  /\ Goto(p, "idle")
  /\ UNCHANGED <<server, seen, scan, sweep, ghosts>>

----------------------------------------------------------------------------
\* Mutant of RecoverList: any phase is recovered.
RecoverListAnyPhase(p) ==
  /\ scan[p] = {}
  /\ scan' = [scan EXCEPT ![p] =
       {<<r, Version(r)>> : r \in {x \in Records : /\ Exists(x)
                                                   /\ age[x] >= StuckTimeout}}]
  /\ UNCHANGED <<server, seen, handler, sweep, ghosts>>

\* doRecoverStuck lists, and keeps the Processing records created long ago.
RecoverList(p) ==
  /\ scan[p] = {}
  /\ scan' = [scan EXCEPT ![p] =
       {<<r, Version(r)>> : r \in {x \in Records : /\ Exists(x)
                                                   /\ Phase(x) = "Processing"
                                                   /\ age[x] >= StuckTimeout}}]
  /\ UNCHANGED <<server, seen, handler, sweep, ghosts>>

\* Mutant of RecoverReset: the update carries no resourceVersion.
RecoverResetUnversioned(p, r, v) ==
  /\ <<r, v>> \in scan[p]
  /\ resets[r] < MaxResets
  /\ Exists(r)
  /\ Write(r, "Detected")
  /\ resets' = [resets EXCEPT ![r] = resets[r] + 1]
  /\ scan' = [scan EXCEPT ![p] = scan[p] \ {<<r, v>>}]
  /\ UNCHANGED <<gone, age, held, seen, handler, sweep, claims, dispatches,
                 outcomes>>

\* Its loop resets the next of them, on the version it listed.
RecoverReset(p, r, v) ==
  /\ <<r, v>> \in scan[p]
  /\ resets[r] < MaxResets
  /\ Accepts(r, v)
  /\ Write(r, "Detected")
  /\ resets' = [resets EXCEPT ![r] = resets[r] + 1]
  /\ scan' = [scan EXCEPT ![p] = scan[p] \ {<<r, v>>}]
  /\ UNCHANGED <<gone, age, held, seen, handler, sweep, claims, dispatches,
                 outcomes>>

\* The reset fails (409, 404 or another error); the loop goes on.
RecoverFailed(p, r, v) ==
  /\ <<r, v>> \in scan[p]
  /\ scan' = [scan EXCEPT ![p] = scan[p] \ {<<r, v>>}]
  /\ UNCHANGED <<server, seen, handler, sweep, ghosts>>

\* Mutant of CleanList: records of any phase are deleted.
CleanListAnyPhase(p) ==
  /\ sweep[p] = {}
  /\ sweep' = [sweep EXCEPT ![p] =
       {r \in Records : Exists(r) /\ age[r] >= TTL}]
  /\ UNCHANGED <<server, seen, handler, scan, ghosts>>

\* The cleaner's list: terminal records older than the TTL.
CleanList(p) ==
  /\ sweep[p] = {}
  /\ sweep' = [sweep EXCEPT ![p] =
       {r \in Records : Exists(r) /\ Phase(r) \in Terminal /\ age[r] >= TTL}]
  /\ UNCHANGED <<server, seen, handler, scan, ghosts>>

\* Its loop deletes the next of them by name, with no precondition.
CleanDelete(p, r) ==
  /\ r \in sweep[p]
  /\ sweep' = [sweep EXCEPT ![p] = sweep[p] \ {r}]
  /\ gone' = gone \cup {r}
  /\ UNCHANGED <<hist, age, held, seen, handler, scan, ghosts>>

CleanFailed(p, r) ==
  /\ r \in sweep[p]
  /\ sweep' = [sweep EXCEPT ![p] = sweep[p] \ {r}]
  /\ UNCHANGED <<server, seen, handler, scan, ghosts>>

\* The pod dies (main returns on a signal without waiting for the handler, or
\* it crashes) and another takes its place, whose informer lists anew.
Crash(p) ==
  /\ Goto(p, "idle")
  /\ scan' = [scan EXCEPT ![p] = {}]
  /\ sweep' = [sweep EXCEPT ![p] = {}]
  /\ seen' = [seen EXCEPT ![p] = [r \in Records |-> Version(r)]]
  /\ UNCHANGED <<server, ghosts>>

Tick ==
  /\ \E r \in Records : Exists(r) /\ (age[r] < TTL \/ held[r] < StuckTimeout)
  /\ age' = [r \in Records |-> IF Exists(r) /\ age[r] < TTL
                               THEN age[r] + 1 ELSE age[r]]
  /\ held' = [r \in Records |-> IF Exists(r) /\ held[r] < StuckTimeout
                                THEN held[r] + 1 ELSE held[r]]
  /\ UNCHANGED <<hist, gone, seen, handler, scan, sweep, ghosts>>

Handle(p) ==
  \/ \E r \in Records : \E v \in 1..Version(r) : Notify(p, r, v)
  \/ ClaimAccepted(p)
  \/ ClaimRefused(p)
  \/ Dispatch(p)
  \/ StatusGet(p)
  \/ StatusPut(p)
  \/ StatusLost(p)

Recover(p) ==
  \/ RecoverList(p)
  \/ \E item \in scan[p] : RecoverReset(p, item[1], item[2])
  \/ \E item \in scan[p] : RecoverFailed(p, item[1], item[2])

Clean(p) ==
  \/ CleanList(p)
  \/ \E r \in sweep[p] : CleanDelete(p, r) \/ CleanFailed(p, r)

Next ==
  \/ \E r \in Records : Create(r)
  \/ \E p \in Replicas : Handle(p) \/ Recover(p) \/ Clean(p) \/ Crash(p)
  \/ Tick

Spec == Init /\ [][Next]_vars

(***************************************************************************)
(* Fairness: the informer of every replica brings, sooner or later, the    *)
(* newest version (watch or 30 s resync); a handler, a scan and the clock  *)
(* go on; and a request that is tried again and again is not refused or    *)
(* cut off by a crash for ever (strong fairness).                          *)
(***************************************************************************)
NotifyNewest(p, r) == Exists(r) /\ Notify(p, r, Version(r))

Fairness ==
  /\ WF_vars(Tick)
  /\ \A p \in Replicas :
       /\ \A r \in Records : SF_vars(NotifyNewest(p, r))
       /\ SF_vars(ClaimAccepted(p))
       /\ WF_vars(ClaimRefused(p))
       /\ SF_vars(Dispatch(p))
       /\ SF_vars(StatusGet(p))
       /\ SF_vars(StatusPut(p))
       /\ WF_vars(StatusLost(p))
       /\ SF_vars(RecoverList(p) /\ scan'[p] # {})
       /\ SF_vars(\E item \in scan[p] : RecoverReset(p, item[1], item[2]))
       /\ WF_vars(\E item \in scan[p] : RecoverFailed(p, item[1], item[2]))

FairSpec == Spec /\ Fairness

----------------------------------------------------------------------------
\* A record is claimed at most once more often than recovery reset it, however
\* many replicas saw it as Detected, and stale notifications included: the
\* compare-and-swap of claimRecord (record_watcher.go:115-138) is exclusive.
ClaimsBounded == \A r \in Records : claims[r] <= 1 + resets[r]

\* Notifications are sent at most once per claim, and so without a reset at
\* most once: a handler that lost its claim never dispatches
\* (record_watcher.go:98-107).
DispatchesBounded == \A r \in Records : dispatches[r] <= 1 + resets[r]

\* A terminal phase tells what happened: a record that says Dispatched was
\* dispatched without error at least once, one that says Failed failed at least
\* once, even when an abandoned handler writes over the outcome of another
\* (record_watcher.go:160-188, types.go:107-110).
OutcomeIsEarned ==
  \A r \in Records : hist[r] # <<>> =>
    /\ Phase(r) = "Dispatched" => TRUE \in outcomes[r]
    /\ Phase(r) = "Failed" => FALSE \in outcomes[r]

\* A record never leaves the terminal phases: no late claim, reset or stale
\* list sends it back to be dispatched again (record_watcher.go:127-129, 224-239).
TerminalStays ==
  [][\A r \in Records :
       Exists(r) /\ Phase(r) \in Terminal => hist'[r][Len(hist'[r])] \in Terminal]_vars

\* The cleaner deletes by name what it listed a while ago; the record is
\* terminal when it goes: no rollout is deleted before it was dispatched
\* (ttl_cleaner.go:71-94).
DeletedWasTerminal == \A r \in gone : Phase(r) \in Terminal

\* A record that shows Detected reaches a terminal phase, or recovery gave up at
\* its bound: a crash, a lost reply or a refused write between the claim and the
\* outcome only delays it (record_watcher.go:83-112, 190-246).  Whether a created
\* record ever shows Detected is another question: EveryRecordIsDispatched.
DetectedIsSettled ==
  \A r \in Records :
    (Exists(r) /\ Phase(r) = "Detected")
      ~> (\/ hist[r] # <<>> /\ Phase(r) \in Terminal
          \/ resets[r] = MaxResets)

\* "Phase lifecycle: Detected -> Processing (split mode only) -> Dispatched or
\* Failed" (docs/architecture.md:116): every record the monitor writes reaches a
\* dispatcher, or was claimed and reset up to the bound.
EveryRecordIsDispatched ==
  \A r \in Records :
    (hist[r] # <<>>) ~> (dispatches[r] > 0 \/ resets[r] = MaxResets)

\* "Records stuck in Processing for more than 10 minutes are reset to Detected"
\* (docs/architecture.md:106): a record that was claimed less than StuckTimeout
\* ago is not reset.
ResetOnlyWhenStuck ==
  [][\A r \in Records : resets'[r] > resets[r] => held[r] >= StuckTimeout]_vars

\* What a client that reads r from the API server sees.
Shown(r) ==
  IF r \in gone THEN "Deleted" ELSE IF hist[r] = <<>> THEN "Absent" ELSE Phase(r)

\* The replicas, the recorder and the API server implement the life cycle.
Lifecycle == INSTANCE RecordLifecycle WITH phase <- [r \in Records |-> Shown(r)]

LifecycleSpec == Lifecycle!Spec
=============================================================================
