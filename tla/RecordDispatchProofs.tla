------------------------ MODULE RecordDispatchProofs ------------------------
(***************************************************************************)
(* Split mode for any records, replicas, timeouts and number of resets:    *)
(* the types, the safety properties of the runs, and the proof that the    *)
(* replicas, the recorder and the API server implement RecordLifecycle.    *)
(***************************************************************************)
EXTENDS RecordDispatch, SequenceTheorems, FiniteSetTheorems, TLAPS

\* What a write of a record's status does to the histories: one phase more for
\* that record, and nothing else.
LEMMA WriteEffect ==
  ASSUME TypeOK, NEW r \in Records, NEW phase \in Phases, Write(r, phase)
  PROVE  /\ hist' \in [Records -> Seq(Phases)]
         /\ hist'[r] # <<>>
         /\ Version(r) \in Nat /\ Len(hist'[r]) = Version(r) + 1
         /\ hist'[r][Len(hist'[r])] = phase
         /\ \A v \in 1..Version(r) : hist'[r][v] = hist[r][v]
         /\ \A q \in Records \ {r} : hist'[q] = hist[q]
<1>1. hist[r] \in Seq(Phases)
  BY DEF TypeOK
<1>2. /\ Append(hist[r], phase) \in Seq(Phases)
      /\ Len(Append(hist[r], phase)) = Len(hist[r]) + 1
      /\ Append(hist[r], phase)[Len(hist[r]) + 1] = phase
      /\ \A v \in 1..Len(hist[r]) : Append(hist[r], phase)[v] = hist[r][v]
      /\ Append(hist[r], phase) # <<>>
  BY <1>1, AppendProperties
<1>3. hist'[r] = Append(hist[r], phase) /\ hist' \in [Records -> Seq(Phases)]
  BY <1>2 DEF Write, TypeOK
<1>4. \A q \in Records \ {r} : hist'[q] = hist[q]
  BY DEF Write, TypeOK
<1>5. Len(hist[r]) \in Nat
  BY <1>1, LenProperties
<1>6. QED
  BY <1>2, <1>3, <1>4, <1>5 DEF Version

\* The phases the code writes are phases.
LEMMA PhasesWritten ==
  InitialPhase \in Phases /\ "Processing" \in Phases /\ "Detected" \in Phases
    /\ "Dispatched" \in Phases /\ "Failed" \in Phases
BY DEF InitialPhase, Phases, Terminal

----------------------------------------------------------------------------
\* Type correctness: histories, counters, handlers and lists keep their shape.
THEOREM TypeCorrect == Spec => []TypeOK
<1>1. Init => TypeOK
  <2> SUFFICES ASSUME Init PROVE TypeOK
    OBVIOUS
  <2>1. hist \in [Records -> Seq(Phases)]
    BY EmptySeq DEF Init
  <2>2. handler \in [Replicas -> Handlers]
    BY DEF Init, Handlers, Stages
  <2>3. /\ gone \subseteq Records
        /\ age \in [Records -> 0..TTL] /\ held \in [Records -> 0..StuckTimeout]
        /\ seen \in [Replicas -> [Records -> Nat]]
    BY RecordAssumption DEF Init
  <2>4. /\ scan \in [Replicas -> SUBSET (Records \X Nat)]
        /\ sweep \in [Replicas -> SUBSET Records]
    BY DEF Init
  <2>5. /\ claims \in [Records -> Nat] /\ resets \in [Records -> 0..MaxResets]
        /\ dispatches \in [Records -> Nat]
        /\ outcomes \in [Records -> SUBSET BOOLEAN]
    BY RecordAssumption DEF Init
  <2>6. QED
    BY <2>1, <2>2, <2>3, <2>4, <2>5 DEF TypeOK
<1>2. TypeOK /\ [Next]_vars => TypeOK'
  <2> SUFFICES ASSUME TypeOK, [Next]_vars PROVE TypeOK'
    OBVIOUS
  <2> USE RecordAssumption
  <2>v. \A r \in Records : Version(r) \in Nat
    BY LenProperties DEF TypeOK, Version
  <2>g. ASSUME NEW p \in Replicas, NEW s \in Stages, Goto(p, s)
        PROVE  handler' \in [Replicas -> Handlers]
    <3>1. handler \in [Replicas -> Handlers]
      BY DEF TypeOK
    <3>2. [handler[p] EXCEPT !.stage = s] \in Handlers
      BY <3>1 DEF Handlers
    <3>3. QED
      BY <2>g, <3>1, <3>2 DEF Goto
  <2>u. \A p \in Replicas : handler[p] \in Handlers
    BY DEF TypeOK
  <2>s. Stages = {"idle", "claim", "dispatch", "get", "put"}
    BY DEF Stages
  <2>1. ASSUME NEW r \in Records, Create(r) PROVE TypeOK'
    BY <2>1, WriteEffect, PhasesWritten DEF Create, TypeOK, ghosts
  <2>2. ASSUME NEW p \in Replicas, NEW r \in Records, NEW v \in 1..Version(r),
               Notify(p, r, v)
        PROVE  TypeOK'
    <3>1. v \in Nat
      BY <2>v
    <3>2. seen' \in [Replicas -> [Records -> Nat]]
      BY <2>2, <3>1 DEF Notify, TypeOK
    <3>3. [stage |-> "claim", rec |-> r, ver |-> v, ok |-> FALSE] \in Handlers
      BY <3>1 DEF Handlers, Stages
    <3>4. handler' \in [Replicas -> Handlers]
      BY <2>2, <3>3 DEF Notify, TypeOK
    <3>5. QED
      BY <2>2, <3>2, <3>4 DEF Notify, TypeOK, server, ghosts
  <2>3. ASSUME NEW p \in Replicas, ClaimAccepted(p) PROVE TypeOK'
    <3> DEFINE r == handler[p].rec
    <3>1. r \in Records
      BY <2>u DEF Handlers
    <3>2. hist' \in [Records -> Seq(Phases)]
      BY <2>3, <3>1, WriteEffect, PhasesWritten DEF ClaimAccepted
    <3>3. handler' \in [Replicas -> Handlers]
      BY <2>3, <2>g, <2>s DEF ClaimAccepted
    <3>4. held' \in [Records -> 0..StuckTimeout] /\ claims' \in [Records -> Nat]
      BY <2>3, <3>1 DEF ClaimAccepted, TypeOK
    <3>5. QED
      BY <2>3, <3>2, <3>3, <3>4 DEF ClaimAccepted, TypeOK
  <2>4. ASSUME NEW p \in Replicas, ClaimRefused(p) \/ StatusLost(p) PROVE TypeOK'
    <3>1. handler' \in [Replicas -> Handlers]
      BY <2>4, <2>g, <2>s DEF ClaimRefused, StatusLost
    <3>2. QED
      BY <2>4, <3>1 DEF ClaimRefused, StatusLost, TypeOK, server, ghosts
  <2>5. ASSUME NEW p \in Replicas, Dispatch(p) PROVE TypeOK'
    <3>1. handler[p].rec \in Records
      BY <2>u DEF Handlers
    <3>2. PICK ok \in BOOLEAN :
            /\ handler' = [handler EXCEPT ![p].stage = "get", ![p].ok = ok]
            /\ outcomes' = [outcomes EXCEPT ![handler[p].rec] =
                             outcomes[handler[p].rec] \cup {ok}]
      BY <2>5 DEF Dispatch
    <3>3. handler' \in [Replicas -> Handlers]
      <4>1. handler' = [handler EXCEPT ![p] =
                         [handler[p] EXCEPT !.stage = "get", !.ok = ok]]
        BY <3>2, <2>u DEF TypeOK
      <4>2. [handler[p] EXCEPT !.stage = "get", !.ok = ok] \in Handlers
        BY <2>u, <2>s DEF Handlers
      <4>3. QED
        BY <4>1, <4>2 DEF TypeOK
    <3>4. outcomes' \in [Records -> SUBSET BOOLEAN]
      BY <3>1, <3>2 DEF TypeOK
    <3>5. dispatches' \in [Records -> Nat]
      BY <2>5, <3>1 DEF Dispatch, TypeOK
    <3>6. QED
      BY <2>5, <3>3, <3>4, <3>5 DEF Dispatch, TypeOK, server
  <2>6. ASSUME NEW p \in Replicas, StatusGet(p) PROVE TypeOK'
    <3>1. handler[p].rec \in Records
      BY <2>u DEF Handlers
    <3>2. handler' = [handler EXCEPT ![p] =
                       [handler[p] EXCEPT !.stage = "put",
                                          !.ver = Version(handler[p].rec)]]
      BY <2>6, <2>u DEF StatusGet, TypeOK
    <3>3. [handler[p] EXCEPT !.stage = "put", !.ver = Version(handler[p].rec)]
            \in Handlers
      BY <2>u, <2>v, <2>s, <3>1 DEF Handlers
    <3>4. handler' \in [Replicas -> Handlers]
      BY <3>2, <3>3 DEF TypeOK
    <3>5. QED
      BY <2>6, <3>4 DEF StatusGet, TypeOK, server, ghosts
  <2>7. ASSUME NEW p \in Replicas, StatusPut(p) PROVE TypeOK'
    <3>1. handler[p].rec \in Records
      BY <2>u DEF Handlers
    <3>2. hist' \in [Records -> Seq(Phases)]
      BY <2>7, <3>1, WriteEffect, PhasesWritten DEF StatusPut
    <3>3. handler' \in [Replicas -> Handlers]
      BY <2>7, <2>g, <2>s DEF StatusPut
    <3>4. QED
      BY <2>7, <3>2, <3>3 DEF StatusPut, TypeOK, ghosts
  <2>8. ASSUME NEW p \in Replicas, RecoverList(p) PROVE TypeOK'
    <3>1. {<<r, Version(r)>> : r \in {x \in Records : /\ Exists(x)
             /\ Phase(x) = "Processing" /\ age[x] >= StuckTimeout}}
            \subseteq Records \X Nat
      BY <2>v
    <3>2. scan' \in [Replicas -> SUBSET (Records \X Nat)]
      BY <2>8, <3>1 DEF RecoverList, TypeOK
    <3>3. QED
      BY <2>8, <3>2 DEF RecoverList, TypeOK, server, ghosts
  <2>9. ASSUME NEW p \in Replicas, NEW item \in scan[p],
               RecoverReset(p, item[1], item[2])
        PROVE  TypeOK'
    <3>1. item[1] \in Records /\ scan[p] \subseteq Records \X Nat
      BY DEF TypeOK
    <3>2. hist' \in [Records -> Seq(Phases)]
      BY <2>9, <3>1, WriteEffect, PhasesWritten DEF RecoverReset
    <3>3. resets' \in [Records -> 0..MaxResets]
      BY <2>9, <3>1 DEF RecoverReset, TypeOK
    <3>4. scan' \in [Replicas -> SUBSET (Records \X Nat)]
      BY <2>9, <3>1 DEF RecoverReset, TypeOK
    <3>5. QED
      BY <2>9, <3>2, <3>3, <3>4 DEF RecoverReset, TypeOK
  <2>10. ASSUME NEW p \in Replicas, NEW item \in scan[p],
                RecoverFailed(p, item[1], item[2])
         PROVE  TypeOK'
    <3>1. scan' \in [Replicas -> SUBSET (Records \X Nat)]
      BY <2>10 DEF RecoverFailed, TypeOK
    <3>2. QED
      BY <2>10, <3>1 DEF RecoverFailed, TypeOK, server, ghosts
  <2>11. ASSUME NEW p \in Replicas, Clean(p) PROVE TypeOK'
    <3>1. CASE CleanList(p)
      BY <3>1 DEF CleanList, TypeOK, server, ghosts
    <3>2. ASSUME NEW r \in sweep[p], CleanDelete(p, r) PROVE TypeOK'
      BY <3>2 DEF CleanDelete, TypeOK, ghosts
    <3>3. ASSUME NEW r \in sweep[p], CleanFailed(p, r) PROVE TypeOK'
      BY <3>3 DEF CleanFailed, TypeOK, server, ghosts
    <3>4. QED
      BY <2>11, <3>1, <3>2, <3>3 DEF Clean
  <2>12. ASSUME NEW p \in Replicas, Crash(p) PROVE TypeOK'
    <3>1. handler' \in [Replicas -> Handlers]
      BY <2>12, <2>g, <2>s DEF Crash
    <3>2. seen' \in [Replicas -> [Records -> Nat]]
      BY <2>12, <2>v DEF Crash, TypeOK
    <3>3. QED
      BY <2>12, <3>1, <3>2 DEF Crash, TypeOK, server, ghosts
  <2>13. CASE Tick
    <3>1. age' \in [Records -> 0..TTL]
      BY <2>13 DEF Tick, TypeOK
    <3>2. held' \in [Records -> 0..StuckTimeout]
      BY <2>13 DEF Tick, TypeOK
    <3>3. QED
      BY <2>13, <3>1, <3>2 DEF Tick, TypeOK, ghosts
  <2>14. CASE UNCHANGED vars
    BY <2>14 DEF vars, TypeOK
  <2>15. QED
    BY <2>1, <2>2, <2>3, <2>4, <2>5, <2>6, <2>7, <2>8, <2>9, <2>10, <2>11,
       <2>12, <2>13, <2>14 DEF Next, Handle, Recover
<1>3. QED
  BY <1>1, <1>2, PTL DEF Spec

----------------------------------------------------------------------------
\* A replica claims what was Detected in the version it saw, and a scan resets
\* what was Processing in the version it listed: both are facts about the
\* history, which stay true however stale the version becomes.
ClaimsWhatItSaw ==
  \A p \in Replicas : handler[p].stage = "claim" =>
    /\ handler[p].ver \in 1..Version(handler[p].rec)
    /\ hist[handler[p].rec][handler[p].ver] = "Detected"

ResetsWhatItListed ==
  \A p \in Replicas : \A item \in scan[p] :
    /\ item[2] \in 1..Version(item[1])
    /\ hist[item[1]][item[2]] = "Processing"

Stale == ClaimsWhatItSaw /\ ResetsWhatItListed

\* The four steps that write a phase; all others leave the histories and the
\* counts of claims and resets alone.
LEMMA Writers ==
  ASSUME [Next]_vars
  PROVE  \/ \E r \in Records : Create(r)
         \/ \E p \in Replicas : ClaimAccepted(p) \/ StatusPut(p)
         \/ \E p \in Replicas : \E item \in scan[p] :
              RecoverReset(p, item[1], item[2])
         \/ UNCHANGED <<hist, claims, resets>>
<1>1. ASSUME NEW p \in Replicas, Handle(p), ~ClaimAccepted(p), ~StatusPut(p)
      PROVE  UNCHANGED <<hist, claims, resets>>
  BY <1>1 DEF Handle, Notify, ClaimRefused, Dispatch, StatusGet, StatusLost,
             server, ghosts
<1>2. ASSUME NEW p \in Replicas, RecoverList(p)
      PROVE  UNCHANGED <<hist, claims, resets>>
  BY <1>2 DEF RecoverList, server, ghosts
<1>3. ASSUME NEW p \in Replicas, NEW item \in scan[p],
             RecoverFailed(p, item[1], item[2])
      PROVE  UNCHANGED <<hist, claims, resets>>
  BY <1>3 DEF RecoverFailed, server, ghosts
<1>4. ASSUME NEW p \in Replicas, Clean(p) \/ Crash(p)
      PROVE  UNCHANGED <<hist, claims, resets>>
  BY <1>4 DEF Clean, CleanList, CleanDelete, CleanFailed, Crash, server, ghosts
<1>5. CASE Tick \/ UNCHANGED vars
  BY <1>5 DEF Tick, vars, ghosts
<1>6. QED
  BY <1>1, <1>2, <1>3, <1>4, <1>5 DEF Next, Recover

\* Histories only grow.
LEMMA HistoriesGrow ==
  ASSUME TypeOK, [Next]_vars, NEW r \in Records
  PROVE  /\ Version(r) \in Nat /\ Len(hist'[r]) \in Nat
         /\ Version(r) <= Len(hist'[r])
         /\ \A v \in 1..Version(r) : hist'[r][v] = hist[r][v]
<1>1. Version(r) \in Nat
  BY LenProperties DEF TypeOK, Version
<1>2. ASSUME NEW q \in Records, NEW phase \in Phases, Write(q, phase)
      PROVE  /\ Len(hist'[r]) \in Nat /\ Version(r) <= Len(hist'[r])
             /\ \A v \in 1..Version(r) : hist'[r][v] = hist[r][v]
  <2>1. CASE q = r
    BY <1>1, <1>2, <2>1, WriteEffect
  <2>2. CASE q # r
    BY <1>1, <1>2, <2>2, WriteEffect DEF Version
  <2>3. QED
    BY <2>1, <2>2
<1>3. ASSUME NEW q \in Records, Create(q) PROVE \E phase \in Phases : Write(q, phase)
  BY <1>3, PhasesWritten DEF Create
<1>4. ASSUME NEW p \in Replicas, ClaimAccepted(p) \/ StatusPut(p)
      PROVE  \E q \in Records : \E phase \in Phases : Write(q, phase)
  <2>1. handler[p].rec \in Records
    BY DEF TypeOK, Handlers
  <2>2. QED
    BY <1>4, <2>1, PhasesWritten DEF ClaimAccepted, StatusPut
<1>5. ASSUME NEW p \in Replicas, NEW item \in scan[p],
             RecoverReset(p, item[1], item[2])
      PROVE  \E q \in Records : \E phase \in Phases : Write(q, phase)
  <2>1. item[1] \in Records
    BY DEF TypeOK
  <2>2. QED
    BY <1>5, <2>1, PhasesWritten DEF RecoverReset
<1>6. CASE UNCHANGED hist
  BY <1>1, <1>6 DEF Version
<1>7. CASE UNCHANGED <<hist, claims, resets>>
  BY <1>6, <1>7
<1>8. CASE \E q \in Records : \E phase \in Phases : Write(q, phase)
  BY <1>1, <1>2, <1>8
<1>9. QED
  BY <1>3, <1>4, <1>5, <1>7, <1>8, Writers

LEMMA StaleInductive == Spec => []Stale
<1>1. Init => Stale
  BY DEF Init, Stale, ClaimsWhatItSaw, ResetsWhatItListed
<1>2. TypeOK /\ TypeOK' /\ Stale /\ [Next]_vars => Stale'
  <2> SUFFICES ASSUME TypeOK, TypeOK', Stale, [Next]_vars PROVE Stale'
    OBVIOUS
  <2>g. \A r \in Records :
          /\ Version(r) \in Nat /\ Len(hist'[r]) \in Nat
          /\ Version(r) <= Len(hist'[r])
          /\ \A v \in 1..Version(r) : hist'[r][v] = hist[r][v]
    BY HistoriesGrow
  <2>1. ClaimsWhatItSaw'
    <3> SUFFICES ASSUME NEW q \in Replicas, handler'[q].stage = "claim"
                 PROVE  /\ handler'[q].ver \in 1..Len(hist'[handler'[q].rec])
                        /\ hist'[handler'[q].rec][handler'[q].ver] = "Detected"
      BY DEF ClaimsWhatItSaw, Version
    <3>1. CASE handler'[q] = handler[q]
      <4>1. handler[q].rec \in Records
        BY DEF TypeOK, Handlers
      <4>2. QED
        BY <2>g, <3>1, <4>1 DEF Stale, ClaimsWhatItSaw
    <3>2. ASSUME NEW r \in Records, NEW v \in 1..Version(r), Notify(q, r, v),
                 handler'[q] # handler[q]
          PROVE  /\ handler'[q].ver \in 1..Len(hist'[handler'[q].rec])
                 /\ hist'[handler'[q].rec][handler'[q].ver] = "Detected"
      <4>1. hist' = hist /\ hist[r][v] = "Detected"
        BY <3>2 DEF Notify, server
      <4>2. handler'[q] = [stage |-> "claim", rec |-> r, ver |-> v, ok |-> FALSE]
        BY <3>2 DEF Notify, TypeOK
      <4>3. QED
        BY <4>1, <4>2 DEF Version
    <3>3. \/ handler'[q] = handler[q]
          \/ \E r \in Records : \E v \in 1..Version(r) : Notify(q, r, v)
      <4>h. handler \in [Replicas -> Handlers]
        BY DEF TypeOK
      <4>1. ASSUME NEW p \in Replicas, NEW s, s # "claim", Goto(p, s)
            PROVE  handler'[q] = handler[q]
        <5>1. p # q
          BY <4>h, <4>1 DEF Goto, Handlers
        <5>2. QED
          BY <4>h, <4>1, <5>1 DEF Goto
      <4>2. ASSUME NEW p \in Replicas, NEW r \in Records, NEW v \in 1..Version(r),
                   Notify(p, r, v), p # q
            PROVE  handler'[q] = handler[q]
        BY <4>2, <4>h DEF Notify
      <4>3. ASSUME NEW p \in Replicas, Dispatch(p) \/ StatusGet(p)
            PROVE  handler'[q] = handler[q]
        <5>1. p # q
          BY <4>h, <4>3 DEF Dispatch, StatusGet, Handlers
        <5>2. QED
          BY <4>h, <4>3, <5>1 DEF Dispatch, StatusGet
      <4>4. ASSUME NEW p \in Replicas, Handle(p),
                   ~ \E r \in Records : \E v \in 1..Version(r) : Notify(p, r, v)
            PROVE  handler'[q] = handler[q]
        BY <4>1, <4>3, <4>4 DEF Handle, ClaimAccepted, ClaimRefused, StatusPut,
                               StatusLost
      <4>5. ASSUME NEW p \in Replicas, Recover(p) \/ Clean(p) \/ Crash(p)
            PROVE  handler'[q] = handler[q]
        BY <4>1, <4>5 DEF Recover, RecoverList, RecoverReset, RecoverFailed, Clean,
                         CleanList, CleanDelete, CleanFailed, Crash
      <4>6. CASE Tick \/ (\E r \in Records : Create(r)) \/ UNCHANGED vars
        BY <4>6 DEF Tick, Create, vars
      <4>7. QED
        BY <4>2, <4>4, <4>5, <4>6 DEF Next
    <3>4. QED
      BY <3>1, <3>2, <3>3
  <2>2. ResetsWhatItListed'
    <3> SUFFICES ASSUME NEW q \in Replicas, NEW item \in scan'[q]
                 PROVE  /\ item[2] \in 1..Len(hist'[item[1]])
                        /\ hist'[item[1]][item[2]] = "Processing"
      BY DEF ResetsWhatItListed, Version
    <3>1. CASE item \in scan[q]
      <4>1. item[1] \in Records
        BY <3>1 DEF TypeOK
      <4>2. QED
        BY <2>g, <3>1, <4>1 DEF Stale, ResetsWhatItListed
    <3>2. CASE RecoverList(q) /\ item \notin scan[q]
      <4>1. PICK r \in Records : /\ Exists(r) /\ Phase(r) = "Processing"
                                 /\ item = <<r, Version(r)>>
        BY <3>2 DEF RecoverList, TypeOK
      <4>2. Version(r) \in 1..Version(r)
        BY <4>1, <2>g, EmptySeq, LenProperties DEF Exists, Version, TypeOK
      <4>3. hist' = hist
        BY <3>2 DEF RecoverList, server
      <4>4. QED
        BY <4>1, <4>2, <4>3 DEF Phase, Version
    <3>3. item \in scan[q] \/ RecoverList(q)
      <4>h. scan \in [Replicas -> SUBSET (Records \X Nat)]
        BY DEF TypeOK
      <4>1. ASSUME NEW p \in Replicas, RecoverList(p), p # q
            PROVE  item \in scan[q]
        BY <4>1, <4>h DEF RecoverList
      <4>2. ASSUME NEW p \in Replicas, NEW x \in scan[p],
                   RecoverReset(p, x[1], x[2]) \/ RecoverFailed(p, x[1], x[2])
            PROVE  item \in scan[q]
        BY <4>2, <4>h DEF RecoverReset, RecoverFailed
      <4>3. ASSUME NEW p \in Replicas, Handle(p) \/ Clean(p)
            PROVE  item \in scan[q]
        <5>1. scan' = scan
          BY <4>3 DEF Handle, Notify, ClaimAccepted, ClaimRefused, Dispatch,
               StatusGet, StatusPut, StatusLost, Clean, CleanList, CleanDelete,
               CleanFailed
        <5>2. QED
          BY <5>1
      <4>4. ASSUME NEW p \in Replicas, Crash(p)
            PROVE  item \in scan[q]
        BY <4>4, <4>h DEF Crash
      <4>5. CASE Tick \/ (\E r \in Records : Create(r)) \/ UNCHANGED vars
        BY <4>5 DEF Tick, Create, vars
      <4>6. QED
        BY <4>1, <4>2, <4>3, <4>4, <4>5 DEF Next, Recover
    <3>4. QED
      BY <3>1, <3>2, <3>3
  <2>3. QED
    BY <2>1, <2>2 DEF Stale
<1>3. QED
  BY <1>1, <1>2, TypeCorrect, PTL DEF Spec

----------------------------------------------------------------------------
Ended(r) == hist[r] # <<>> /\ Phase(r) \in Terminal

\* An accepted claim or reset was prepared on the record's newest version, so
\* that the record is Detected, or Processing, when it is accepted.
LEMMA AcceptedOnNewest ==
  ASSUME TypeOK, Stale
  PROVE  /\ \A p \in Replicas : ClaimAccepted(p) => Phase(handler[p].rec) = "Detected"
         /\ \A p \in Replicas : \A item \in scan[p] :
              RecoverReset(p, item[1], item[2]) => Phase(item[1]) = "Processing"
BY DEF ClaimAccepted, RecoverReset, Accepts, Phase, Stale, ClaimsWhatItSaw,
       ResetsWhatItListed

\* No step takes a record out of its terminal phase.
LEMMA EndedStays ==
  ASSUME TypeOK, Stale, [Next]_vars, NEW r \in Records, Ended(r)
  PROVE  Ended(r)'
<1> USE DEF Ended
<1>1. ASSUME NEW q \in Records, Create(q) PROVE Ended(r)'
  <2>1. q # r
    BY <1>1 DEF Create
  <2>2. hist'[r] = hist[r]
    BY <1>1, <2>1, WriteEffect, PhasesWritten DEF Create
  <2>3. QED
    BY <2>2 DEF Phase, Version
<1>2. ASSUME NEW p \in Replicas, ClaimAccepted(p) PROVE Ended(r)'
  <2>1. handler[p].rec \in Records /\ handler[p].rec # r
    BY <1>2, AcceptedOnNewest DEF TypeOK, Handlers, Terminal
  <2>2. hist'[r] = hist[r]
    BY <1>2, <2>1, WriteEffect, PhasesWritten DEF ClaimAccepted
  <2>3. QED
    BY <2>2 DEF Phase, Version
<1>3. ASSUME NEW p \in Replicas, StatusPut(p) PROVE Ended(r)'
  <2>1. handler[p].rec \in Records
    BY DEF TypeOK, Handlers
  <2>2. PICK outcome \in Terminal : Write(handler[p].rec, outcome)
    BY <1>3 DEF StatusPut, Terminal
  <2>3. outcome \in Phases
    BY DEF Phases
  <2>4. CASE handler[p].rec = r
    <3>1. hist'[r] # <<>> /\ hist'[r][Len(hist'[r])] = outcome
      BY <2>2, <2>3, <2>4, WriteEffect
    <3>2. QED
      BY <3>1 DEF Phase, Version
  <2>5. CASE handler[p].rec # r
    <3>1. hist'[r] = hist[r]
      BY <2>1, <2>2, <2>3, <2>5, WriteEffect
    <3>2. QED
      BY <3>1 DEF Phase, Version
  <2>6. QED
    BY <2>4, <2>5
<1>4. ASSUME NEW p \in Replicas, NEW item \in scan[p],
             RecoverReset(p, item[1], item[2])
      PROVE  Ended(r)'
  <2>1. item[1] \in Records
    BY DEF TypeOK
  <2>2. Phase(item[1]) = "Processing"
    BY <1>4, AcceptedOnNewest
  <2>3. item[1] # r
    BY <2>2 DEF Terminal
  <2>4. hist'[r] = hist[r]
    BY <1>4, <2>1, <2>3, WriteEffect, PhasesWritten DEF RecoverReset
  <2>5. QED
    BY <2>4 DEF Phase, Version
<1>5. CASE UNCHANGED <<hist, claims, resets>>
  BY <1>5 DEF Phase, Version
<1>6. QED
  BY <1>1, <1>2, <1>3, <1>4, <1>5, Writers

\* What the cleaner listed, and what it deleted, has ended.
Swept ==
  /\ \A p \in Replicas : \A r \in sweep[p] : Ended(r)
  /\ \A r \in gone : Ended(r)

LEMMA SweptInductive == Spec => []Swept
<1>1. Init => Swept
  BY DEF Init, Swept
<1>2. TypeOK /\ Stale /\ Swept /\ [Next]_vars => Swept'
  <2> SUFFICES ASSUME TypeOK, Stale, Swept, [Next]_vars PROVE Swept'
    OBVIOUS
  <2>h. sweep \in [Replicas -> SUBSET Records] /\ gone \subseteq Records
    BY DEF TypeOK
  <2>1. ASSUME NEW q \in Replicas, NEW r \in sweep'[q]
        PROVE  Ended(r)'
    <3>1. CASE r \in sweep[q]
      BY <2>h, <3>1, EndedStays DEF Swept
    <3>2. CASE CleanList(q)
      <4>1. r \in sweep[q] \/ (r \in Records /\ Ended(r))
        BY <2>h, <3>2 DEF CleanList, Ended, Exists
      <4>2. QED
        BY <3>1, <4>1, EndedStays
    <3>3. r \in sweep[q] \/ CleanList(q)
      <4>1. ASSUME NEW p \in Replicas, CleanList(p), p # q
            PROVE  r \in sweep[q]
        BY <2>h, <4>1 DEF CleanList
      <4>2. ASSUME NEW p \in Replicas, NEW x \in sweep[p],
                   CleanDelete(p, x) \/ CleanFailed(p, x)
            PROVE  r \in sweep[q]
        BY <2>h, <4>2 DEF CleanDelete, CleanFailed
      <4>3. ASSUME NEW p \in Replicas, Handle(p) \/ Recover(p)
            PROVE  r \in sweep[q]
        <5>1. sweep' = sweep
          BY <4>3 DEF Handle, Notify, ClaimAccepted, ClaimRefused, Dispatch,
               StatusGet, StatusPut, StatusLost, Recover, RecoverList,
               RecoverReset, RecoverFailed
        <5>2. QED
          BY <5>1
      <4>4. ASSUME NEW p \in Replicas, Crash(p)
            PROVE  r \in sweep[q]
        BY <2>h, <4>4 DEF Crash
      <4>5. CASE Tick \/ (\E x \in Records : Create(x)) \/ UNCHANGED vars
        BY <4>5 DEF Tick, Create, vars
      <4>6. QED
        BY <4>1, <4>2, <4>3, <4>4, <4>5 DEF Next, Clean
    <3>4. QED
      BY <3>1, <3>2, <3>3
  <2>2. ASSUME NEW r \in gone' PROVE Ended(r)'
    <3>1. r \in gone \/ \E p \in Replicas : r \in sweep[p]
      <4>1. ASSUME NEW p \in Replicas, NEW x \in sweep[p], CleanDelete(p, x)
            PROVE  r \in gone \/ \E q \in Replicas : r \in sweep[q]
        BY <4>1 DEF CleanDelete
      <4>2. ASSUME NEW p \in Replicas, Handle(p) \/ Recover(p) \/ Crash(p)
            PROVE  gone' = gone
        BY <4>2 DEF Handle, Notify, ClaimAccepted, ClaimRefused, Dispatch,
             StatusGet, StatusPut, StatusLost, Recover, RecoverList,
             RecoverReset, RecoverFailed, Crash, server
      <4>3. ASSUME NEW p \in Replicas, NEW x \in sweep[p], CleanFailed(p, x)
            PROVE  gone' = gone
        BY <4>3 DEF CleanFailed, server
      <4>4. ASSUME NEW p \in Replicas, CleanList(p) PROVE gone' = gone
        BY <4>4 DEF CleanList, server
      <4>5. CASE Tick \/ (\E x \in Records : Create(x)) \/ UNCHANGED vars
        BY <4>5 DEF Tick, Create, vars
      <4>6. QED
        BY <4>1, <4>2, <4>3, <4>4, <4>5 DEF Next, Clean
    <3>2. QED
      BY <2>h, <3>1, EndedStays DEF Swept
  <2>3. QED
    BY <2>1, <2>2 DEF Swept
<1>3. QED
  BY <1>1, <1>2, TypeCorrect, StaleInductive, PTL DEF Spec

\* The cleaner deletes by name what it listed a while ago, and nothing that was
\* not dispatched to the end: a terminal phase is never left.
THEOREM DeletedOnlyTerminal == Spec => []DeletedWasTerminal
<1>1. Swept => DeletedWasTerminal
  BY DEF Swept, Ended, DeletedWasTerminal
<1>2. QED
  BY <1>1, SweptInductive, PTL

\* No late claim, no reset from a stale list and no crash sends a record that
\* was settled back to be dispatched again.
THEOREM TerminalIsFinal == Spec => TerminalStays
<1>1. TypeOK /\ Stale /\ [Next]_vars =>
        [\A r \in Records :
           Exists(r) /\ Phase(r) \in Terminal
             => hist'[r][Len(hist'[r])] \in Terminal]_vars
  BY EndedStays DEF Exists, Ended, Phase, Version
<1>2. QED
  BY <1>1, TypeCorrect, StaleInductive, PTL DEF Spec, TerminalStays

----------------------------------------------------------------------------
Claimed == {"dispatch", "get", "put"}
Reporting == {"get", "put"}

\* How a handler moves on.
LEMMA HandlerSteps ==
  ASSUME TypeOK, [Next]_vars, NEW q \in Replicas
  PROVE  \/ handler'[q] = handler[q]
         \/ handler'[q].stage \notin Claimed
         \/ /\ ClaimAccepted(q)
            /\ handler'[q].stage = "dispatch" /\ handler'[q].rec = handler[q].rec
         \/ /\ Dispatch(q)
            /\ handler'[q].stage = "get" /\ handler'[q].rec = handler[q].rec
         \/ /\ StatusGet(q)
            /\ handler[q].stage = "get" /\ handler'[q].rec = handler[q].rec
            /\ handler'[q].ok = handler[q].ok
<1>h. handler \in [Replicas -> Handlers]
  BY DEF TypeOK
<1>1. ASSUME NEW p \in Replicas, NEW s, Goto(p, s)
      PROVE  /\ p # q => handler'[q] = handler[q]
             /\ handler'[p].stage = s /\ handler'[p].rec = handler[p].rec
  BY <1>h, <1>1 DEF Goto, Handlers
<1>2. ASSUME NEW p \in Replicas, p # q, Handle(p)
      PROVE  handler'[q] = handler[q]
  BY <1>h, <1>1, <1>2 DEF Handle, Notify, ClaimAccepted, ClaimRefused, Dispatch,
       StatusGet, StatusPut, StatusLost
<1>3. ASSUME NEW r \in Records, NEW v \in 1..Version(r), Notify(q, r, v)
      PROVE  handler'[q] = handler[q] \/ handler'[q].stage = "claim"
  BY <1>h, <1>3 DEF Notify
<1>4. CASE ClaimAccepted(q)
  BY <1>1, <1>4 DEF ClaimAccepted, Claimed
<1>5. CASE ClaimRefused(q) \/ StatusPut(q) \/ StatusLost(q)
  BY <1>1, <1>5 DEF ClaimRefused, StatusPut, StatusLost, Claimed
<1>6. CASE Dispatch(q)
  BY <1>h, <1>6 DEF Dispatch, Handlers
<1>7. CASE StatusGet(q)
  BY <1>h, <1>7 DEF StatusGet, Handlers
<1>8. ASSUME NEW p \in Replicas, Recover(p) \/ Clean(p)
      PROVE  handler'[q] = handler[q]
  BY <1>8 DEF Recover, RecoverList, RecoverReset, RecoverFailed, Clean, CleanList,
       CleanDelete, CleanFailed
<1>9. ASSUME NEW p \in Replicas, Crash(p)
      PROVE  handler'[q] = handler[q] \/ handler'[q].stage = "idle"
  BY <1>1, <1>9 DEF Crash
<1>10. CASE Tick \/ (\E r \in Records : Create(r)) \/ UNCHANGED vars
  BY <1>10 DEF Tick, Create, vars
<1>11. CASE Handle(q)
  BY <1>3, <1>4, <1>5, <1>6, <1>7, <1>11 DEF Handle, Claimed
<1>12. QED
  BY <1>2, <1>8, <1>9, <1>10, <1>11 DEF Next, Claimed

\* The books of a record: without a reset it is claimed at most once, and while
\* it is open for a claim every claim so far was taken back by a reset.
Balanced(r) ==
  /\ claims[r] <= 1 + resets[r]
  /\ hist[r] = <<>> \/ Phase(r) = "" => claims[r] = 0
  /\ hist[r] # <<>> /\ Phase(r) = "Detected" => claims[r] <= resets[r]

Accounts ==
  /\ \A r \in Records : Balanced(r)
  /\ \A p \in Replicas :
       handler[p].stage \in Claimed => claims[handler[p].rec] > 0

LEMMA AccountsInductive == Spec => []Accounts
<1>1. Init => Accounts
  BY DEF Init, Accounts, Balanced, Claimed
<1>2. TypeOK /\ TypeOK' /\ Stale /\ Accounts /\ [Next]_vars => Accounts'
  <2> SUFFICES ASSUME TypeOK, TypeOK', Stale, Accounts, [Next]_vars
               PROVE  Accounts'
    OBVIOUS
  <2>n. \A r \in Records : claims[r] \in Nat /\ resets[r] \in Nat
    BY RecordAssumption DEF TypeOK
  <2>t. claims \in [Records -> Nat] /\ resets \in [Records -> 0..MaxResets]
    BY DEF TypeOK
  <2>m. /\ \A r \in Records : claims'[r] >= claims[r]
        /\ \A p \in Replicas : ClaimAccepted(p) =>
             /\ handler[p].rec \in Records
             /\ claims' = [claims EXCEPT ![handler[p].rec] =
                           claims[handler[p].rec] + 1]
    <3>1. ASSUME NEW p \in Replicas, ClaimAccepted(p)
          PROVE  /\ handler[p].rec \in Records
                 /\ claims' = [claims EXCEPT ![handler[p].rec] =
                               claims[handler[p].rec] + 1]
      BY <3>1 DEF ClaimAccepted, TypeOK, Handlers
    <3>2. ASSUME NEW p \in Replicas, ClaimAccepted(p), NEW r \in Records
          PROVE  claims'[r] >= claims[r]
      BY <2>n, <2>t, <3>1, <3>2
    <3>3. ASSUME NEW r \in Records, UNCHANGED claims
          PROVE  claims'[r] >= claims[r]
      BY <2>n, <3>3
    <3>4. UNCHANGED claims \/ \E p \in Replicas : ClaimAccepted(p)
      BY Writers DEF Create, StatusPut, RecoverReset, ghosts
    <3>5. QED
      BY <3>1, <3>2, <3>3, <3>4
  <2>1. ASSUME NEW r \in Records PROVE Balanced(r)'
    <3>b. Balanced(r)
      BY DEF Accounts
    <3>1. ASSUME NEW q \in Records, Create(q) PROVE Balanced(r)'
      <4>1. UNCHANGED <<claims, resets>>
        BY <3>1 DEF Create, ghosts
      <4>2. CASE q = r
        <5>1. claims[r] = 0
          BY <3>1, <3>b, <4>2 DEF Create, Balanced
        <5>2. QED
          BY <2>n, <4>1, <5>1 DEF Balanced
      <4>3. CASE q # r
        <5>1. hist'[r] = hist[r]
          BY <3>1, <4>3, WriteEffect, PhasesWritten DEF Create
        <5>2. QED
          BY <3>b, <4>1, <5>1 DEF Balanced, Phase, Version
      <4>4. QED
        BY <4>2, <4>3
    <3>2. ASSUME NEW p \in Replicas, ClaimAccepted(p) PROVE Balanced(r)'
      <4>1. handler[p].rec \in Records /\ resets' = resets
        BY <2>m, <3>2 DEF ClaimAccepted
      <4>2. CASE handler[p].rec = r
        <5>1. hist'[r] # <<>> /\ hist'[r][Len(hist'[r])] = "Processing"
          BY <3>2, <4>2, WriteEffect, PhasesWritten DEF ClaimAccepted
        <5>2. hist[r] # <<>> /\ Phase(r) = "Detected"
          BY <3>2, <4>2, AcceptedOnNewest DEF ClaimAccepted, Accepts, Exists
        <5>3. claims'[r] = claims[r] + 1
          BY <2>m, <2>t, <3>2, <4>2
        <5>4. claims'[r] <= 1 + resets'[r]
          BY <2>n, <3>b, <4>1, <5>2, <5>3 DEF Balanced
        <5>5. QED
          BY <5>1, <5>4 DEF Balanced, Phase, Version
      <4>3. CASE handler[p].rec # r
        <5>1. hist'[r] = hist[r]
          BY <3>2, <4>1, <4>3, WriteEffect, PhasesWritten DEF ClaimAccepted
        <5>2. claims'[r] = claims[r]
          BY <2>m, <2>t, <3>2, <4>3
        <5>3. QED
          BY <3>b, <4>1, <5>1, <5>2 DEF Balanced, Phase, Version
      <4>4. QED
        BY <4>2, <4>3
    <3>3. ASSUME NEW p \in Replicas, StatusPut(p) PROVE Balanced(r)'
      <4>1. UNCHANGED <<claims, resets>>
        BY <3>3 DEF StatusPut, ghosts
      <4>2. PICK outcome \in Phases : /\ Write(handler[p].rec, outcome)
                                      /\ outcome \in Terminal
        BY <3>3 DEF StatusPut, Phases, Terminal
      <4>3. handler[p].rec \in Records
        BY DEF TypeOK, Handlers
      <4>4. CASE handler[p].rec = r
        <5>1. hist'[r] # <<>> /\ hist'[r][Len(hist'[r])] = outcome
          BY <4>2, <4>4, WriteEffect
        <5>2. outcome # "" /\ outcome # "Detected"
          BY <4>2 DEF Terminal
        <5>3. QED
          BY <3>b, <4>1, <5>1, <5>2 DEF Balanced, Phase, Version
      <4>5. CASE handler[p].rec # r
        <5>1. hist'[r] = hist[r]
          BY <4>2, <4>3, <4>5, WriteEffect
        <5>2. QED
          BY <3>b, <4>1, <5>1 DEF Balanced, Phase, Version
      <4>6. QED
        BY <4>4, <4>5
    <3>4. ASSUME NEW p \in Replicas, NEW item \in scan[p],
                 RecoverReset(p, item[1], item[2])
          PROVE  Balanced(r)'
      <4>1. item[1] \in Records
        BY DEF TypeOK
      <4>2. /\ claims' = claims
            /\ resets' = [resets EXCEPT ![item[1]] = resets[item[1]] + 1]
        BY <3>4 DEF RecoverReset
      <4>3. CASE item[1] = r
        <5>1. hist'[r] # <<>> /\ hist'[r][Len(hist'[r])] = "Detected"
          BY <3>4, <4>3, WriteEffect, PhasesWritten DEF RecoverReset
        <5>2. resets'[r] = resets[r] + 1 /\ claims'[r] = claims[r]
          BY <2>t, <4>2, <4>3
        <5>3. claims'[r] <= resets'[r] /\ claims'[r] <= 1 + resets'[r]
          <6>1. claims[r] \in Nat /\ resets[r] \in Nat
            BY <2>n
          <6>2. claims[r] <= 1 + resets[r]
            BY <3>b DEF Balanced
          <6>3. QED
            BY <5>2, <6>1, <6>2
        <5>4. QED
          BY <5>1, <5>3 DEF Balanced, Phase, Version
      <4>4. CASE item[1] # r
        <5>1. hist'[r] = hist[r]
          BY <3>4, <4>1, <4>4, WriteEffect, PhasesWritten DEF RecoverReset
        <5>2. resets'[r] = resets[r]
          BY <2>t, <4>2, <4>4
        <5>3. QED
          BY <3>b, <4>2, <5>1, <5>2 DEF Balanced, Phase, Version
      <4>5. QED
        BY <4>3, <4>4
    <3>5. CASE UNCHANGED <<hist, claims, resets>>
      BY <3>5, <3>b DEF Balanced, Phase, Version
    <3>6. QED
      BY <3>1, <3>2, <3>3, <3>4, <3>5, Writers
  <2>2. ASSUME NEW q \in Replicas, handler'[q].stage \in Claimed
        PROVE  claims'[handler'[q].rec] > 0
    <3>1. handler[q].rec \in Records
      BY DEF TypeOK, Handlers
    <3>2. CASE /\ handler'[q].rec = handler[q].rec
               /\ handler[q].stage \in Claimed
      <4>1. claims[handler[q].rec] > 0
        BY <3>2 DEF Accounts
      <4>2. claims'[handler[q].rec] \in Nat
        BY <3>1 DEF TypeOK
      <4>3. claims'[handler[q].rec] >= claims[handler[q].rec]
        BY <2>m, <3>1
      <4>4. claims'[handler[q].rec] > 0
        BY <2>n, <3>1, <4>1, <4>2, <4>3
      <4>5. QED
        BY <3>2, <4>4
    <3>3. CASE ClaimAccepted(q) /\ handler'[q].rec = handler[q].rec
      BY <2>n, <2>t, <2>m, <3>1, <3>3
    <3>4. QED
      BY <2>2, <3>2, <3>3, HandlerSteps DEF Dispatch, Claimed
  <2>3. QED
    BY <2>1, <2>2 DEF Accounts
<1>3. QED
  BY <1>1, <1>2, TypeCorrect, StaleInductive, PTL DEF Spec

\* However many replicas see a record as Detected, late notifications included,
\* it is claimed at most once more often than recovery reset it.
THEOREM ClaimsAreExclusive == Spec => []ClaimsBounded
<1>1. Accounts => ClaimsBounded
  BY DEF Accounts, Balanced, ClaimsBounded
<1>2. QED
  BY <1>1, AccountsInductive, PTL

----------------------------------------------------------------------------
\* A handler reports what its own dispatch returned.
Earned ==
  /\ OutcomeIsEarned
  /\ \A p \in Replicas : handler[p].stage \in Reporting =>
       handler[p].ok \in outcomes[handler[p].rec]

\* A record that says Dispatched was dispatched without error, one that says
\* Failed failed once, whoever wrote last.
THEOREM OutcomesAreEarned == Spec => []OutcomeIsEarned
<1>1. Init => Earned
  BY DEF Init, Earned, OutcomeIsEarned, Reporting
<1>2. TypeOK /\ Stale /\ Earned /\ [Next]_vars => Earned'
  <2> SUFFICES ASSUME TypeOK, Stale, Earned, [Next]_vars PROVE Earned'
    OBVIOUS
  <2>h. \A p \in Replicas : handler[p].rec \in Records /\ handler[p].ok \in BOOLEAN
    BY DEF TypeOK, Handlers
  <2>m. \A r \in Records : outcomes[r] \subseteq outcomes'[r]
    <3>1. ASSUME NEW p \in Replicas, Dispatch(p), NEW r \in Records
          PROVE  outcomes[r] \subseteq outcomes'[r]
      <4>1. outcomes \in [Records -> SUBSET BOOLEAN]
        BY DEF TypeOK
      <4>2. PICK ok \in BOOLEAN : outcomes' = [outcomes EXCEPT ![handler[p].rec] =
                                              outcomes[handler[p].rec] \cup {ok}]
        BY <3>1 DEF Dispatch
      <4>3. QED
        BY <4>1, <4>2
    <3>2. ASSUME NEW p \in Replicas, Handle(p), ~Dispatch(p)
          PROVE  outcomes' = outcomes
      BY <3>2 DEF Handle, Notify, ClaimAccepted, ClaimRefused, StatusGet,
           StatusPut, StatusLost, ghosts
    <3>3. ASSUME NEW p \in Replicas, Recover(p) \/ Clean(p) \/ Crash(p)
          PROVE  outcomes' = outcomes
      BY <3>3 DEF Recover, RecoverList, RecoverReset, RecoverFailed, Clean,
           CleanList, CleanDelete, CleanFailed, Crash, ghosts
    <3>4. CASE Tick \/ (\E r \in Records : Create(r)) \/ UNCHANGED vars
      BY <3>4 DEF Tick, Create, vars, ghosts
    <3>5. QED
      BY <3>1, <3>2, <3>3, <3>4 DEF Next
  <2>1. ASSUME NEW r \in Records, hist'[r] # <<>>
        PROVE  /\ hist'[r][Len(hist'[r])] = "Dispatched" => TRUE \in outcomes'[r]
               /\ hist'[r][Len(hist'[r])] = "Failed" => FALSE \in outcomes'[r]
    <3>1. CASE hist'[r] = hist[r]
      BY <2>1, <2>m, <3>1 DEF Earned, OutcomeIsEarned, Phase, Version
    <3>2. CASE hist'[r][Len(hist'[r])] \notin Terminal
      BY <3>2 DEF Terminal
    <3>3. ASSUME NEW p \in Replicas, StatusPut(p), handler[p].rec = r
          PROVE  /\ hist'[r][Len(hist'[r])] = "Dispatched" => TRUE \in outcomes'[r]
                 /\ hist'[r][Len(hist'[r])] = "Failed" => FALSE \in outcomes'[r]
      <4>1. handler[p].ok \in outcomes'[r]
        BY <2>m, <2>h, <3>3 DEF Earned, Reporting, StatusPut
      <4>2. Write(r, IF handler[p].ok THEN "Dispatched" ELSE "Failed")
        BY <3>3 DEF StatusPut
      <4>3. CASE handler[p].ok = TRUE
        <5>1. Write(r, "Dispatched")
          BY <4>2, <4>3
        <5>2. hist'[r][Len(hist'[r])] = "Dispatched"
          BY <5>1, WriteEffect, PhasesWritten
        <5>3. QED
          BY <4>1, <4>3, <5>2
      <4>4. CASE handler[p].ok = FALSE
        <5>1. Write(r, "Failed")
          BY <4>2, <4>4
        <5>2. hist'[r][Len(hist'[r])] = "Failed"
          BY <5>1, WriteEffect, PhasesWritten
        <5>3. QED
          BY <4>1, <4>4, <5>2
      <4>5. QED
        BY <2>h, <4>3, <4>4
    <3>4. ASSUME NEW p \in Replicas, StatusPut(p), handler[p].rec # r
          PROVE  hist'[r] = hist[r]
      <4>1. PICK outcome \in Phases : Write(handler[p].rec, outcome)
        BY <3>4 DEF StatusPut, Phases, Terminal
      <4>2. QED
        BY <2>h, <3>4, <4>1, WriteEffect
    <3>5. ASSUME NEW q \in Records, NEW phase \in Phases, Write(q, phase),
                 phase \notin Terminal
          PROVE  hist'[r] = hist[r] \/ hist'[r][Len(hist'[r])] \notin Terminal
      BY <3>5, WriteEffect
    <3>6. InitialPhase \notin Terminal /\ "Processing" \notin Terminal
            /\ "Detected" \notin Terminal
      BY DEF InitialPhase, Terminal
    <3>7. ASSUME NEW q \in Records, Create(q)
          PROVE  hist'[r] = hist[r] \/ hist'[r][Len(hist'[r])] \notin Terminal
      BY <3>5, <3>6, <3>7, PhasesWritten DEF Create
    <3>8. ASSUME NEW p \in Replicas, ClaimAccepted(p)
          PROVE  hist'[r] = hist[r] \/ hist'[r][Len(hist'[r])] \notin Terminal
      BY <2>h, <3>5, <3>6, <3>8, PhasesWritten DEF ClaimAccepted
    <3>9. ASSUME NEW p \in Replicas, NEW item \in scan[p],
                 RecoverReset(p, item[1], item[2])
          PROVE  hist'[r] = hist[r] \/ hist'[r][Len(hist'[r])] \notin Terminal
      <4>1. item[1] \in Records
        BY DEF TypeOK
      <4>2. QED
        BY <3>5, <3>6, <3>9, <4>1, PhasesWritten DEF RecoverReset
    <3>10. CASE UNCHANGED <<hist, claims, resets>>
      BY <3>1, <3>10
    <3>11. QED
      BY <3>1, <3>2, <3>3, <3>4, <3>7, <3>8, <3>9, <3>10, Writers
  <2>2. ASSUME NEW q \in Replicas, handler'[q].stage \in Reporting
        PROVE  handler'[q].ok \in outcomes'[handler'[q].rec]
    <3>1. CASE handler'[q] = handler[q]
      BY <2>2, <2>m, <2>h, <3>1 DEF Earned
    <3>2. CASE Dispatch(q) /\ handler'[q].rec = handler[q].rec
      <4>1. handler \in [Replicas -> Handlers]
              /\ outcomes \in [Records -> SUBSET BOOLEAN]
        BY DEF TypeOK
      <4>2. PICK ok \in BOOLEAN :
              /\ handler' = [handler EXCEPT ![q].stage = "get", ![q].ok = ok]
              /\ outcomes' = [outcomes EXCEPT ![handler[q].rec] =
                              outcomes[handler[q].rec] \cup {ok}]
        BY <3>2 DEF Dispatch
      <4>3. handler'[q].ok = ok
        BY <4>1, <4>2 DEF Handlers
      <4>4. ok \in outcomes'[handler[q].rec]
        BY <2>h, <4>1, <4>2
      <4>5. QED
        BY <3>2, <4>3, <4>4
    <3>3. CASE /\ handler[q].stage = "get" /\ handler'[q].rec = handler[q].rec
               /\ handler'[q].ok = handler[q].ok
      BY <2>m, <2>h, <3>3 DEF Earned, Reporting
    <3>4. QED
      BY <2>2, <3>1, <3>2, <3>3, HandlerSteps DEF Reporting, Claimed
  <2>3. QED
    BY <2>1, <2>2 DEF Earned, OutcomeIsEarned, Phase, Version
<1>3. Earned => OutcomeIsEarned
  BY DEF Earned
<1>4. QED
  BY <1>1, <1>2, <1>3, TypeCorrect, StaleInductive, PTL DEF Spec

----------------------------------------------------------------------------
\* The replicas about to dispatch r.
Dispatching(r) ==
  {p \in Replicas : handler[p].stage = "dispatch" /\ handler[p].rec = r}

\* Every call of DispatchEvent, made or about to be made, was paid for by a
\* claim of its own.
Paid == \A r \in Records :
  dispatches[r] + Cardinality(Dispatching(r)) <= claims[r]

LEMMA PaidInductive == Spec => []Paid
<1>f. \A r \in Records : IsFiniteSet(Dispatching(r))
  BY RecordAssumption, FS_Subset DEF Dispatching
<1>c. \A r \in Records : Cardinality(Dispatching(r)) \in Nat
  BY <1>f, FS_CardinalityType
<1>1. Init => Paid
  <2> SUFFICES ASSUME Init, NEW r \in Records
               PROVE  dispatches[r] + Cardinality(Dispatching(r)) <= claims[r]
    BY DEF Paid
  <2>1. Dispatching(r) = {}
    BY DEF Init, Dispatching
  <2>2. Cardinality(Dispatching(r)) = 0
    BY <2>1, FS_EmptySet
  <2>3. QED
    BY <2>2 DEF Init
<1>2. TypeOK /\ TypeOK' /\ Paid /\ [Next]_vars => Paid'
  <2> SUFFICES ASSUME TypeOK, TypeOK', Paid, [Next]_vars, NEW r \in Records
               PROVE  dispatches'[r] + Cardinality(Dispatching(r)') <= claims'[r]
    BY DEF Paid
  <2>h. handler \in [Replicas -> Handlers]
    BY DEF TypeOK
  <2>n. /\ dispatches[r] \in Nat /\ claims[r] \in Nat
        /\ Cardinality(Dispatching(r)) \in Nat
        /\ dispatches[r] + Cardinality(Dispatching(r)) <= claims[r]
    BY <1>c DEF TypeOK, Paid
  <2>t. claims \in [Records -> Nat] /\ dispatches \in [Records -> Nat]
    BY DEF TypeOK
  <2>f. IsFiniteSet(Dispatching(r)')
    BY RecordAssumption, FS_Subset DEF Dispatching
  <2>s. ASSUME Dispatching(r)' \subseteq Dispatching(r),
               dispatches'[r] = dispatches[r], claims'[r] = claims[r]
        PROVE  dispatches'[r] + Cardinality(Dispatching(r)') <= claims'[r]
    <3>1. Cardinality(Dispatching(r)') <= Cardinality(Dispatching(r))
      BY <1>f, <2>s, FS_Subset
    <3>2. Cardinality(Dispatching(r)') \in Nat
      BY <2>f, FS_CardinalityType
    <3>3. QED
      BY <2>n, <2>s, <3>1, <3>2
  <2>q. ASSUME NEW q \in Dispatching(r)', q \notin Dispatching(r)
        PROVE  ClaimAccepted(q) /\ handler[q].rec = r
    <3>1. /\ q \in Replicas /\ handler'[q].stage = "dispatch"
          /\ handler'[q].rec = r
      BY <2>q DEF Dispatching
    <3>2. handler'[q] # handler[q]
      BY <2>q, <3>1 DEF Dispatching
    <3>3. ASSUME StatusGet(q) PROVE handler'[q].stage = "put"
      BY <2>h, <3>1, <3>3 DEF StatusGet, Handlers
    <3>4. QED
      BY <3>1, <3>2, <3>3, HandlerSteps DEF Claimed
  <2>1. ASSUME NEW p \in Replicas, ClaimAccepted(p)
        PROVE  dispatches'[r] + Cardinality(Dispatching(r)') <= claims'[r]
    <3>1. dispatches' = dispatches /\ handler[p].rec \in Records
      BY <2>1 DEF ClaimAccepted, TypeOK, Handlers
    <3>2. \A q \in Replicas \ {p} : handler'[q] = handler[q]
      BY <2>1, <2>h DEF ClaimAccepted, Goto
    <3>3. CASE handler[p].rec = r
      <4>1. claims'[r] = claims[r] + 1
        BY <2>1, <2>t, <3>3 DEF ClaimAccepted
      <4>2. Dispatching(r)' \subseteq Dispatching(r) \cup {p}
        BY <3>2 DEF Dispatching
      <4>3. /\ IsFiniteSet(Dispatching(r) \cup {p})
            /\ Cardinality(Dispatching(r) \cup {p})
                 <= Cardinality(Dispatching(r)) + 1
            /\ Cardinality(Dispatching(r) \cup {p}) \in Nat
        <5>1. IsFiniteSet(Dispatching(r))
          BY <1>f
        <5>2. /\ IsFiniteSet(Dispatching(r) \cup {p})
              /\ Cardinality(Dispatching(r) \cup {p}) =
                   IF p \in Dispatching(r) THEN Cardinality(Dispatching(r))
                   ELSE Cardinality(Dispatching(r)) + 1
          BY <5>1, FS_AddElement
        <5>3. QED
          BY <2>n, <5>2
      <4>4. /\ Cardinality(Dispatching(r)')
                 <= Cardinality(Dispatching(r) \cup {p})
            /\ Cardinality(Dispatching(r)') \in Nat
        BY <2>f, <4>2, <4>3, FS_Subset, FS_CardinalityType
      <4>5. QED
        BY <2>n, <3>1, <4>1, <4>3, <4>4
    <3>4. CASE handler[p].rec # r
      <4>1. claims'[r] = claims[r]
        BY <2>1, <2>t, <3>1, <3>4 DEF ClaimAccepted
      <4>2. p \notin Dispatching(r)'
        BY <2>1, <2>h, <3>4 DEF ClaimAccepted, Goto, Dispatching, Handlers
      <4>3. Dispatching(r)' \subseteq Dispatching(r)
        BY <3>2, <4>2 DEF Dispatching
      <4>4. QED
        BY <2>s, <3>1, <4>1, <4>3
    <3>5. QED
      BY <3>3, <3>4
  <2>2. ASSUME NEW p \in Replicas, Dispatch(p)
        PROVE  dispatches'[r] + Cardinality(Dispatching(r)') <= claims'[r]
    <3>1. claims' = claims /\ handler[p].rec \in Records
      BY <2>2 DEF Dispatch, TypeOK, Handlers
    <3>2. \A q \in Replicas \ {p} : handler'[q] = handler[q]
      BY <2>2, <2>h DEF Dispatch
    <3>3. p \notin Dispatching(r)'
      BY <2>2, <2>h DEF Dispatch, Dispatching, Handlers
    <3>4. CASE handler[p].rec = r
      <4>1. dispatches'[r] = dispatches[r] + 1
        BY <2>2, <2>t, <3>4 DEF Dispatch
      <4>2. p \in Dispatching(r)
        BY <2>2, <3>4 DEF Dispatch, Dispatching
      <4>3. Dispatching(r)' \subseteq Dispatching(r) \ {p}
        BY <3>2, <3>3 DEF Dispatching
      <4>4. /\ IsFiniteSet(Dispatching(r) \ {p})
            /\ Cardinality(Dispatching(r) \ {p}) = Cardinality(Dispatching(r)) - 1
            /\ Cardinality(Dispatching(r) \ {p}) \in Nat
        BY <1>f, <4>2, FS_RemoveElement, FS_CardinalityType
      <4>5. /\ Cardinality(Dispatching(r)')
                 <= Cardinality(Dispatching(r) \ {p})
            /\ Cardinality(Dispatching(r)') \in Nat
        BY <2>f, <4>3, <4>4, FS_Subset, FS_CardinalityType
      <4>6. QED
        BY <2>n, <3>1, <4>1, <4>4, <4>5
    <3>5. CASE handler[p].rec # r
      <4>1. dispatches'[r] = dispatches[r]
        BY <2>2, <2>t, <3>1, <3>5 DEF Dispatch
      <4>2. Dispatching(r)' \subseteq Dispatching(r)
        BY <3>2, <3>3 DEF Dispatching
      <4>3. QED
        BY <2>s, <3>1, <4>1, <4>2
    <3>6. QED
      BY <3>4, <3>5
  <2>3. CASE /\ \A p \in Replicas : ~ClaimAccepted(p)
             /\ \A p \in Replicas : ~Dispatch(p)
    <3>1. claims' = claims
      BY <2>3, Writers DEF Create, StatusPut, RecoverReset, ghosts
    <3>2. dispatches' = dispatches
      <4>1. ASSUME NEW p \in Replicas, Handle(p) PROVE dispatches' = dispatches
        BY <2>3, <4>1 DEF Handle, Notify, ClaimRefused, StatusGet, StatusPut,
             StatusLost, ghosts
      <4>2. ASSUME NEW p \in Replicas, Recover(p) \/ Clean(p) \/ Crash(p)
            PROVE  dispatches' = dispatches
        BY <4>2 DEF Recover, RecoverList, RecoverReset, RecoverFailed, Clean,
             CleanList, CleanDelete, CleanFailed, Crash, ghosts
      <4>3. CASE Tick \/ (\E x \in Records : Create(x)) \/ UNCHANGED vars
        BY <4>3 DEF Tick, Create, vars, ghosts
      <4>4. QED
        BY <4>1, <4>2, <4>3 DEF Next
    <3>3. Dispatching(r)' \subseteq Dispatching(r)
      <4>1. \A q \in Dispatching(r)' : q \in Replicas
        BY DEF Dispatching
      <4>2. QED
        BY <2>3, <2>q, <4>1
    <3>4. QED
      BY <2>s, <3>1, <3>2, <3>3
  <2>4. QED
    BY <2>1, <2>2, <2>3
<1>3. QED
  BY <1>1, <1>2, TypeCorrect, PTL DEF Spec

\* A rollout is notified at most once more often than recovery reset its record:
\* a handler that lost its claim never dispatches.
THEOREM DispatchesArePaid == Spec => []DispatchesBounded
<1>1. TypeOK /\ Accounts /\ Paid => DispatchesBounded
  <2> SUFFICES ASSUME TypeOK, Accounts, Paid, NEW r \in Records
               PROVE  dispatches[r] <= 1 + resets[r]
    BY DEF DispatchesBounded
  <2>1. IsFiniteSet(Dispatching(r))
    BY RecordAssumption, FS_Subset DEF Dispatching
  <2>2. Cardinality(Dispatching(r)) \in Nat
    BY <2>1, FS_CardinalityType
  <2>3. dispatches[r] \in Nat /\ claims[r] \in Nat /\ resets[r] \in Nat
    BY RecordAssumption DEF TypeOK
  <2>4. claims[r] <= 1 + resets[r]
    BY DEF Accounts, Balanced
  <2>5. dispatches[r] + Cardinality(Dispatching(r)) <= claims[r]
    BY DEF Paid
  <2>6. QED
    BY <2>2, <2>3, <2>4, <2>5
<1>2. QED
  BY <1>1, TypeCorrect, AccountsInductive, PaidInductive, PTL

----------------------------------------------------------------------------
\* The recorder, the replicas, their scans and their cleaners, with everything
\* that may be late or lost between them, implement the life cycle of a record:
\* an accepted write is one of its steps, all else is invisible.
THEOREM ImplementsLifecycle == Spec => LifecycleSpec
<1> DEFINE Seen == [r \in Records |-> Shown(r)]
<1>1. Init => Lifecycle!Init
  BY DEF Init, Lifecycle!Init, Shown
<1>2. TypeOK /\ Stale /\ Swept /\ Accounts /\ [Next]_vars
        => [Lifecycle!Next]_(Lifecycle!vars)
  <2> SUFFICES ASSUME TypeOK, Stale, Swept, Accounts, [Next]_vars
               PROVE  [Lifecycle!Next]_(Lifecycle!vars)
    OBVIOUS
  <2>w. ASSUME NEW r \in Records, NEW phase \in Phases, Write(r, phase),
               r \notin gone, gone' = gone
        PROVE  Seen' = [Seen EXCEPT ![r] = phase]
    <3>1. Shown(r)' = phase
      BY <2>w, WriteEffect DEF Shown, Phase, Version
    <3>2. \A q \in Records \ {r} : Shown(q)' = Shown(q)
      BY <2>w, WriteEffect DEF Shown, Phase, Version
    <3>3. QED
      BY <3>1, <3>2
  <2>1. ASSUME NEW r \in Records, Create(r) PROVE Lifecycle!Create(r)
    <3>1. r \notin gone
      BY <2>1 DEF Create, Swept, Ended
    <3>2. Seen' = [Seen EXCEPT ![r] = InitialPhase]
      BY <2>1, <2>w, <3>1, PhasesWritten DEF Create
    <3>3. Shown(r) = "Absent" /\ UNCHANGED <<claims, resets>>
      BY <2>1, <3>1 DEF Create, Shown, ghosts
    <3>4. QED
      BY <3>2, <3>3 DEF Lifecycle!Create
  <2>2. ASSUME NEW p \in Replicas, ClaimAccepted(p)
        PROVE  Lifecycle!Claim(handler[p].rec)
    <3> DEFINE r == handler[p].rec
    <3>1. r \in Records /\ Exists(r)
      BY <2>2 DEF ClaimAccepted, Accepts, TypeOK, Handlers
    <3>2. Phase(r) = "Detected"
      BY <2>2, AcceptedOnNewest
    <3>3. Seen' = [Seen EXCEPT ![r] = "Processing"]
      BY <2>2, <2>w, <3>1, PhasesWritten DEF ClaimAccepted, Exists
    <3>4. Shown(r) = "Detected" /\ claims[r] <= resets[r]
      BY <3>1, <3>2 DEF Shown, Exists, Accounts, Balanced
    <3>5. claims' = [claims EXCEPT ![r] = claims[r] + 1] /\ resets' = resets
      BY <2>2 DEF ClaimAccepted
    <3>6. QED
      BY <3>1, <3>3, <3>4, <3>5 DEF Lifecycle!Claim
  <2>3. ASSUME NEW p \in Replicas, StatusPut(p)
        PROVE  Lifecycle!Complete(handler[p].rec)
    <3> DEFINE r == handler[p].rec
    <3>1. r \in Records /\ Exists(r)
      BY <2>3 DEF StatusPut, Accepts, TypeOK, Handlers
    <3>2. PICK outcome \in Terminal : Write(r, outcome)
      BY <2>3 DEF StatusPut, Terminal
    <3>3. outcome \in Phases
      BY DEF Phases
    <3>4. Seen' = [Seen EXCEPT ![r] = outcome]
      BY <2>3, <2>w, <3>1, <3>2, <3>3 DEF StatusPut, Exists
    <3>5. claims[r] > 0
      BY <2>3 DEF StatusPut, Accounts, Claimed
    <3>6. Phase(r) # ""
      <4>1. claims[r] # 0
        BY <3>5
      <4>2. Phase(r) = "" => claims[r] = 0
        BY <3>1 DEF Accounts, Balanced
      <4>3. QED
        BY <4>1, <4>2
    <3>7. Phase(r) \in Phases
      BY <3>1, EmptySeq, LenProperties, ElementOfSeq DEF TypeOK, Exists, Phase, Version
    <3>8. Shown(r) \in {"Detected", "Processing"} \cup Terminal
      BY <3>1, <3>6, <3>7 DEF Shown, Exists, Phases
    <3>9. UNCHANGED <<claims, resets>>
      BY <2>3 DEF StatusPut, ghosts
    <3>10. QED
      BY <3>1, <3>4, <3>5, <3>8, <3>9 DEF Lifecycle!Complete, Lifecycle!Terminal,
                                      Terminal
  <2>4. ASSUME NEW p \in Replicas, NEW item \in scan[p],
               RecoverReset(p, item[1], item[2])
        PROVE  Lifecycle!Reset(item[1])
    <3> DEFINE r == item[1]
    <3>1. r \in Records
      BY DEF TypeOK
    <3>2. Phase(r) = "Processing" /\ Exists(r)
      BY <2>4, AcceptedOnNewest DEF RecoverReset, Accepts
    <3>3. Seen' = [Seen EXCEPT ![r] = "Detected"]
      BY <2>4, <2>w, <3>1, <3>2, PhasesWritten DEF RecoverReset, Exists
    <3>4. Shown(r) = "Processing"
      BY <3>2 DEF Shown, Exists
    <3>5. resets' = [resets EXCEPT ![r] = resets[r] + 1] /\ claims' = claims
      BY <2>4 DEF RecoverReset
    <3>6. QED
      BY <3>1, <3>3, <3>4, <3>5 DEF Lifecycle!Reset
  <2>5. CASE UNCHANGED <<hist, claims, resets>>
    <3>1. CASE UNCHANGED gone
      <4>1. Seen' = Seen
        BY <2>5, <3>1 DEF Shown, Phase, Version
      <4>2. QED
        BY <2>5, <4>1 DEF Lifecycle!vars
    <3>2. ASSUME NEW p \in Replicas, NEW r \in sweep[p], CleanDelete(p, r)
          PROVE  [Lifecycle!Next]_(Lifecycle!vars)
      <4>1. r \in Records /\ hist[r] # <<>> /\ Phase(r) \in Terminal
        BY DEF TypeOK, Swept, Ended
      <4>2. gone' = gone \cup {r}
        BY <3>2 DEF CleanDelete
      <4>3. CASE r \in gone
        BY <3>1, <4>2, <4>3
      <4>4. CASE r \notin gone
        <5>1. Shown(r) \in Terminal /\ Shown(r)' = "Deleted"
          BY <4>1, <4>2, <4>4 DEF Shown
        <5>2. \A q \in Records \ {r} : Shown(q)' = Shown(q)
          BY <2>5, <4>2 DEF Shown, Phase, Version
        <5>3. Seen' = [Seen EXCEPT ![r] = "Deleted"]
          BY <5>1, <5>2
        <5>4. Lifecycle!Delete(r)
          BY <2>5, <4>1, <5>1, <5>3 DEF Lifecycle!Delete, Lifecycle!Terminal,
                                       Terminal
        <5>5. QED
          BY <4>1, <5>4 DEF Lifecycle!Next
      <4>5. QED
        BY <4>3, <4>4
    <3>3. UNCHANGED gone \/ \E p \in Replicas : \E r \in sweep[p] : CleanDelete(p, r)
      <4>1. ASSUME NEW p \in Replicas, Handle(p) \/ Recover(p) \/ Crash(p)
            PROVE  gone' = gone
        BY <4>1 DEF Handle, Notify, ClaimAccepted, ClaimRefused, Dispatch,
             StatusGet, StatusPut, StatusLost, Recover, RecoverList,
             RecoverReset, RecoverFailed, Crash, server
      <4>2. ASSUME NEW p \in Replicas, NEW x \in sweep[p], CleanFailed(p, x)
            PROVE  gone' = gone
        BY <4>2 DEF CleanFailed, server
      <4>3. ASSUME NEW p \in Replicas, CleanList(p) PROVE gone' = gone
        BY <4>3 DEF CleanList, server
      <4>4. CASE Tick \/ (\E x \in Records : Create(x)) \/ UNCHANGED vars
        BY <4>4 DEF Tick, Create, vars
      <4>5. QED
        BY <4>1, <4>2, <4>3, <4>4 DEF Next, Clean
    <3>4. QED
      BY <3>1, <3>2, <3>3
  <2>6. \A p \in Replicas : handler[p].rec \in Records
          /\ \A item \in scan[p] : item[1] \in Records
    BY DEF TypeOK, Handlers
  <2>7. QED
    BY <2>1, <2>2, <2>3, <2>4, <2>5, <2>6, Writers DEF Lifecycle!Next
<1>3. QED
  BY <1>1, <1>2, TypeCorrect, StaleInductive, SweptInductive, AccountsInductive,
     PTL DEF Spec, LifecycleSpec, Lifecycle!Spec
=============================================================================
