------------------------ MODULE RolloutAnalyzerProofs ------------------------
(* The verdict of the analyzer is the one its polls justify, for all windows    *)
(* and timeouts, any counts and signals and any delay of the polls: what        *)
(* monitorRollout keeps in variables is what the history of the polls says.     *)
EXTENDS RolloutAnalyzer, TLAPS

\* A status after which no other came.
LastStatus(r) == r \in polls /\ Status(r) /\ \A o \in polls : Status(o) => o.at <= r.at
LastIsRight ==
    \/ \E r \in polls : LastStatus(r) /\ last = r.sees.counts
    \/ (\A r \in polls : ~Status(r)) /\ last = Zero

ProgressIsRight == progress \in MoveTimes /\ \A m \in MoveTimes : m <= progress

\* A container has been seen waiting from p on.
WaitsFrom(p) ==
    p \in polls /\ Waiting(p) /\ \A r \in polls : r.at > p.at /\ Readable(r) => Waiting(r)
TimerIsRight ==
    /\ waitingSince # 0 => \E p \in polls : WaitsFrom(p) /\ p.at = waitingSince
    /\ \A p \in polls : WaitsFrom(p) => waitingSince # 0 /\ waitingSince <= p.at

Remembers ==
    /\ LastIsRight
    /\ ProgressIsRight
    /\ lastSeenPaused <=> EndsPaused
    /\ TimerIsRight

OnePollAtATime == \A q, r \in polls : q.at = r.at => q = r

Inv ==
    /\ TypeOK
    /\ OnePollAtATime
    /\ phase \in {"start", "monitor", "soak"} => verdict = "none"
    /\ phase = "gather" => verdict \notin {"none", "success"}
    /\ phase = "start" => polls = {}
    /\ phase \in {"start", "monitor"} => Remembers
    /\ VerdictIsEarned

LEMMA SightsFact ==
    ASSUME NEW s \in Sights
    PROVE  /\ s.kind \in {"error", "gone", "mismatch", "paused", "status"}
           /\ s.kind = "status" => s.counts \in Counts /\ s.signals \subseteq Signals
  BY AnalyzerAssumption DEF Sights

LEMMA CountsFact ==
    ASSUME NEW c \in Counts \cup {Zero}
    PROVE  c \in [desired : Nat, updated : Nat, available : Nat, unavailable : Nat]
  BY AnalyzerAssumption

LEMMA PollFact ==
    ASSUME TypeOK, NEW q \in polls
    PROVE  /\ q.at \in Nat /\ q.at >= 1 /\ q.at <= now
           /\ q.sees \in Sights
           /\ now \in Nat
  BY DEF TypeOK

------------------------------------------------------------------------------
(* A later poll leaves what the earlier ones justify *)

LEMMA EarlierStays ==
    ASSUME TypeOK, NEW n, n.at \in Nat, n.at > now, polls' = polls \cup {n}, NEW r \in polls
    PROVE  Earlier(r)' = Earlier(r)
  <1>1. r.at < n.at  BY PollFact
  <1>2. ~(n.at < r.at)  BY <1>1, PollFact
  <1> QED  BY <1>2 DEF Earlier

LEMMA MovedStays ==
    ASSUME TypeOK, NEW n, n.at \in Nat, n.at > now, polls' = polls \cup {n}, NEW r \in polls
    PROVE  Moved(r)' <=> Moved(r)
  <1>1. Earlier(r)' = Earlier(r)  BY EarlierStays
  <1>2. \A o : Base(r, o)' <=> Base(r, o)  BY <1>1 DEF Base, Status
  <1>3. \A o : Base(r, o) => o \in polls  BY DEF Base, Earlier
  <1>4. (\E o \in polls : Base(r, o) /\ Forward(o.sees.counts, r.sees.counts))'
          <=> (\E o \in polls : Base(r, o) /\ Forward(o.sees.counts, r.sees.counts))
    BY <1>2, <1>3 DEF Forward
  <1>5. (\A o \in Earlier(r) : ~Status(o))' <=> (\A o \in Earlier(r) : ~Status(o))
    BY <1>1 DEF Status
  <1> QED  BY <1>4, <1>5 DEF Moved, Status, Forward

LEMMA MoveTimesGrow ==
    ASSUME TypeOK, NEW n, n.at \in Nat, n.at > now, polls' = polls \cup {n}, now' = n.at
    PROVE  /\ \A m : m \in MoveTimes => m \in MoveTimes'
           /\ \A m : m \in MoveTimes' => m \in MoveTimes \/ (m = n.at /\ Moved(n)')
           /\ Moved(n)' => n.at \in MoveTimes'
           /\ \A m \in MoveTimes : m \in Nat /\ m <= now
  <1>0. now \in Nat  BY DEF TypeOK
  <1>1. \A m \in MoveTimes : m \in Nat /\ m <= now  BY <1>0 DEF MoveTimes
  <1>2. \A m \in 1 .. now : m \in 1 .. now'  BY <1>0
  <1>3. ASSUME NEW m, m \in MoveTimes PROVE m \in MoveTimes'
    <2>1. CASE m = 0  BY <2>1 DEF MoveTimes
    <2>2. CASE m # 0
      <3>1. PICK q \in polls : q.at = m /\ Moved(q)  BY <1>3, <2>2 DEF MoveTimes
      <3>2. Moved(q)'  BY <3>1, MovedStays
      <3>3. m \in 1 .. now  BY <1>3, <2>2 DEF MoveTimes
      <3>4. m \in 1 .. now'  BY <3>3, <1>2
      <3> QED  BY <3>1, <3>2, <3>4 DEF MoveTimes
    <2> QED  BY <2>1, <2>2
  <1>4. ASSUME NEW m, m \in MoveTimes' PROVE m \in MoveTimes \/ (m = n.at /\ Moved(n)')
    <2>1. CASE m = 0  BY <2>1 DEF MoveTimes
    <2>2. CASE m # 0
      <3>1. PICK q \in polls' : q.at = m /\ Moved(q)'  BY <1>4, <2>2 DEF MoveTimes
      <3>2. CASE q = n  BY <3>1, <3>2
      <3>3. CASE q \in polls
        <4>1. Moved(q)  BY <3>1, <3>3, MovedStays
        <4>2. q.at \in 1 .. now  BY <3>3, PollFact
        <4> QED  BY <3>1, <3>3, <4>1, <4>2 DEF MoveTimes
      <3> QED  BY <3>1, <3>2, <3>3
    <2> QED  BY <2>1, <2>2
  <1>5. ASSUME Moved(n)' PROVE n.at \in MoveTimes'
    <2>1. n.at \in 1 .. now'  BY <1>0
    <2> QED  BY <1>5, <2>1 DEF MoveTimes
  <1> QED  BY <1>1, <1>3, <1>4, <1>5

LEMMA JustifiedStays ==
    ASSUME TypeOK, NEW n, n.at \in Nat, n.at > now, polls' = polls \cup {n}, now' = n.at,
           NEW r \in polls
    PROVE  Justified(r)' = Justified(r)
  <1>0. r.at \in Nat /\ r.at <= now /\ now \in Nat  BY PollFact
  <1>1. Earlier(r)' = Earlier(r)  BY EarlierStays
  <1>2. \A m : m \in MoveTimes' /\ m <= r.at <=> m \in MoveTimes /\ m <= r.at
    <2>1. ~(n.at <= r.at)  BY <1>0
    <2> QED  BY <2>1, MoveTimesGrow
  <1>3. \A m : m \in MoveTimes' /\ m < r.at <=> m \in MoveTimes /\ m < r.at
    <2>1. ~(n.at < r.at)  BY <1>0
    <2> QED  BY <2>1, MoveTimesGrow
  <1>4. \A p : WaitsSince(p, r)' <=> WaitsSince(p, r)
    BY <1>1 DEF WaitsSince, Waiting, Readable, Status
  <1>5. \A p : WaitsSince(p, r) => p \in polls  BY DEF WaitsSince, Earlier
  <1>6. WaitsTooLong(r)' <=> WaitsTooLong(r)
    BY <1>4, <1>5 DEF WaitsTooLong, Waiting, Readable, Status
  <1>7. RestartsTooOften(r)' <=> RestartsTooOften(r)
    <2>1. (\E m \in MoveTimes : m < r.at /\ r.at - m < RestartWindow)'
             <=> \E m \in MoveTimes : m < r.at /\ r.at - m < RestartWindow
      BY <1>3
    <2> QED  BY <2>1 DEF RestartsTooOften, Readable, Status
  <1>8. HasStalled(r)' <=> HasStalled(r)  BY <1>2 DEF HasStalled
  <1> QED  BY <1>6, <1>7, <1>8 DEF Justified, Status, Converged

------------------------------------------------------------------------------
(* What the next poll justifies is what the analyzer's variables say *)

LEMMA EarlierOfNext ==
    ASSUME TypeOK, NEW n, n.at \in Nat, n.at > now, polls' = polls \cup {n}
    PROVE  Earlier(n)' = polls
  <1>1. \A r \in polls : r.at < n.at  BY PollFact
  <1>2. ~(n.at < n.at)  OBVIOUS
  <1> QED  BY <1>1, <1>2 DEF Earlier

LEMMA MovedNext ==
    ASSUME TypeOK, OnePollAtATime, LastIsRight,
           NEW n, n.at \in Nat, n.at > now, polls' = polls \cup {n}
    PROVE  Moved(n)' <=> \/ n.sees.kind = "mismatch"
                         \/ Status(n) /\ Forward(last, n.sees.counts)
  <1>1. Earlier(n)' = polls  BY EarlierOfNext
  <1>2. \A r : Base(n, r)' <=> LastStatus(r)  BY <1>1 DEF Base, LastStatus, Status
  <1>3. \A r, o : LastStatus(r) /\ LastStatus(o) => r = o
    <2> SUFFICES ASSUME NEW r, NEW o, LastStatus(r), LastStatus(o) PROVE r = o
      OBVIOUS
    <2>1. r \in polls /\ o \in polls /\ o.at <= r.at /\ r.at <= o.at  BY DEF LastStatus
    <2>2. r.at \in Nat /\ o.at \in Nat  BY <2>1, PollFact
    <2>3. r.at = o.at  BY <2>1, <2>2
    <2> QED  BY <2>1, <2>3 DEF OnePollAtATime
  <1>4. CASE \E r \in polls : LastStatus(r) /\ last = r.sees.counts
    <2>1. PICK r \in polls : LastStatus(r) /\ last = r.sees.counts  BY <1>4
    <2>2. Status(r) /\ r \in Earlier(n)'  BY <2>1, <1>1 DEF LastStatus
    <2>3. ~(\A o \in Earlier(n) : ~Status(o))'  BY <2>2 DEF Status
    <2>4. (\E o \in polls : Base(n, o) /\ Forward(o.sees.counts, n.sees.counts))'
            <=> Forward(last, n.sees.counts)
      <3>1. ASSUME NEW o \in polls', Base(n, o)', Forward(o.sees.counts, n.sees.counts)
            PROVE Forward(last, n.sees.counts)
        <4>1. o = r  BY <3>1, <1>2, <1>3, <2>1
        <4> QED  BY <3>1, <4>1, <2>1
      <3>2. ASSUME Forward(last, n.sees.counts)
            PROVE (\E o \in polls : Base(n, o) /\ Forward(o.sees.counts, n.sees.counts))'
        <4>1. r \in polls' /\ Base(n, r)'  BY <2>1, <1>2
        <4>2. Forward(r.sees.counts, n.sees.counts)'  BY <2>1, <3>2 DEF Forward
        <4> QED  BY <4>1, <4>2
      <3> QED  BY <3>1, <3>2 DEF Forward
    <2> QED  BY <2>3, <2>4 DEF Moved, Status
  <1>5. CASE (\A r \in polls : ~Status(r)) /\ last = Zero
    <2>1. \A r : ~LastStatus(r)  BY <1>5 DEF LastStatus
    <2>2. \A r : ~Base(n, r)'  BY <2>1, <1>2
    <2>3. (\A o \in Earlier(n) : ~Status(o))'  BY <1>5, <1>1 DEF Status
    <2>4. Forward(Zero, n.sees.counts)' <=> Forward(last, n.sees.counts)  BY <1>5 DEF Forward
    <2> QED  BY <2>2, <2>3, <2>4 DEF Moved, Status
  <1> QED  BY <1>4, <1>5 DEF LastIsRight

LEMMA WaitsTooLongNext ==
    ASSUME TypeOK, TimerIsRight, NEW n, n.at \in Nat, n.at > now, polls' = polls \cup {n}
    PROVE  WaitsTooLong(n)' <=> /\ Waiting(n) /\ waitingSince # 0
                                /\ n.at - waitingSince >= ConfigErrorWindow
  <1>1. Earlier(n)' = polls  BY EarlierOfNext
  <1>2. \A p : WaitsSince(p, n)' <=> WaitsFrom(p)
    BY <1>1 DEF WaitsSince, WaitsFrom, Waiting, Readable, Status
  <1>3. waitingSince \in Nat /\ ConfigErrorWindow \in Nat  BY AnalyzerAssumption DEF TypeOK
  <1>4. ASSUME WaitsTooLong(n)'
        PROVE  Waiting(n) /\ waitingSince # 0 /\ n.at - waitingSince >= ConfigErrorWindow
    <2>1. PICK p \in polls' : WaitsSince(p, n)' /\ n.at - p.at >= ConfigErrorWindow
      BY <1>4 DEF WaitsTooLong
    <2>2. WaitsFrom(p)  BY <2>1, <1>2
    <2>3. p \in polls  BY <2>2 DEF WaitsFrom
    <2>4. waitingSince # 0 /\ waitingSince <= p.at  BY <2>2, <2>3 DEF TimerIsRight
    <2>5. p.at \in Nat  BY <2>3, PollFact
    <2>6. n.at - waitingSince >= ConfigErrorWindow  BY <2>1, <2>4, <2>5, <1>3
    <2>7. Waiting(n)  BY <1>4 DEF WaitsTooLong, Waiting, Readable, Status
    <2> QED  BY <2>4, <2>6, <2>7
  <1>5. ASSUME Waiting(n), waitingSince # 0, n.at - waitingSince >= ConfigErrorWindow
        PROVE  WaitsTooLong(n)'
    <2>1. PICK p \in polls : WaitsFrom(p) /\ p.at = waitingSince  BY <1>5 DEF TimerIsRight
    <2>2. WaitsSince(p, n)' /\ n.at - p.at >= ConfigErrorWindow  BY <2>1, <1>2, <1>5
    <2>3. Waiting(n)'  BY <1>5 DEF Waiting, Readable, Status
    <2> QED  BY <2>1, <2>2, <2>3 DEF WaitsTooLong
  <1> QED  BY <1>4, <1>5

LEMMA RestartsTooOftenNext ==
    ASSUME TypeOK, ProgressIsRight,
           NEW n, n.at \in Nat, n.at > now, polls' = polls \cup {n}, now' = n.at
    PROVE  RestartsTooOften(n)' <=> /\ Readable(n) /\ "restarts" \in n.sees.signals
                                    /\ n.at - progress < RestartWindow
  <1>1. \A m \in MoveTimes : m \in Nat /\ m <= now  BY MoveTimesGrow
  <1>2. now \in Nat /\ progress \in MoveTimes /\ RestartWindow \in Nat
    BY AnalyzerAssumption DEF TypeOK, ProgressIsRight
  <1>3. \A m : m \in MoveTimes' /\ m < n.at <=> m \in MoveTimes
    <2>1. ~(n.at < n.at)  OBVIOUS
    <2>2. \A m \in MoveTimes : m < n.at  BY <1>1, <1>2
    <2> QED  BY <2>1, <2>2, MoveTimesGrow
  <1>4. (\E m \in MoveTimes : m < n.at /\ n.at - m < RestartWindow)'
          <=> n.at - progress < RestartWindow
    <2>1. ASSUME NEW m \in MoveTimes, n.at - m < RestartWindow
          PROVE n.at - progress < RestartWindow
      <3>1. m <= progress /\ m \in Nat /\ progress \in Nat  BY <1>1, <1>2 DEF ProgressIsRight
      <3> QED  BY <2>1, <3>1, <1>2
    <2> QED  BY <2>1, <1>2, <1>3
  <1> QED  BY <1>4 DEF RestartsTooOften, Readable, Status

\* progress is moved to the poll's time first when the poll saw progress.
LEMMA HasStalledNext ==
    ASSUME TypeOK, ProgressIsRight,
           NEW n, n.at \in Nat, n.at > now, polls' = polls \cup {n}, now' = n.at,
           NEW m, m = IF Moved(n)' THEN n.at ELSE progress
    PROVE  /\ HasStalled(n)' <=> n.at - m > InactivityTimeout
           /\ m \in MoveTimes'
           /\ \A o \in MoveTimes' : o <= m
  <1>1. \A o \in MoveTimes : o \in Nat /\ o <= now  BY MoveTimesGrow
  <1>2. now \in Nat /\ progress \in MoveTimes /\ InactivityTimeout \in Nat
    BY AnalyzerAssumption DEF TypeOK, ProgressIsRight
  <1>3. progress \in Nat  BY <1>1, <1>2
  <1>4. \A o \in MoveTimes' : o \in MoveTimes \/ (o = n.at /\ Moved(n)')  BY MoveTimesGrow
  <1>5. m \in MoveTimes' /\ m \in Nat /\ m <= n.at
    <2>1. CASE Moved(n)'  BY <2>1, MoveTimesGrow
    <2>2. CASE ~Moved(n)'
      <3>1. m = progress  BY <2>2
      <3>2. m \in MoveTimes'  BY <3>1, <1>2, MoveTimesGrow
      <3> QED  BY <3>1, <3>2, <1>1, <1>2, <1>3
    <2> QED  BY <2>1, <2>2
  <1>6. \A o \in MoveTimes' : o \in Nat /\ o <= m
    <2> SUFFICES ASSUME NEW o \in MoveTimes' PROVE o \in Nat /\ o <= m
      OBVIOUS
    <2>1. CASE o \in MoveTimes
      <3>1. o \in Nat /\ o <= progress /\ o <= now  BY <2>1, <1>1 DEF ProgressIsRight
      <3> QED  BY <3>1, <1>2, <1>3
    <2>2. CASE o = n.at /\ Moved(n)'  BY <2>2
    <2> QED  BY <2>1, <2>2, <1>4
  <1>7. (\A o \in MoveTimes : o <= n.at => n.at - o > InactivityTimeout)'
          <=> n.at - m > InactivityTimeout
    <2>1. ASSUME n.at - m > InactivityTimeout, NEW o \in MoveTimes'
          PROVE n.at - o > InactivityTimeout
      <3>1. o \in Nat /\ o <= m  BY <1>6
      <3> QED  BY <2>1, <3>1, <1>5, <1>2
    <2> QED  BY <2>1, <1>5
  <1> QED  BY <1>5, <1>6, <1>7 DEF HasStalled

LEMMA JustifiedNext ==
    ASSUME TypeOK, OnePollAtATime, LastIsRight, ProgressIsRight, TimerIsRight,
           NEW n, n.at \in Nat, n.at > now, polls' = polls \cup {n}, now' = n.at, Status(n),
           NEW m, m = IF Forward(last, n.sees.counts) THEN n.at ELSE progress
    PROVE  Justified(n)' =
             IF Failure(n.at, n.sees.signals) # "none" THEN Failure(n.at, n.sees.signals)
             ELSE IF n.at - m > InactivityTimeout THEN "stalled"
             ELSE IF Converged(n.sees.counts) THEN "converged" ELSE "none"
  <1>1. n.sees.kind # "mismatch" /\ n.sees.kind # "gone"  BY DEF Status
  <1>2. Moved(n)' <=> Forward(last, n.sees.counts)  BY <1>1, MovedNext
  <1>3. m = IF Moved(n)' THEN n.at ELSE progress  BY <1>2
  <1>4. HasStalled(n)' <=> n.at - m > InactivityTimeout  BY <1>3, HasStalledNext
  <1>5. WaitsTooLong(n)' <=> /\ Waiting(n) /\ waitingSince # 0
                             /\ n.at - waitingSince >= ConfigErrorWindow
    BY WaitsTooLongNext
  <1>6. RestartsTooOften(n)' <=> /\ Readable(n) /\ "restarts" \in n.sees.signals
                                 /\ n.at - progress < RestartWindow
    BY RestartsTooOftenNext
  <1>7. Justified(n)' =
          IF "exceeded" \in n.sees.signals THEN "failed: deadline exceeded"
          ELSE IF WaitsTooLong(n)' THEN "failed: waiting"
          ELSE IF RestartsTooOften(n)' THEN "failed: restarts"
          ELSE IF HasStalled(n)' THEN "stalled"
          ELSE IF Converged(n.sees.counts) THEN "converged"
          ELSE "none"
    BY <1>1 DEF Justified, Status, Converged
  <1>8. Failure(n.at, n.sees.signals) =
          IF "exceeded" \in n.sees.signals THEN "failed: deadline exceeded"
          ELSE IF WaitsTooLong(n)' THEN "failed: waiting"
          ELSE IF RestartsTooOften(n)' THEN "failed: restarts"
          ELSE "none"
    BY <1>5, <1>6 DEF Failure, Waiting, Readable
  <1> QED  BY <1>4, <1>7, <1>8

------------------------------------------------------------------------------
(* The variables after the next poll *)

LEMMA LastNext ==
    ASSUME TypeOK, LastIsRight, NEW n, n.at \in Nat, n.at > now, polls' = polls \cup {n},
           last' = IF Status(n) THEN n.sees.counts ELSE last
    PROVE  LastIsRight'
  <1>0. \A r \in polls : r.at < n.at  BY PollFact
  <1>1. CASE Status(n)
    <2>1. \A o \in polls' : o.at <= n.at  BY <1>0, PollFact
    <2>2. LastStatus(n)'  BY <1>1, <2>1 DEF LastStatus, Status
    <2> QED  BY <1>1, <2>2 DEF LastIsRight
  <1>2. CASE ~Status(n)
    <2>1. \A r \in polls : LastStatus(r) => LastStatus(r)'  BY <1>2 DEF LastStatus, Status
    <2>2. last' = last  BY <1>2
    <2>3. CASE \E r \in polls : LastStatus(r) /\ last = r.sees.counts
      BY <2>1, <2>2, <2>3 DEF LastIsRight
    <2>4. CASE (\A r \in polls : ~Status(r)) /\ last = Zero
      BY <1>2, <2>2, <2>4 DEF LastIsRight, Status
    <2> QED  BY <2>3, <2>4 DEF LastIsRight
  <1> QED  BY <1>1, <1>2

LEMMA PausedNext ==
    ASSUME TypeOK, NEW n, n.at \in Nat, n.at > now, polls' = polls \cup {n}
    PROVE  /\ n.sees.kind = "paused" => EndsPaused'
           /\ Status(n) => ~EndsPaused'
           /\ ~Status(n) /\ n.sees.kind # "paused" => (EndsPaused' <=> EndsPaused)
  <1>0. \A r \in polls : r.at < n.at /\ ~(n.at < r.at)  BY PollFact
  <1>1. ~(n.at < n.at)  OBVIOUS
  <1>2. n.sees.kind = "paused" => ~Status(n)  BY DEF Status
  <1> QED  BY <1>0, <1>1, <1>2 DEF EndsPaused, Status

LEMMA TimerNext ==
    ASSUME TypeOK, TimerIsRight, NEW n, n.at \in Nat, n.at > now, polls' = polls \cup {n},
           waitingSince' = IF ~Readable(n) THEN waitingSince
                           ELSE IF ~Waiting(n) THEN 0
                           ELSE IF waitingSince = 0 THEN n.at ELSE waitingSince
    PROVE  TimerIsRight'
  <1>0. now \in Nat /\ waitingSince \in Nat /\ waitingSince <= now  BY DEF TypeOK
  <1>1. \A r \in polls : r.at < n.at /\ ~(r.at > n.at) /\ n.at > r.at  BY PollFact
  <1>2. ~(n.at > n.at) /\ n.at # 0  BY <1>0
  <1>3. \A p \in polls : WaitsFrom(p)' => WaitsFrom(p)
    BY DEF WaitsFrom, Waiting, Readable, Status
  <1>4. CASE ~Readable(n)
    <2>1. \A p \in polls : WaitsFrom(p) => WaitsFrom(p)'
      BY <1>4 DEF WaitsFrom, Waiting, Readable, Status
    <2>2. ~WaitsFrom(n)'  BY <1>4 DEF WaitsFrom, Waiting, Readable, Status
    <2>3. waitingSince' = waitingSince  BY <1>4
    <2> QED  BY <1>3, <2>1, <2>2, <2>3 DEF TimerIsRight
  <1>5. CASE Readable(n) /\ ~Waiting(n)
    <2>1. \A p \in polls' : ~WaitsFrom(p)'
      BY <1>1, <1>5 DEF WaitsFrom, Waiting, Readable, Status
    <2>2. waitingSince' = 0  BY <1>5
    <2> QED  BY <2>1, <2>2 DEF TimerIsRight
  <1>6. CASE Readable(n) /\ Waiting(n) /\ waitingSince = 0
    <2>1. \A p \in polls : ~WaitsFrom(p)'  BY <1>3, <1>6 DEF TimerIsRight
    <2>2. WaitsFrom(n)'  BY <1>1, <1>2, <1>6 DEF WaitsFrom, Waiting, Readable, Status
    <2>3. waitingSince' = n.at /\ n.at <= n.at  BY <1>6
    <2> QED  BY <1>2, <2>1, <2>2, <2>3 DEF TimerIsRight
  <1>7. CASE Readable(n) /\ Waiting(n) /\ waitingSince # 0
    <2>1. PICK p \in polls : WaitsFrom(p) /\ p.at = waitingSince  BY <1>7 DEF TimerIsRight
    <2>2. WaitsFrom(p)'  BY <1>7, <2>1 DEF WaitsFrom, Waiting, Readable, Status
    <2>3. waitingSince' = waitingSince /\ waitingSince <= n.at  BY <1>7, <1>0
    <2>4. \A q \in polls : WaitsFrom(q)' => waitingSince <= q.at  BY <1>3 DEF TimerIsRight
    <2> QED  BY <1>7, <2>1, <2>2, <2>3, <2>4 DEF TimerIsRight
  <1> QED  BY <1>4, <1>5, <1>6, <1>7

------------------------------------------------------------------------------
(* Steps that do not look at the cluster's status leave the polls as they are *)

LEMMA Frame ==
    ASSUME TypeOK, polls' = polls, now' \in Nat, now' >= now
    PROVE  /\ MoveTimes' = MoveTimes
           /\ EndsPaused' <=> EndsPaused
           /\ \A q : Justified(q)' = Justified(q)
  <1>0. now \in Nat  BY DEF TypeOK
  <1>1. \A q : Earlier(q)' = Earlier(q)  BY DEF Earlier
  <1>2. \A q, o : Base(q, o)' <=> Base(q, o)  BY <1>1 DEF Base, Status
  <1>3. \A q : Moved(q)' <=> Moved(q)  BY <1>1, <1>2 DEF Moved, Status, Forward
  <1>4. \A q \in polls : q.at \in 1 .. now /\ q.at \in 1 .. now'
    <2> SUFFICES ASSUME NEW q \in polls PROVE q.at \in 1 .. now /\ q.at \in 1 .. now'
      OBVIOUS
    <2>1. q.at \in Nat /\ q.at >= 1 /\ q.at <= now  BY PollFact
    <2> QED  BY <2>1, <1>0
  <1>5. MoveTimes' = MoveTimes
    <2>1. MoveTimes = {0} \cup {m \in 1 .. now : \E q \in polls : q.at = m /\ Moved(q)}
      BY DEF MoveTimes
    <2>2. MoveTimes' = {0} \cup {m \in 1 .. now' : \E q \in polls : q.at = m /\ Moved(q)}
      BY <1>3 DEF MoveTimes
    <2>3. \A m : (m \in 1 .. now /\ \E q \in polls : q.at = m /\ Moved(q))
                   <=> (m \in 1 .. now' /\ \E q \in polls : q.at = m /\ Moved(q))
      BY <1>4
    <2> QED  BY <2>1, <2>2, <2>3
  <1>6. EndsPaused' <=> EndsPaused  BY DEF EndsPaused, Status
  <1>7. \A p, q : WaitsSince(p, q)' <=> WaitsSince(p, q)
    BY <1>1 DEF WaitsSince, Waiting, Readable, Status
  <1>8. \A q : WaitsTooLong(q)' <=> WaitsTooLong(q)
    BY <1>7 DEF WaitsTooLong, Waiting, Readable, Status
  <1>9. \A q : RestartsTooOften(q)' <=> RestartsTooOften(q)
    BY <1>5 DEF RestartsTooOften, Readable, Status
  <1>10. \A q : HasStalled(q)' <=> HasStalled(q)  BY <1>5 DEF HasStalled
  <1>11. \A q : Justified(q)' = Justified(q)
    BY <1>8, <1>9, <1>10 DEF Justified, Status, Converged
  <1> QED  BY <1>5, <1>6, <1>11

LEMMA TimeoutFact ==
    ASSUME TypeOK, ProgressIsRight, NEW t \in Nat, t > now
    PROVE  (\E m \in MoveTimes : t - m < InactivityTimeout) <=> t - progress < InactivityTimeout
  <1>1. \A m \in MoveTimes : m \in Nat /\ m <= progress
    BY DEF MoveTimes, ProgressIsRight, TypeOK
  <1>2. progress \in MoveTimes /\ progress \in Nat /\ InactivityTimeout \in Nat
    BY <1>1, AnalyzerAssumption DEF ProgressIsRight
  <1>3. ASSUME NEW m \in MoveTimes, t - m < InactivityTimeout
        PROVE t - progress < InactivityTimeout
    BY <1>1, <1>2, <1>3
  <1> QED  BY <1>2, <1>3

------------------------------------------------------------------------------
(* Type correctness *)

LEMMA FailureFact ==
    ASSUME NEW t, NEW signals
    PROVE  Failure(t, signals) \in {"none", "failed: deadline exceeded", "failed: waiting",
                                    "failed: restarts"}
  BY DEF Failure

LEMMA TimerType ==
    ASSUME TypeOK, NEW t \in Nat, t > now, NEW signals
    PROVE  Timer(t, signals) \in 0 .. t
  <1>1. now \in Nat /\ waitingSince \in Nat /\ waitingSince <= now  BY DEF TypeOK
  <1>2. 0 \in 0 .. t /\ t \in 0 .. t /\ waitingSince \in 0 .. t  BY <1>1
  <1> QED  BY <1>2 DEF Timer

LEMMA PollType ==
    ASSUME TypeOK, NEW t \in Nat, t > now, Poll(t)
    PROVE  TypeOK'
  <1>0. now' = t /\ report' = report /\ phase = "monitor"  BY DEF Poll
  <1>1. /\ now \in Nat /\ progress \in 0 .. now /\ waitingSince \in 0 .. now
        /\ last \in Counts \cup {Zero} /\ lastSeenPaused \in BOOLEAN /\ snapshot \in BOOLEAN
        /\ phase \in {"start", "monitor", "soak", "gather", "done"}
        /\ verdict \in Verdicts /\ report \subseteq {"events", "pods", "logs"}
        /\ polls \subseteq [at : 1 .. now, sees : Sights]
    BY DEF TypeOK
  <1>2. /\ progress \in 0 .. t /\ waitingSince \in 0 .. t /\ t \in 0 .. t /\ 0 \in 0 .. t
        /\ t \in 1 .. t
    BY <1>1
  <1>3. polls \subseteq [at : 1 .. t, sees : Sights]
    <2>1. \A a \in 1 .. now : a \in 1 .. t  BY <1>1
    <2> QED  BY <1>1, <2>1
  <1>4. ASSUME NEW v \in Verdicts \ {"none"}, Ends(v)
        PROVE verdict' \in Verdicts /\ phase' \in {"start", "monitor", "soak", "gather", "done"}
    BY <1>4 DEF Ends
  <1>5. CASE TimesOut(t)
    <2>1. {"timeout: paused", "timeout: inconclusive", "timeout: stalled"} \subseteq Verdicts \ {"none"}
      BY DEF Verdicts
    <2>2. \E v \in {"timeout: paused", "timeout: inconclusive", "timeout: stalled"} : Ends(v)
      BY <1>5 DEF TimesOut
    <2>3. verdict' \in Verdicts /\ phase' \in {"start", "monitor", "soak", "gather", "done"}
      BY <1>4, <2>1, <2>2
    <2>4. UNCHANGED <<progress, last, waitingSince, lastSeenPaused, snapshot, polls>>
      BY <1>5 DEF TimesOut, monitoring
    <2> QED  BY <1>0, <1>1, <1>2, <1>3, <2>3, <2>4 DEF TypeOK
  <1>6. ASSUME NEW s \in Sights, polls' = polls \cup {[at |-> t, sees |-> s]},
               (NoStatus(t, s) /\ UNCHANGED snapshot) \/ Evaluates(t, s)
        PROVE TypeOK'
    <2>1. polls' \subseteq [at : 1 .. t, sees : Sights]  BY <1>2, <1>3, <1>6
    <2>2. CASE NoStatus(t, s) /\ UNCHANGED snapshot
      <3>1. "deleted" \in Verdicts \ {"none"}  BY DEF Verdicts
      <3>2. verdict' \in Verdicts /\ phase' \in {"start", "monitor", "soak", "gather", "done"}
        BY <1>1, <1>4, <2>2, <3>1 DEF NoStatus
      <3>3. /\ progress' \in {progress, t} /\ waitingSince' = waitingSince
            /\ last' = last /\ lastSeenPaused' \in {lastSeenPaused, TRUE}
        BY <2>2 DEF NoStatus, monitoring
      <3>4. progress' \in 0 .. t  BY <1>2, <3>3
      <3>5. lastSeenPaused' \in BOOLEAN  BY <1>1, <3>3
      <3> QED  BY <1>0, <1>1, <1>2, <2>1, <2>2, <3>2, <3>3, <3>4, <3>5 DEF TypeOK
    <2>3. CASE Evaluates(t, s)
      <3>0. s.counts \in Counts  BY <2>3, SightsFact DEF Evaluates
      <3>1. lastSeenPaused' \in BOOLEAN  BY <2>3 DEF Evaluates
      <3>2. waitingSince' \in 0 .. t  BY <2>3, TimerType DEF Evaluates
      <3>3. CASE Failure(t, s.signals) = "none"
        <4>0. Progresses(t, s)  BY <2>3, <3>3 DEF Evaluates
        <4>1. last' \in Counts \cup {Zero}  BY <3>0, <4>0 DEF Progresses
        <4>2. progress' \in 0 .. t  BY <1>2, <4>0 DEF Progresses
        <4>3. "stalled" \in Verdicts \ {"none"}  BY DEF Verdicts
        <4>4. /\ verdict' \in Verdicts
              /\ phase' \in {"start", "monitor", "soak", "gather", "done"}
          BY <1>1, <1>4, <4>0, <4>3 DEF Progresses
        <4>5. snapshot' \in BOOLEAN  BY <1>1, <4>0 DEF Progresses
        <4> QED  BY <1>0, <1>1, <2>1, <3>1, <3>2, <4>1, <4>2, <4>4, <4>5 DEF TypeOK
      <3>4. CASE Failure(t, s.signals) # "none"
        <4>1. Failure(t, s.signals) \in Verdicts \ {"none"}  BY <3>4, FailureFact DEF Verdicts
        <4>2. Ends(Failure(t, s.signals)) /\ UNCHANGED <<progress, last, snapshot>>
          BY <2>3, <3>4 DEF Evaluates
        <4>3. /\ verdict' \in Verdicts
              /\ phase' \in {"start", "monitor", "soak", "gather", "done"}
          BY <1>4, <4>1, <4>2
        <4> QED  BY <1>0, <1>1, <1>2, <2>1, <3>1, <3>2, <4>2, <4>3 DEF TypeOK
      <3> QED  BY <3>3, <3>4
    <2> QED  BY <1>6, <2>2, <2>3
  <1> QED  BY <1>5, <1>6 DEF Poll

LEMMA StepType ==
    ASSUME TypeOK, Starts \/ SoakEnds \/ Cancel \/ GatherDiagnostics
    PROVE  TypeOK'
  <1>0. UNCHANGED <<now, monitoring, snapshot, polls>>
    BY DEF Starts, SoakEnds, Cancel, GatherDiagnostics
  <1>1. /\ verdict' \in Verdicts
        /\ phase' \in {"start", "monitor", "soak", "gather", "done"}
        /\ report' \subseteq {"events", "pods", "logs"}
    <2>1. CASE Starts  BY <2>1 DEF Starts, TypeOK
    <2>2. CASE SoakEnds
      <3>1. PICK v \in {"soak: unreadable", "soak: unstable", "success"} : Ends(v)
        BY <2>2 DEF SoakEnds
      <3> QED  BY <2>2, <3>1 DEF SoakEnds, Ends, Verdicts, TypeOK
    <2>3. CASE Cancel  BY <2>3 DEF Cancel, Ends, Verdicts, TypeOK
    <2>4. CASE GatherDiagnostics  BY <2>4 DEF GatherDiagnostics, TypeOK
    <2> QED  BY <2>1, <2>2, <2>3, <2>4
  <1> QED  BY <1>0, <1>1 DEF TypeOK, monitoring

LEMMA NextType ==
    ASSUME TypeOK, [Next]_vars
    PROVE  TypeOK'
  <1>1. ASSUME NEW d \in 1 .. MaxLate, Poll(now + d) PROVE TypeOK'
    <2>1. now \in Nat /\ MaxLate \in Nat  BY AnalyzerAssumption DEF TypeOK
    <2>2. now + d \in Nat /\ now + d > now  BY <2>1
    <2> QED  BY <1>1, <2>2, PollType
  <1>2. CASE UNCHANGED vars  BY <1>2 DEF vars, monitoring, TypeOK
  <1> QED  BY <1>1, <1>2, StepType DEF Next

LEMMA InitType == Init => TypeOK
  <1> SUFFICES ASSUME Init PROVE TypeOK  OBVIOUS
  <1>1. now \in Nat /\ progress \in 0 .. now /\ waitingSince \in 0 .. now  BY DEF Init
  <1>2. polls \subseteq [at : 1 .. now, sees : Sights] /\ report \subseteq {"events", "pods", "logs"}
    BY DEF Init
  <1>3. phase \in {"start", "monitor", "soak", "gather", "done"} /\ verdict \in Verdicts
    BY DEF Init, Verdicts
  <1> QED  BY <1>1, <1>2, <1>3 DEF Init, TypeOK

\* Every variable keeps its type: the times never pass the last poll, and a
\* report has only the sections gatherDiagnostics knows.
THEOREM TypeCorrect == Spec => []TypeOK
  BY InitType, NextType, PTL DEF Spec

------------------------------------------------------------------------------
(* The verdict is earned *)

\* The three ways a poll that looks can end.
LEMMA PollOutcome ==
    ASSUME Inv, phase = "monitor", TypeOK', report' = report,
           NEW n, n.at \in Nat, n.at > now, polls' = polls \cup {n}, now' = n.at,
           \/ Justified(n)' = "none" /\ phase' = "monitor" /\ verdict' = verdict /\ Remembers'
           \/ Justified(n)' \in PollVerdicts /\ phase' = "gather" /\ verdict' = Justified(n)'
           \/ Justified(n)' = "converged" /\ phase' = "soak" /\ verdict' = verdict
    PROVE  Inv'
  <1>0. /\ TypeOK /\ OnePollAtATime /\ verdict = "none" /\ VerdictIsEarned
        /\ \A r \in polls : Justified(r) = "none"
    BY DEF Inv, VerdictIsEarned
  <1>1. \A r \in polls : Justified(r)' = "none"  BY <1>0, JustifiedStays
  <1>2. report' = {}  BY <1>0 DEF VerdictIsEarned
  <1>3. OnePollAtATime'
    <2>1. \A r \in polls : r.at # n.at  BY <1>0, PollFact
    <2> QED  BY <1>0, <2>1 DEF OnePollAtATime
  <1>4. n \in polls'  OBVIOUS
  <1>5. CASE Justified(n)' = "none" /\ phase' = "monitor" /\ verdict' = verdict /\ Remembers'
    <2>1. VerdictIsEarned'
      BY <1>0, <1>1, <1>2, <1>5 DEF VerdictIsEarned, PollVerdicts, Soaked, Timeouts
    <2> QED  BY <1>0, <1>3, <1>5, <2>1 DEF Inv
  <1>6. CASE Justified(n)' \in PollVerdicts /\ phase' = "gather" /\ verdict' = Justified(n)'
    <2>1. /\ verdict' \notin Timeouts /\ verdict' \notin Soaked
          /\ verdict' \notin {"none", "success"}
      BY <1>6 DEF PollVerdicts, Soaked, Timeouts
    <2>2. \A q \in polls' : Justified(q)' # "none" => q.at = now' /\ phase' # "monitor"
      BY <1>1, <1>6
    <2>3. VerdictIsEarned'  BY <1>4, <1>6, <2>1, <2>2 DEF VerdictIsEarned
    <2> QED  BY <1>3, <1>6, <2>1, <2>3 DEF Inv
  <1>7. CASE Justified(n)' = "converged" /\ phase' = "soak" /\ verdict' = verdict
    <2>1. verdict' \notin Timeouts /\ verdict' \notin PollVerdicts
      BY <1>0, <1>7 DEF PollVerdicts, Timeouts
    <2>2. \A q \in polls' : Justified(q)' # "none" => q.at = now' /\ phase' # "monitor"
      BY <1>1, <1>7
    <2>3. VerdictIsEarned'  BY <1>2, <1>4, <1>7, <2>1, <2>2 DEF VerdictIsEarned
    <2> QED  BY <1>0, <1>3, <1>7, <2>3 DEF Inv
  <1> QED  BY <1>5, <1>6, <1>7

LEMMA TimesOutKeeps ==
    ASSUME Inv, NEW t \in Nat, t > now, phase = "monitor", now' = t, report' = report,
           TimesOut(t), TypeOK'
    PROVE  Inv'
  <1>0. /\ TypeOK /\ OnePollAtATime /\ VerdictIsEarned /\ Remembers
        /\ \A r \in polls : Justified(r) = "none"
    BY DEF Inv, VerdictIsEarned
  <1>1. now \in Nat /\ polls' = polls /\ now' \in Nat /\ now' >= now
    <2>1. now \in Nat  BY <1>0 DEF TypeOK
    <2>2. polls' = polls  BY DEF TimesOut
    <2> QED  BY <2>1, <2>2
  <1>2. /\ MoveTimes' = MoveTimes /\ (EndsPaused' <=> EndsPaused)
        /\ \A q : Justified(q)' = Justified(q)
    BY <1>0, <1>1, Frame
  <1>3. ProgressIsRight /\ (lastSeenPaused <=> EndsPaused)  BY <1>0 DEF Remembers
  <1>4. (\E m \in MoveTimes : t - m < InactivityTimeout) <=> t - progress < InactivityTimeout
    BY <1>0, <1>3, TimeoutFact
  <1>5. verdict' = IF lastSeenPaused THEN "timeout: paused"
                   ELSE IF t - progress < InactivityTimeout THEN "timeout: inconclusive"
                   ELSE "timeout: stalled"
    BY DEF TimesOut, Ends
  <1>6. JustifiedByTimeout' =
          IF EndsPaused THEN "timeout: paused"
          ELSE IF \E m \in MoveTimes : t - m < InactivityTimeout THEN "timeout: inconclusive"
          ELSE "timeout: stalled"
    BY <1>2 DEF JustifiedByTimeout
  <1>7. verdict' = JustifiedByTimeout'  BY <1>3, <1>4, <1>5, <1>6
  <1>8. verdict' \in Timeouts  BY <1>5 DEF Timeouts
  <1>9. /\ verdict' \notin PollVerdicts /\ verdict' \notin Soaked
        /\ verdict' \notin {"none", "success"}
    BY <1>8 DEF PollVerdicts, Soaked, Timeouts
  <1>10. phase' = "gather"  BY <1>9 DEF TimesOut, Ends
  <1>11. now' > AbsoluteTimeout  BY DEF TimesOut
  <1>12. VerdictIsEarned'
    BY <1>0, <1>1, <1>2, <1>7, <1>9, <1>10, <1>11 DEF VerdictIsEarned
  <1>13. OnePollAtATime'  BY <1>0, <1>1 DEF OnePollAtATime
  <1> QED  BY <1>9, <1>10, <1>12, <1>13 DEF Inv

LEMMA NoStatusKeeps ==
    ASSUME Inv, NEW t \in Nat, t > now, phase = "monitor", now' = t, report' = report,
           NEW s \in Sights, NEW n, n = [at |-> t, sees |-> s], polls' = polls \cup {n},
           NoStatus(t, s), TypeOK'
    PROVE  Inv'
  <1>0. TypeOK /\ OnePollAtATime /\ Remembers /\ verdict = "none"  BY DEF Inv
  <1>1. LastIsRight /\ ProgressIsRight /\ (lastSeenPaused <=> EndsPaused) /\ TimerIsRight
    BY <1>0 DEF Remembers
  <1>2. n.at = t /\ n.sees = s  OBVIOUS
  <1>3. s.kind \in {"error", "gone", "mismatch", "paused"}  BY DEF NoStatus
  <1>4. ~Status(n) /\ ~Readable(n)  BY <1>2, <1>3 DEF Status, Readable
  <1>5. CASE s.kind = "gone"
    <2>1. Justified(n)' = "deleted"  BY <1>2, <1>5 DEF Justified
    <2>2. verdict' = "deleted" /\ phase' = "gather"  BY <1>5 DEF NoStatus, Ends
    <2> QED  BY <1>2, <2>1, <2>2, PollOutcome DEF PollVerdicts
  <1>6. CASE s.kind # "gone"
    <2>1. Justified(n)' = "none"  BY <1>2, <1>4, <1>6 DEF Justified, Status
    <2>2. phase' = "monitor" /\ verdict' = verdict  BY <1>6 DEF NoStatus
    <2>3. last' = last /\ waitingSince' = waitingSince  BY <1>6 DEF NoStatus, monitoring
    <2>4. LastIsRight'  BY <1>0, <1>1, <1>2, <1>4, <2>3, LastNext
    <2>5. TimerIsRight'  BY <1>0, <1>1, <1>2, <1>4, <2>3, TimerNext
    <2>6. ProgressIsRight'
      <3>1. Moved(n)' <=> s.kind = "mismatch"  BY <1>0, <1>1, <1>2, <1>4, MovedNext
      <3>2. progress' = IF Moved(n)' THEN n.at ELSE progress
        BY <1>2, <1>6, <3>1 DEF NoStatus, monitoring
      <3> QED  BY <1>0, <1>1, <1>2, <3>2, HasStalledNext DEF ProgressIsRight
    <2>7. lastSeenPaused' <=> EndsPaused'
      <3>1. CASE s.kind = "paused"
        <4>1. lastSeenPaused' = TRUE  BY <3>1 DEF NoStatus, monitoring
        <4>2. EndsPaused'  BY <1>0, <1>2, <3>1, PausedNext
        <4> QED  BY <4>1, <4>2
      <3>2. CASE s.kind # "paused"
        <4>1. lastSeenPaused' = lastSeenPaused  BY <1>6, <3>2 DEF NoStatus, monitoring
        <4>2. EndsPaused' <=> EndsPaused  BY <1>0, <1>2, <1>4, <3>2, PausedNext
        <4> QED  BY <1>1, <4>1, <4>2
      <3> QED  BY <3>1, <3>2
    <2>8. Remembers'  BY <2>4, <2>5, <2>6, <2>7 DEF Remembers
    <2> QED  BY <1>2, <2>1, <2>2, <2>8, PollOutcome
  <1> QED  BY <1>5, <1>6

LEMMA EvaluatesKeeps ==
    ASSUME Inv, NEW t \in Nat, t > now, phase = "monitor", now' = t, report' = report,
           NEW s \in Sights, NEW n, n = [at |-> t, sees |-> s], polls' = polls \cup {n},
           Evaluates(t, s), TypeOK'
    PROVE  Inv'
  <1>0. TypeOK /\ OnePollAtATime /\ Remembers /\ verdict = "none"  BY DEF Inv
  <1>1. LastIsRight /\ ProgressIsRight /\ (lastSeenPaused <=> EndsPaused) /\ TimerIsRight
    BY <1>0 DEF Remembers
  <1>2. n.at = t /\ n.sees = s /\ n.at \in Nat /\ n.at > now /\ now' = n.at  OBVIOUS
  <1>3. s.kind = "status" /\ Status(n)  BY <1>2 DEF Evaluates, Status
  <1> DEFINE m == IF Forward(last, s.counts) THEN t ELSE progress
  <1>4. Justified(n)' =
          IF Failure(t, s.signals) # "none" THEN Failure(t, s.signals)
          ELSE IF t - m > InactivityTimeout THEN "stalled"
          ELSE IF Converged(s.counts) THEN "converged" ELSE "none"
    <2>1. m = IF Forward(last, n.sees.counts) THEN n.at ELSE progress  BY <1>2
    <2> HIDE DEF m
    <2> QED  BY <1>0, <1>1, <1>2, <1>3, <2>1, JustifiedNext
  <1>5. CASE Failure(t, s.signals) # "none"
    <2>1. Ends(Failure(t, s.signals))  BY <1>5 DEF Evaluates
    <2>2. Failure(t, s.signals) \in PollVerdicts  BY <1>5, FailureFact DEF PollVerdicts
    <2>3. verdict' = Failure(t, s.signals) /\ phase' = "gather"
      BY <2>1, <2>2 DEF Ends, PollVerdicts
    <2>4. Justified(n)' = Failure(t, s.signals)  BY <1>4, <1>5
    <2> QED  BY <1>2, <2>2, <2>3, <2>4, PollOutcome
  <1>6. CASE Failure(t, s.signals) = "none"
    <2>0. Progresses(t, s)  BY <1>6 DEF Evaluates
    <2>1. progress' = m  BY <2>0 DEF Progresses
    <2>2. CASE t - progress' > InactivityTimeout
      <3>1. verdict' = "stalled" /\ phase' = "gather"  BY <2>0, <2>2 DEF Progresses, Ends
      <3>2. Justified(n)' = "stalled"  BY <1>4, <1>6, <2>1, <2>2
      <3> QED  BY <1>2, <3>1, <3>2, PollOutcome DEF PollVerdicts
    <2>3. CASE ~(t - progress' > InactivityTimeout) /\ Converged(s.counts)
      <3>1. verdict' = verdict /\ phase' = "soak"  BY <2>0, <2>3 DEF Progresses
      <3>2. Justified(n)' = "converged"  BY <1>4, <1>6, <2>1, <2>3
      <3> QED  BY <1>2, <3>1, <3>2, PollOutcome
    <2>4. CASE ~(t - progress' > InactivityTimeout) /\ ~Converged(s.counts)
      <3>1. verdict' = verdict /\ phase' = "monitor"  BY <2>0, <2>4 DEF Progresses
      <3>2. Justified(n)' = "none"  BY <1>4, <1>6, <2>1, <2>4
      <3>3. LastIsRight'
        <4>1. last' = IF Status(n) THEN n.sees.counts ELSE last
          BY <1>2, <1>3, <2>0 DEF Progresses
        <4> QED  BY <1>0, <1>1, <1>2, <4>1, LastNext
      <3>4. ProgressIsRight'
        <4>1. Moved(n)' <=> Forward(last, s.counts)
          BY <1>0, <1>1, <1>2, <1>3, MovedNext
        <4>2. progress' = IF Moved(n)' THEN n.at ELSE progress  BY <1>2, <2>1, <4>1
        <4> QED  BY <1>0, <1>1, <1>2, <4>2, HasStalledNext DEF ProgressIsRight
      <3>5. TimerIsRight'
        <4>1. "exceeded" \notin s.signals  BY <1>6 DEF Failure
        <4>2. waitingSince' = Timer(t, s.signals)  BY DEF Evaluates
        <4>3. waitingSince' = IF ~Readable(n) THEN waitingSince
                              ELSE IF ~Waiting(n) THEN 0
                              ELSE IF waitingSince = 0 THEN n.at ELSE waitingSince
          BY <1>2, <1>3, <4>1, <4>2 DEF Timer, Readable, Waiting
        <4> QED  BY <1>0, <1>1, <1>2, <4>3, TimerNext
      <3>6. lastSeenPaused' <=> EndsPaused'
        <4>1. lastSeenPaused' = FALSE  BY DEF Evaluates
        <4>2. ~EndsPaused'  BY <1>0, <1>2, <1>3, PausedNext
        <4> QED  BY <4>1, <4>2
      <3>7. Remembers'  BY <3>3, <3>4, <3>5, <3>6 DEF Remembers
      <3> QED  BY <1>2, <3>1, <3>2, <3>7, PollOutcome
    <2> QED  BY <2>2, <2>3, <2>4
  <1> QED  BY <1>5, <1>6

LEMMA PollKeeps ==
    ASSUME Inv, NEW t \in Nat, t > now, Poll(t)
    PROVE  Inv'
  <1>1. phase = "monitor" /\ now' = t /\ report' = report  BY DEF Poll
  <1>2. TypeOK'  BY PollType DEF Inv
  <1>3. CASE TimesOut(t)  BY <1>1, <1>2, <1>3, TimesOutKeeps
  <1>4. ASSUME NEW s \in Sights, polls' = polls \cup {[at |-> t, sees |-> s]}, NoStatus(t, s)
        PROVE Inv'
    BY <1>1, <1>2, <1>4, NoStatusKeeps
  <1>5. ASSUME NEW s \in Sights, polls' = polls \cup {[at |-> t, sees |-> s]}, Evaluates(t, s)
        PROVE Inv'
    BY <1>1, <1>2, <1>5, EvaluatesKeeps
  <1> QED  BY <1>3, <1>4, <1>5 DEF Poll

LEMMA StepKeeps ==
    ASSUME Inv, Starts \/ SoakEnds \/ Cancel \/ GatherDiagnostics
    PROVE  Inv'
  <1>0. TypeOK /\ OnePollAtATime /\ VerdictIsEarned  BY DEF Inv
  <1>1. UNCHANGED <<now, progress, last, waitingSince, lastSeenPaused, snapshot, polls>>
    BY DEF Starts, SoakEnds, Cancel, GatherDiagnostics, monitoring
  <1>2. TypeOK'  BY <1>0, StepType
  <1>3. now \in Nat  BY <1>0 DEF TypeOK
  <1>4. now' \in Nat /\ now' >= now /\ polls' = polls  BY <1>1, <1>3
  <1>5. /\ MoveTimes' = MoveTimes /\ (EndsPaused' <=> EndsPaused)
        /\ \A q : Justified(q)' = Justified(q)
    BY <1>0, <1>4, Frame
  <1>6. JustifiedByTimeout' = JustifiedByTimeout  BY <1>1, <1>5 DEF JustifiedByTimeout
  <1>7. OnePollAtATime'  BY <1>0, <1>1 DEF OnePollAtATime
  <1>8. Remembers => Remembers'
    <2>1. LastIsRight => LastIsRight'
      <3>1. \A r : LastStatus(r)' <=> LastStatus(r)  BY <1>1 DEF LastStatus, Status
      <3> QED  BY <1>1, <3>1 DEF LastIsRight, Status
    <2>2. ProgressIsRight => ProgressIsRight'  BY <1>1, <1>5 DEF ProgressIsRight
    <2>3. TimerIsRight => TimerIsRight'
      <3>1. \A p : WaitsFrom(p)' <=> WaitsFrom(p)
        BY <1>1 DEF WaitsFrom, Waiting, Readable, Status
      <3> QED  BY <1>1, <3>1 DEF TimerIsRight
    <2> QED  BY <1>1, <1>5, <2>1, <2>2, <2>3 DEF Remembers
  <1>9. CASE Starts
    <2>1. /\ polls = {} /\ polls' = {} /\ Remembers' /\ phase' \in {"monitor", "done"}
          /\ verdict' = "none" /\ report' = {}
      BY <1>1, <1>8, <1>9 DEF Starts, Inv, VerdictIsEarned
    <2>2. VerdictIsEarned'  BY <2>1 DEF VerdictIsEarned, PollVerdicts, Soaked, Timeouts
    <2> QED  BY <1>2, <1>7, <2>1, <2>2 DEF Inv
  <1>10. CASE SoakEnds
    <2>1. phase = "soak" /\ report' = report  BY <1>10 DEF SoakEnds
    <2>2. report = {}  BY <2>1 DEF Inv, VerdictIsEarned
    <2>3. PICK v \in Soaked : Ends(v)  BY <1>10 DEF SoakEnds, Soaked
    <2>4. /\ verdict' \in Soaked /\ phase' \in {"gather", "done"}
          /\ (phase' = "gather" => verdict' # "success")
      BY <2>3 DEF Ends
    <2>5. verdict' \notin PollVerdicts /\ verdict' \notin Timeouts /\ verdict' # "none"
      BY <2>4 DEF Soaked, PollVerdicts, Timeouts
    <2>6. \A q \in polls' : Justified(q)' # "none" => q.at = now' /\ phase' # "monitor"
      BY <1>0, <1>1, <1>5, <2>4 DEF VerdictIsEarned
    <2>7. \E q \in polls' : q.at = now' /\ Justified(q)' = "converged"
      BY <1>0, <1>1, <1>5, <2>1 DEF VerdictIsEarned
    <2>8. VerdictIsEarned'  BY <2>1, <2>2, <2>5, <2>6, <2>7 DEF VerdictIsEarned
    <2> QED  BY <1>2, <1>7, <2>4, <2>5, <2>8 DEF Inv
  <1>11. CASE Cancel
    <2>1. phase' = "gather" /\ verdict' = "cancelled"  BY <1>11 DEF Cancel, Ends
    <2>2. \A q \in polls' : Justified(q)' # "none" => q.at = now' /\ phase' # "monitor"
      BY <1>0, <1>1, <1>5, <2>1 DEF VerdictIsEarned
    <2>3. VerdictIsEarned'
      BY <2>1, <2>2 DEF VerdictIsEarned, PollVerdicts, Soaked, Timeouts
    <2> QED  BY <1>2, <1>7, <2>1, <2>3 DEF Inv
  <1>12. CASE GatherDiagnostics
    <2>1. /\ phase = "gather" /\ phase' = "done" /\ verdict' = verdict
          /\ verdict \notin {"none", "success"}
      BY <1>12 DEF GatherDiagnostics, Inv
    <2>2. \A q \in polls' : Justified(q)' # "none" => q.at = now' /\ phase' # "monitor"
      BY <1>0, <1>1, <1>5, <2>1 DEF VerdictIsEarned
    <2>3. verdict' \in PollVerdicts => \E q \in polls' : q.at = now' /\ Justified(q)' = verdict'
      BY <1>0, <1>1, <1>5, <2>1 DEF VerdictIsEarned
    <2>4. verdict' \in Soaked => \E q \in polls' : q.at = now' /\ Justified(q)' = "converged"
      BY <1>0, <1>1, <1>5, <2>1 DEF VerdictIsEarned
    <2>5. verdict' \in Timeouts => now' > AbsoluteTimeout /\ verdict' = JustifiedByTimeout'
      BY <1>0, <1>1, <1>6, <2>1 DEF VerdictIsEarned
    <2>6. VerdictIsEarned'  BY <2>1, <2>2, <2>3, <2>4, <2>5 DEF VerdictIsEarned
    <2> QED  BY <1>2, <1>7, <2>1, <2>6 DEF Inv
  <1> QED  BY <1>9, <1>10, <1>11, <1>12

LEMMA InitInv == Init => Inv
  <1> SUFFICES ASSUME Init PROVE Inv  OBVIOUS
  <1>1. TypeOK  BY InitType
  <1>2. polls = {} /\ phase = "start" /\ verdict = "none" /\ report = {}  BY DEF Init
  <1>3. Remembers
    <2>1. MoveTimes = {0}  BY <1>2 DEF MoveTimes
    <2>2. ProgressIsRight  BY <2>1 DEF ProgressIsRight, Init
    <2>3. LastIsRight  BY <1>2 DEF LastIsRight, Init
    <2>4. TimerIsRight  BY <1>2 DEF TimerIsRight, WaitsFrom, Init
    <2>5. lastSeenPaused <=> EndsPaused  BY <1>2 DEF EndsPaused, Init
    <2> QED  BY <2>2, <2>3, <2>4, <2>5 DEF Remembers
  <1>4. VerdictIsEarned  BY <1>2 DEF VerdictIsEarned, PollVerdicts, Soaked, Timeouts
  <1> QED  BY <1>1, <1>2, <1>3, <1>4 DEF Inv, OnePollAtATime

LEMMA NextInv ==
    ASSUME Inv, [Next]_vars
    PROVE  Inv'
  <1>1. ASSUME NEW d \in 1 .. MaxLate, Poll(now + d) PROVE Inv'
    <2>1. now \in Nat /\ MaxLate \in Nat  BY AnalyzerAssumption DEF Inv, TypeOK
    <2>2. now + d \in Nat /\ now + d > now  BY <2>1
    <2> QED  BY <1>1, <2>2, PollKeeps
  <1>2. CASE UNCHANGED vars
    <2>0. TypeOK /\ now \in Nat  BY DEF Inv, TypeOK
    <2>1. /\ now' = now /\ polls' = polls /\ phase' = phase /\ verdict' = verdict
          /\ report' = report
          /\ UNCHANGED <<progress, last, waitingSince, lastSeenPaused, snapshot>>
      BY <1>2 DEF vars, monitoring
    <2>2. now' \in Nat /\ now' >= now  BY <2>0, <2>1
    <2>3. /\ MoveTimes' = MoveTimes /\ (EndsPaused' <=> EndsPaused)
          /\ \A q : Justified(q)' = Justified(q)
      BY <2>0, <2>1, <2>2, Frame
    <2>4. JustifiedByTimeout' = JustifiedByTimeout  BY <2>1, <2>3 DEF JustifiedByTimeout
    <2>5. VerdictIsEarned'  BY <2>1, <2>3, <2>4 DEF Inv, VerdictIsEarned
    <2>6. Remembers => Remembers'
      <3>1. \A r : LastStatus(r)' <=> LastStatus(r)  BY <2>1 DEF LastStatus, Status
      <3>2. \A p : WaitsFrom(p)' <=> WaitsFrom(p)
        BY <2>1 DEF WaitsFrom, Waiting, Readable, Status
      <3>3. LastIsRight => LastIsRight'  BY <2>1, <3>1 DEF LastIsRight, Status
      <3>4. ProgressIsRight => ProgressIsRight'  BY <2>1, <2>3 DEF ProgressIsRight
      <3>5. TimerIsRight => TimerIsRight'  BY <2>1, <3>2 DEF TimerIsRight
      <3> QED  BY <2>1, <2>3, <3>3, <3>4, <3>5 DEF Remembers
    <2>7. TypeOK'  BY <2>0, <1>2, NextType
    <2>8. OnePollAtATime'  BY <2>1 DEF Inv, OnePollAtATime
    <2> QED  BY <2>1, <2>5, <2>6, <2>7, <2>8 DEF Inv
  <1> QED  BY <1>1, <1>2, StepKeeps DEF Next

\* Whatever errors, pauses, lags of the controller and unreadable pods the polls
\* of monitorRollout meet, its verdict is the one that they justify, given by the
\* first of them that does; a timeout is classified by what was seen last.
THEOREM VerdictIsTheFirstEarned == Spec => []VerdictIsEarned
  <1>1. Inv => VerdictIsEarned  BY DEF Inv
  <1> QED  BY <1>1, InitInv, NextInv, PTL DEF Spec
==============================================================================
