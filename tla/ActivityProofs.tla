----------------------------- MODULE ActivityProofs -----------------------------
(***************************************************************************)
(* What the event log guarantees for every retention window and interval,  *)
(* whatever the monitoring levels are and let through.                     *)
(*                                                                         *)
(* How old an event can get is decided at the next sweep, so that AgeInv   *)
(* speaks of that moment.  LevelInv says that the level an append has got  *)
(* so far lets nothing through that some level it has seen set does not.   *)
(*                                                                         *)
(* The second half is about what the usage query computes from any finite  *)
(* set of sightings, and so of the log in every state. UsageSince runs     *)
(* over the rows in order: that there is such an order, that the running   *)
(* total exists and what it is after each row are claims about all numbers *)
(* up to the number of rows, proved by looking at the least one that       *)
(* breaks them.                                                            *)
(***************************************************************************)
EXTENDS Activity, FiniteSetTheorems, Arithmetic

\* The next sweep is ahead, and no event will be too old at it.
AgeInv ==
    /\ now \in Nat
    /\ \A e \in events : e.recorded \in Nat
    /\ up => sweepAt \in now .. (now + Every)
    /\ skipped # None =>
         /\ up /\ skipped \in Nat
         /\ \A e \in events : sweepAt - e.recorded <= Window + Every * (1 + skipped)

LEMMA Durations == Window \in Nat /\ Every \in Nat
  BY LogAssumption

LEMMA MoreSkipped ==
    ASSUME NEW n \in Nat
    PROVE  /\ Every * (1 + n) \in Nat
           /\ Every * (1 + (n + 1)) = Every * (1 + n) + Every
           /\ Every <= Every * (1 + n)
  <1>1. Every \in Nat /\ Every * n \in Nat
    BY Durations
  <1>2. Every * (1 + n) = Every + Every * n /\ Every * (1 + (n + 1)) = Every + Every * n + Every
    BY <1>1
  <1>3. QED
    BY <1>1, <1>2

\* An event that is recorded now will be one interval old at most.
LEMMA NewIsYoung ==
    ASSUME AgeInv, NEW new, \A e \in new : e.recorded = now,
           events' = events \union new, UNCHANGED <<now, up, sweepAt, skipped>>
    PROVE  AgeInv'
  <1>1. ASSUME skipped # None, NEW e \in new
        PROVE  sweepAt - e.recorded <= Window + Every * (1 + skipped)
    <2> DEFINE all == Every * (1 + skipped)
    <2>1. all \in Nat /\ Every <= all
      BY <1>1, MoreSkipped DEF AgeInv
    <2>2. now \in Nat /\ sweepAt \in now .. (now + Every) /\ e.recorded = now
      BY <1>1 DEF AgeInv
    <2> HIDE DEF all
    <2>3. sweepAt - e.recorded <= Window + all
      BY <2>1, <2>2, Durations
    <2>4. QED
      BY <2>3 DEF all
  <1>2. QED
    BY <1>1 DEF AgeInv

LEMMA SightingsAreYoung ==
    ASSUME AgeInv, NEW seenNow, AppendSeen(seenNow),
           \A e \in seenNow : \E d, at : e = Seen(d, at),
           UNCHANGED <<now, up, sweepAt, skipped>>
    PROVE  AgeInv'
  <1>1. \A e \in seenNow : e.recorded = now
    BY DEF Seen
  <1>2. events' = events \union seenNow
    BY DEF AppendSeen
  <1>3. QED
    BY <1>1, <1>2, NewIsYoung

\* A sweep that succeeds leaves what is younger than the window; each one that
\* fails adds an interval.
LEMMA SweepKeepsAge ==
    ASSUME AgeInv, Sweep, up, up' = up
    PROVE  AgeInv'
  <1>1. now \in Nat /\ now' = now /\ sweepAt = now /\ sweepAt' = now + Every
    BY DEF Sweep, AgeInv
  <1>2. CASE events' = Kept /\ skipped' = 0
    <2>1. ASSUME NEW e \in events, e.recorded >= now - Window
          PROVE  (now + Every) - e.recorded <= Window + Every
      BY <1>1, <2>1, Durations DEF AgeInv
    <2>2. Every * (1 + 0) = Every
      BY Durations
    <2>3. \A e \in events' : sweepAt' - e.recorded <= Window + Every * (1 + skipped')
      BY <1>1, <1>2, <2>1, <2>2 DEF Kept
    <2>4. sweepAt' \in now' .. (now' + Every)
      BY <1>1, Durations
    <2>5. QED
      BY <1>1, <1>2, <2>3, <2>4 DEF AgeInv, Kept
  <1>3. CASE events' = events /\ skipped' = IF skipped = None THEN None ELSE skipped + 1
    <2>1. sweepAt' \in now' .. (now' + Every)
      BY <1>1, Durations
    <2>2. CASE skipped = None
      BY <1>1, <1>3, <2>1, <2>2 DEF AgeInv
    <2>3. CASE skipped # None
      <3> DEFINE all == Every * (1 + skipped)
                 next == Every * (1 + (skipped + 1))
      <3>1. skipped \in Nat /\ all \in Nat /\ next = all + Every
        BY <2>3, MoreSkipped DEF AgeInv
      <3>2. \A e \in events : e.recorded \in Nat /\ sweepAt - e.recorded <= Window + all
        BY <2>3 DEF AgeInv
      <3> HIDE DEF all, next
      <3>3. \A e \in events : sweepAt' - e.recorded <= Window + next
        BY <1>1, <3>1, <3>2, Durations
      <3>4. \A e \in events' : sweepAt' - e.recorded <= Window + Every * (1 + skipped')
        BY <1>3, <2>3, <3>3 DEF next
      <3>5. QED
        BY <1>1, <1>3, <2>1, <2>3, <3>1, <3>4 DEF AgeInv
    <2>4. QED
      BY <2>2, <2>3
  <1>4. QED
    BY <1>2, <1>3 DEF Sweep

-------------------------------------------------------------------------------

\* What may be stored of the levels that were set.
AllowedBy(asked, level) ==
    \E l \in asked : Allows[level] \subseteq Allows[IF l = None THEN Least ELSE l]

\* The levels, and what an append that is under way knows of them.
LevelInv ==
    /\ person \in LevelSet /\ override \in LevelSet
    /\ append # None =>
         /\ append = [pc |-> append.pc, device |-> append.device, at |-> append.at,
                      level |-> append.level, asked |-> append.asked]
         /\ append.level \in Level /\ append.asked \subseteq LevelSet
         /\ person \in append.asked /\ override \in append.asked
         /\ AllowedBy(append.asked, append.level)

LEMMA LeastIsAllowed ==
    ASSUME NEW asked \in SUBSET LevelSet, NEW l \in asked
    PROVE  AllowedBy(asked, Least)
  BY LogAssumption DEF AllowedBy, LevelSet

\* The read of a level that is set leaves nothing through that it does not.
LEMMA LevelIsAllowed ==
    ASSUME NEW asked \in SUBSET LevelSet, NEW l \in asked, l \in Level
    PROVE  AllowedBy(asked, l)
  BY LogAssumption DEF AllowedBy

LEMMA StartKeepsLevel ==
    ASSUME LevelInv, NEW d, NEW at, NEW owned, StartBlock(d, at, owned)
    PROVE  LevelInv'
  <1> DEFINE a == [pc |-> IF owned THEN "policy" ELSE "insert", device |-> d, at |-> at,
                   level |-> Least, asked |-> {person, override}]
  <1>1. append' = a /\ UNCHANGED <<person, override>>
    BY DEF StartBlock
  <1>2. a.asked = {person, override} /\ a.level = Least /\ a.asked \in SUBSET LevelSet
    BY DEF LevelInv
  <1>3. AllowedBy(a.asked, a.level)
    BY <1>2, LeastIsAllowed
  <1>4. a = [pc |-> a.pc, device |-> a.device, at |-> a.at, level |-> a.level, asked |-> a.asked]
    OBVIOUS
  <1> HIDE DEF a
  <1>5. QED
    BY <1>1, <1>2, <1>3, <1>4, LogAssumption DEF LevelInv

\* The steps of an append read levels that it has seen set, or stay with one.
LEMMA ReadKeepsLevel ==
    ASSUME LevelInv, ReadPolicy \/ ReadOverride
    PROVE  LevelInv'
  <1> USE DEF Appending
  <1>1. append # None /\ UNCHANGED <<person, override>>
    BY DEF ReadPolicy, ReadOverride
  <1>2. append = [pc |-> append.pc, device |-> append.device, at |-> append.at,
                  level |-> append.level, asked |-> append.asked]
    BY <1>1 DEF LevelInv
  <1>3. /\ append' = [pc |-> append'.pc, device |-> append'.device, at |-> append'.at,
                      level |-> append'.level, asked |-> append'.asked]
        /\ append'.asked = append.asked
        /\ \/ append'.level \in {append.level, Least, person}
           \/ append'.level = override
        /\ append'.level \in {append.level, Least} \/ append'.level \in Level
    <2>1. CASE ReadPolicy
      BY <1>1, <1>2, <2>1 DEF ReadPolicy, LevelInv, LevelSet
    <2>2. CASE ReadOverride
      BY <1>1, <1>2, <2>2 DEF ReadOverride, LevelInv, LevelSet
    <2>3. QED
      BY <2>1, <2>2
  <1>4. append'.level \in Level /\ AllowedBy(append.asked, append'.level)
    BY <1>1, <1>3, LogAssumption, LeastIsAllowed, LevelIsAllowed DEF LevelInv
  <1>5. QED
    BY <1>1, <1>3, <1>4 DEF LevelInv

\* A level that is stored meanwhile joins those it has seen.
LEMMA AskKeepsLevel ==
    ASSUME LevelInv, NEW l \in LevelSet, SetPerson(l) \/ SetOverride(l)
    PROVE  LevelInv'
  <1>1. person' \in LevelSet /\ override' \in LevelSet /\ Ask
    BY DEF SetPerson, SetOverride, LevelInv
  <1>2. CASE append = None
    BY <1>1, <1>2 DEF Ask, LevelInv
  <1>3. CASE append # None
    <2>1. append' = [append EXCEPT !.asked = append.asked \union {person', override'}]
      BY <1>1, <1>3 DEF Ask
    <2>2. /\ append' = [pc |-> append'.pc, device |-> append'.device, at |-> append'.at,
                        level |-> append'.level, asked |-> append'.asked]
          /\ append'.level = append.level
          /\ append'.asked = append.asked \union {person', override'}
      BY <1>3, <2>1 DEF LevelInv
    <2>3. AllowedBy(append'.asked, append'.level)
      BY <1>3, <2>2 DEF LevelInv, AllowedBy
    <2>4. QED
      BY <1>1, <1>3, <2>2, <2>3 DEF LevelInv
  <1>4. QED
    BY <1>2, <1>3

-------------------------------------------------------------------------------

IInv == AgeInv /\ LevelInv

LEMMA InitIInv == Init => IInv
  <1> SUFFICES ASSUME Init PROVE IInv
    OBVIOUS
  <1>1. AgeInv
    BY Durations DEF Init, LogInit, AgeInv
  <1>2. LevelInv
    BY ActivityAssumption DEF Init, LogInit, LevelInv
  <1>3. QED
    BY <1>1, <1>2 DEF IInv

\* Nothing of this changes unless the log, the clock or a level does.
LEMMA LevelUnchanged ==
    ASSUME LevelInv, UNCHANGED <<person, override>>, append' \in {append, None}
    PROVE  LevelInv'
  BY DEF LevelInv

LEMMA NextIInv == IInv /\ [Next]_vars => IInv'
  <1> SUFFICES ASSUME IInv, [Next]_vars PROVE IInv'
    OBVIOUS
  <1>t. AgeInv /\ LevelInv
    BY DEF IInv
  <1>1. CASE Scan
    <2>1. PICK logged : AppendSeen({Seen(m, now) : m \in logged})
      BY <1>1 DEF Scan
    <2>2. UNCHANGED <<now, up, sweepAt, skipped, person, override, append>>
      BY <1>1 DEF Scan
    <2>3. AgeInv'
      BY <1>t, <2>1, <2>2, SightingsAreYoung
    <2>4. LevelInv'
      BY <1>t, <2>2, LevelUnchanged
    <2>5. QED
      BY <2>3, <2>4 DEF IInv
  <1>2. ASSUME NEW d \in Agent, Checkin(d)
        PROVE  IInv'
    <2>1. PICK at \in (now - Late) .. (now + Skew) :
            \/ /\ AppendSeen({Seen(d, now), Seen(d, at)})
               /\ UNCHANGED <<person, override, append, sweepAt, skipped, now>>
            \/ AppendSeen({Seen(d, now)}) /\ \E owned \in BOOLEAN : StartBlock(d, at, owned)
      BY <1>2 DEF Checkin
    <2>2. UNCHANGED <<now, up, sweepAt, skipped>>
      BY <1>2, <2>1 DEF Checkin, StartBlock
    <2>3. AgeInv'
      BY <1>t, <2>1, <2>2, SightingsAreYoung
    <2>4. LevelInv'
      BY <1>t, <2>1, StartKeepsLevel, LevelUnchanged
    <2>5. QED
      BY <2>3, <2>4 DEF IInv
  <1>3. CASE Put
    <2>1. PICK l \in LevelSet : SetPerson(l) \/ SetOverride(l)
      BY <1>3 DEF Put
    <2>2. AgeInv'
      BY <1>3, <1>t, <2>1 DEF Put, SetPerson, SetOverride, AgeInv
    <2>3. QED
      BY <1>t, <2>1, <2>2, AskKeepsLevel DEF IInv
  <1>4. CASE Step
    <2>1. CASE ReadPolicy \/ ReadOverride
      <3>1. AgeInv'
        BY <1>4, <1>t, <2>1 DEF Step, ReadPolicy, ReadOverride, restVars, AgeInv
      <3>2. QED
        BY <1>t, <2>1, <3>1, ReadKeepsLevel DEF IInv
    <2>2. CASE InsertBlock
      <3>1. UNCHANGED <<now, up, sweepAt, skipped>>
        BY <1>4, <2>2 DEF Step, InsertBlock, restVars
      <3>2. AgeInv'
        <4>1. CASE events' = events \union {Block(append)}
          <5> DEFINE new == {Block(append)}
          <5>1. \A e \in new : e.recorded = now
            BY DEF Block
          <5>2. events' = events \union new
            BY <4>1
          <5> HIDE DEF new
          <5>3. QED
            BY <1>t, <3>1, <5>1, <5>2, NewIsYoung
        <4>2. CASE UNCHANGED events
          BY <1>t, <3>1, <4>2 DEF AgeInv
        <4>3. QED
          BY <2>2, <4>1, <4>2 DEF InsertBlock
      <3>3. LevelInv'
        BY <1>t, <2>2, LevelUnchanged DEF InsertBlock
      <3>4. QED
        BY <3>2, <3>3 DEF IInv
    <2>3. QED
      BY <1>4, <2>1, <2>2 DEF Step
  <1>5. CASE Retain
    <2>1. AgeInv'
      BY <1>5, <1>t, SweepKeepsAge DEF Retain
    <2>2. LevelInv'
      BY <1>5, <1>t, LevelUnchanged DEF Retain, Sweep
    <2>3. QED
      BY <2>1, <2>2 DEF IInv
  <1>6. CASE Stop
    <2>1. AgeInv'
      BY <1>6, <1>t DEF Stop, AgeInv
    <2>2. LevelInv'
      BY <1>6, <1>t, LevelUnchanged DEF Stop
    <2>3. QED
      BY <2>1, <2>2 DEF IInv
  <1>7. CASE Start
    <2>1. AgeInv'
      BY <1>7, <1>t, Durations DEF Start, AgeInv
    <2>2. LevelInv'
      BY <1>7, <1>t, LevelUnchanged DEF Start
    <2>3. QED
      BY <2>1, <2>2 DEF IInv
  <1>8. CASE Tick
    <2>1. AgeInv'
      BY <1>8, <1>t, Durations DEF Tick, AgeInv, restVars
    <2>2. LevelInv'
      BY <1>8, <1>t, LevelUnchanged DEF Tick
    <2>3. QED
      BY <2>1, <2>2 DEF IInv
  <1>9. CASE UNCHANGED vars
    BY <1>9, <1>t DEF vars, logVars, AgeInv, LevelInv, IInv
  <1>10. QED
    BY <1>1, <1>2, <1>3, <1>4, <1>5, <1>6, <1>7, <1>8, <1>9 DEF Next

-------------------------------------------------------------------------------

\* No event is older than the window and an interval, plus one for each sweep
\* that has failed since one succeeded.
THEOREM AgeCorrect == Spec => []AgeBounded
  <1>1. IInv => AgeBounded
    <2> SUFFICES ASSUME IInv, skipped # None, NEW e \in events
                 PROVE  now - e.recorded <= Window + Every * (1 + skipped)
      BY DEF AgeBounded
    <2> DEFINE all == Every * (1 + skipped)
    <2>1. /\ all \in Nat /\ sweepAt - e.recorded <= Window + all
          /\ now \in Nat /\ e.recorded \in Nat /\ sweepAt \in now .. (now + Every)
      BY MoreSkipped DEF IInv, AgeInv
    <2> HIDE DEF all
    <2>2. now - e.recorded <= Window + all
      BY <2>1, Durations
    <2>3. QED
      BY <2>2 DEF all
  <1>2. QED
    BY <1>1, InitIInv, NextIInv, PTL DEF Spec

\* What a block is stored with is never finer than every level that was set
\* while it was appended, whichever reads of levels fail.
THEOREM RedactionCorrect == Spec => NothingFinerIsStored
  <1>1. IInv /\ [Next]_vars => [NoFinerThanAsked]_vars
    <2> SUFFICES ASSUME IInv, Next, NEW e \in events' \ events, NEW x \in e.attrs
                 PROVE  \E l \in append.asked : x \in Allows[IF l = None THEN Least ELSE l]
      BY DEF NoFinerThanAsked
    <2>1. CASE InsertBlock
      <3>1. append # None /\ e = Block(append)
        BY <2>1 DEF InsertBlock, Appending
      <3>2. x \in Allows[append.level] /\ AllowedBy(append.asked, append.level)
        BY <3>1 DEF Block, Redact, IInv, LevelInv
      <3>3. QED
        BY <3>2 DEF AllowedBy
    <2>2. CASE ~InsertBlock
      <3>1. e.attrs = {}
        BY <2>2 DEF Next, Scan, Checkin, AppendSeen, Seen, Put, SetPerson, SetOverride, Step,
             ReadPolicy, ReadOverride, Retain, Sweep, Kept, Stop, Start, Tick
      <3>2. QED
        BY <3>1
    <2>3. QED
      BY <2>1, <2>2
  <1>2. QED
    BY <1>1, InitIInv, NextIInv, PTL DEF Spec, NothingFinerIsStored

-------------------------------------------------------------------------------
(***************************************************************************)
(* The types, and the scanner.                                             *)
(***************************************************************************)

\* What cycles count is what they saw: nothing else moves either of the two,
\* and a restart forgets both.
ScanInv ==
    /\ seen \in [Mac -> 0 .. MinCycles] /\ cycles = seen
    /\ reconciled \subseteq Mac
    /\ \A m \in reconciled : cycles[m] = MinCycles

\* The events, the append and the next cycle.
ShapeInv ==
    /\ \A e \in events :
         /\ e.kind \in {"device_seen", "block"} /\ e.device \in Device
         /\ e.recorded \in 0 .. now /\ e.attrs \subseteq Attr
    /\ append # None =>
         append.pc \in {"policy", "override", "insert"} /\ append.device \in Device
    /\ up => scanAt \in now .. (now + Interval)

LEMMA CappedBy ==
    ASSUME NEW n \in Nat
    PROVE  /\ S!Capped(n) \in 0 .. MinCycles
           /\ n <= MinCycles => S!Capped(n) = n
           /\ S!Capped(n) >= MinCycles => S!Capped(n) = MinCycles
           /\ n >= MinCycles => S!Capped(n) = MinCycles
  <1>1. MinCycles \in Nat \ {0}
    BY ActivityAssumption
  <1>2. S!Capped(n) = CHOOSE x \in {n, MinCycles} : \A y \in {n, MinCycles} : x =< y
    BY DEF S!Capped, S!Min
  <1>3. \E x \in {n, MinCycles} : \A y \in {n, MinCycles} : x =< y
    <2>1. CASE n <= MinCycles
      BY <1>1, <2>1
    <2>2. CASE ~(n <= MinCycles)
      BY <1>1, <2>2
    <2>3. QED
      BY <2>1, <2>2
  <1>4. S!Capped(n) \in {n, MinCycles} /\ S!Capped(n) <= n /\ S!Capped(n) <= MinCycles
    <2> DEFINE Least2(x) == \A y \in {n, MinCycles} : x =< y
    <2>1. S!Capped(n) = CHOOSE x \in {n, MinCycles} : Least2(x)
      BY <1>2
    <2>2. \E x \in {n, MinCycles} : Least2(x)
      BY <1>3
    <2> HIDE DEF Least2
    <2>3. S!Capped(n) \in {n, MinCycles} /\ Least2(S!Capped(n))
      BY <2>1, <2>2
    <2>4. QED
      BY <2>3 DEF Least2
  <1>5. QED
    BY <1>1, <1>4

LEMMA CycleKeepsScan ==
    ASSUME ScanInv, NEW snapshot \in SUBSET Spelling, S!Cycle(snapshot, S!Due(snapshot))
    PROVE  ScanInv'
  <1>1. MinCycles \in Nat \ {0} /\ Nobody \notin Mac /\ Norm \in [Spelling -> Mac \union {Nobody}]
    BY ActivityAssumption
  <1>2. \A m \in Mac : m \in S!Hosts(snapshot) <=> \E s \in snapshot : Norm[s] = m
    BY <1>1 DEF S!Hosts
  <1>3. ASSUME NEW m \in Mac
        PROVE  /\ seen'[m] \in 0 .. MinCycles /\ cycles'[m] = seen'[m]
               /\ m \in S!Due(snapshot) => cycles'[m] = MinCycles
               /\ cycles[m] = MinCycles => cycles'[m] = MinCycles
    <2>1. seen[m] \in 0 .. MinCycles /\ cycles[m] = seen[m]
      BY DEF ScanInv
    <2>2. seen'[m] = S!Counted(snapshot)[m]
      BY DEF S!Cycle
    <2>3. S!Counted(snapshot)[m] = S!Capped(seen[m] + S!Count(snapshot, m))
      BY DEF S!Counted
    <2>4. cycles'[m] = IF \E s \in snapshot : Norm[s] = m THEN S!Capped(cycles[m] + 1) ELSE cycles[m]
      BY DEF S!Cycle
    <2>5. m \in S!Due(snapshot) => S!Counted(snapshot)[m] >= MinCycles
      BY DEF S!Due
    <2>6. CASE m \in S!Hosts(snapshot)
      <3>1. S!Count(snapshot, m) = 1
        BY <2>6 DEF S!Count
      <3>2. seen'[m] = S!Capped(seen[m] + 1) /\ cycles'[m] = S!Capped(seen[m] + 1)
        BY <1>2, <2>1, <2>2, <2>3, <2>4, <2>6, <3>1
      <3>3. seen[m] + 1 \in Nat
        BY <1>1, <2>1
      <3>4. S!Capped(seen[m] + 1) = seen[m] + 1 \/ seen[m] = MinCycles
        BY <1>1, <2>1, <3>3, CappedBy
      <3>5. MinCycles + 1 \in Nat /\ MinCycles + 1 >= MinCycles
        BY <1>1
      <3>6. S!Capped(MinCycles + 1) = MinCycles
        BY <3>5, CappedBy
      <3>7. S!Capped(seen[m] + 1) \in 0 .. MinCycles
        BY <3>3, CappedBy
      <3>8. S!Capped(seen[m] + 1) >= MinCycles => S!Capped(seen[m] + 1) = MinCycles
        BY <3>3, CappedBy
      <3>9. seen[m] = MinCycles => S!Capped(seen[m] + 1) = MinCycles
        BY <3>6
      <3>10. QED
        BY <2>1, <2>2, <2>5, <3>2, <3>7, <3>8, <3>9
    <2>7. CASE m \notin S!Hosts(snapshot)
      <3>1. S!Count(snapshot, m) = 0 /\ m \notin S!Due(snapshot)
        BY <2>7 DEF S!Count, S!Due
      <3>2. cycles'[m] = seen[m]
        BY <1>2, <2>1, <2>4, <2>7
      <3>3. seen[m] \in Nat /\ seen[m] <= MinCycles /\ seen[m] + 0 = seen[m]
        BY <1>1, <2>1
      <3>4. seen'[m] = seen[m]
        BY <2>2, <2>3, <3>1, <3>3, CappedBy
      <3>5. QED
        BY <2>1, <3>1, <3>2, <3>4
    <2>8. QED
      BY <2>6, <2>7
  <1>4. S!Due(snapshot) \subseteq Mac
    BY <1>1 DEF S!Due, S!Hosts
  <1>5. seen' = [m \in Mac |-> seen'[m]]
    BY DEF S!Cycle, S!Counted
  <1>6. cycles' = [m \in Mac |-> cycles'[m]]
    BY DEF S!Cycle
  <1>7. seen' \in [Mac -> 0 .. MinCycles] /\ cycles' = seen'
    BY <1>3, <1>5, <1>6
  <1>8. reconciled' = reconciled \union S!Due(snapshot)
    BY DEF S!Cycle
  <1>9. reconciled' \subseteq Mac /\ \A m \in reconciled' : cycles'[m] = MinCycles
    BY <1>3, <1>4, <1>8 DEF ScanInv
  <1>10. QED
    BY <1>7, <1>9 DEF ScanInv

LEMMA ScanStep ==
    ASSUME ScanInv, [Next]_vars
    PROVE  ScanInv'
  <1>1. CASE Scan
    <2>1. PICK snapshot \in SUBSET Spelling : S!Cycle(snapshot, S!Due(snapshot))
      BY <1>1 DEF Scan
    <2>2. QED
      BY <2>1, CycleKeepsScan
  <1>2. CASE Stop
    <2>1. 0 \in 0 .. MinCycles
      BY ActivityAssumption
    <2>2. QED
      BY <1>2, <2>1 DEF Stop, ScanInv, S!Nothing
  <1>3. CASE ~Scan /\ ~Stop
    <2>1. UNCHANGED <<seen, cycles, reconciled>>
      BY <1>3 DEF Next, Checkin, Put, Step, Retain, Start, Tick, vars
    <2>2. QED
      BY <2>1 DEF ScanInv
  <1>4. QED
    BY <1>1, <1>2, <1>3

\* Sightings that are recorded now are well formed.
LEMMA SightingsAreShaped ==
    ASSUME ShapeInv, now \in Nat, NEW seenNow, AppendSeen(seenNow), UNCHANGED now,
           \A e \in seenNow : \E d \in Device : \E at : e = Seen(d, at)
    PROVE  \A e \in events' :
             /\ e.kind \in {"device_seen", "block"} /\ e.device \in Device
             /\ e.recorded \in 0 .. now' /\ e.attrs \subseteq Attr
  <1>1. \A d, at : /\ Seen(d, at).kind = "device_seen" /\ Seen(d, at).device = d
                    /\ Seen(d, at).recorded = now /\ Seen(d, at).attrs = {}
    BY DEF Seen
  <1>2. QED
    BY <1>1 DEF ShapeInv, AppendSeen

LEMMA ShapeStep ==
    ASSUME IInv, ScanInv, ShapeInv, [Next]_vars
    PROVE  ShapeInv'
  <1>1. now \in Nat /\ Interval \in Nat
    BY ActivityAssumption, LogAssumption DEF IInv, AgeInv
  <1>2. CASE Scan
    <2>1. PICK snapshot \in SUBSET Spelling :
            \E logged \in SUBSET S!Due(snapshot) : AppendSeen({Seen(m, now) : m \in logged})
      BY <1>2 DEF Scan
    <2>1a. PICK logged \in SUBSET S!Due(snapshot) : AppendSeen({Seen(m, now) : m \in logged})
      BY <2>1
    <2>2. logged \subseteq Device
      BY ActivityAssumption DEF S!Due, S!Hosts
    <2>3. UNCHANGED <<now, append>> /\ scanAt' = now + Interval
      BY <1>2 DEF Scan
    <2>4. \A e \in events' :
            /\ e.kind \in {"device_seen", "block"} /\ e.device \in Device
            /\ e.recorded \in 0 .. now' /\ e.attrs \subseteq Attr
      BY <1>1, <2>1a, <2>2, <2>3, SightingsAreShaped
    <2>5. scanAt' \in now' .. (now' + Interval)
      BY <1>1, <2>3
    <2>6. QED
      BY <2>3, <2>4, <2>5 DEF ShapeInv
  <1>3. ASSUME NEW d \in Agent, Checkin(d)
        PROVE  ShapeInv'
    <2>1. PICK at \in (now - Late) .. (now + Skew) :
            \/ /\ AppendSeen({Seen(d, now), Seen(d, at)})
               /\ UNCHANGED <<person, override, append, sweepAt, skipped, now>>
            \/ AppendSeen({Seen(d, now)}) /\ \E owned \in BOOLEAN : StartBlock(d, at, owned)
      BY <1>3 DEF Checkin
    <2>2. d \in Device
      BY ActivityAssumption
    <2>3. UNCHANGED <<now, up, scanAt>>
      BY <1>3, <2>1 DEF Checkin, StartBlock
    <2>4. \A e \in events' :
            /\ e.kind \in {"device_seen", "block"} /\ e.device \in Device
            /\ e.recorded \in 0 .. now' /\ e.attrs \subseteq Attr
      <3>1. CASE AppendSeen({Seen(d, now), Seen(d, at)})
        BY <1>1, <2>2, <2>3, <3>1, SightingsAreShaped
      <3>2. CASE AppendSeen({Seen(d, now)})
        BY <1>1, <2>2, <2>3, <3>2, SightingsAreShaped
      <3>3. QED
        BY <2>1, <3>1, <3>2
    <2>5. append' # None => append'.pc \in {"policy", "override", "insert"} /\ append'.device \in Device
      <3>1. CASE UNCHANGED append
        BY <3>1 DEF ShapeInv
      <3>2. ASSUME NEW owned \in BOOLEAN, StartBlock(d, at, owned)
            PROVE  append'.pc \in {"policy", "override", "insert"} /\ append'.device = d
        BY <3>2 DEF StartBlock
      <3>3. QED
        BY <2>1, <2>2, <3>1, <3>2
    <2>6. QED
      BY <2>3, <2>4, <2>5 DEF ShapeInv
  <1>4. CASE Put
    <2>1. UNCHANGED <<events, now, up, scanAt>> /\ Ask
      BY <1>4 DEF Put, SetPerson, SetOverride
    <2>2. append' # None =>
            append # None /\ append'.pc = append.pc /\ append'.device = append.device
      BY <2>1 DEF Ask, IInv, LevelInv
    <2>3. QED
      BY <2>1, <2>2 DEF ShapeInv
  <1>5. CASE Step
    <2>1. UNCHANGED <<now, up, scanAt>>
      BY <1>5 DEF Step, ReadPolicy, ReadOverride, InsertBlock, restVars
    <2>2. CASE ReadPolicy \/ ReadOverride
      <3>1. UNCHANGED events /\ append # None
        BY <2>2 DEF ReadPolicy, ReadOverride, Appending
      <3>2. append'.pc \in {"override", "insert"} /\ append'.device = append.device
        <4>1. append = [pc |-> append.pc, device |-> append.device, at |-> append.at,
                        level |-> append.level, asked |-> append.asked]
          BY <3>1 DEF IInv, LevelInv
        <4>2. CASE ReadPolicy
          BY <4>1, <4>2 DEF ReadPolicy
        <4>3. CASE ReadOverride
          BY <4>1, <4>3 DEF ReadOverride
        <4>4. QED
          BY <2>2, <4>2, <4>3
      <3>3. QED
        BY <2>1, <3>1, <3>2 DEF ShapeInv
    <2>3. CASE InsertBlock
      <3>1. append' = None /\ append # None /\ append.device \in Device
        BY <2>3 DEF InsertBlock, Appending, ShapeInv
      <3>2. /\ Block(append).kind = "block" /\ Block(append).device = append.device
            /\ Block(append).recorded = now /\ Block(append).attrs \subseteq Attr
        BY DEF Block, Redact
      <3>3. events' \subseteq events \union {Block(append)}
        BY <2>3 DEF InsertBlock
      <3>4. QED
        BY <1>1, <2>1, <3>1, <3>2, <3>3 DEF ShapeInv
    <2>4. QED
      BY <1>5, <2>2, <2>3 DEF Step
  <1>6. CASE Retain
    <2>1. events' \subseteq events /\ UNCHANGED <<now, append, up, scanAt>>
      BY <1>6 DEF Retain, Sweep, Kept
    <2>2. QED
      BY <2>1 DEF ShapeInv
  <1>7. CASE Stop
    BY <1>7 DEF Stop, ShapeInv
  <1>8. CASE Start
    <2>1. scanAt' \in now' .. (now' + Interval)
      BY <1>1, <1>8 DEF Start
    <2>2. QED
      BY <1>8, <2>1 DEF Start, ShapeInv
  <1>9. CASE Tick
    <2>1. now' = now + 1 /\ UNCHANGED <<events, append, up, scanAt>>
      BY <1>9 DEF Tick, restVars
    <2>2. up => scanAt' \in now' .. (now' + Interval)
      BY <1>1, <1>9, <2>1 DEF Tick, ShapeInv
    <2>3. \A e \in events : e.recorded \in 0 .. now'
      BY <1>1, <2>1 DEF ShapeInv
    <2>4. QED
      BY <2>1, <2>2, <2>3 DEF ShapeInv
  <1>10. CASE UNCHANGED vars
    BY <1>10 DEF vars, logVars, ShapeInv
  <1>11. QED
    BY <1>2, <1>3, <1>4, <1>5, <1>6, <1>7, <1>8, <1>9, <1>10 DEF Next

ActivityInv == IInv /\ ScanInv /\ ShapeInv

LEMMA ActivityInvariant == Spec => []ActivityInv
  <1>1. Init => ActivityInv
    <2> SUFFICES ASSUME Init PROVE ActivityInv
      OBVIOUS
    <2>1. IInv
      BY InitIInv
    <2>2. ScanInv
      BY ActivityAssumption DEF Init, ScanInv, S!ScanInit, S!Nothing
    <2>3. ShapeInv
      BY ActivityAssumption, LogAssumption DEF Init, LogInit, ShapeInv
    <2>4. QED
      BY <2>1, <2>2, <2>3 DEF ActivityInv
  <1>2. ActivityInv /\ [Next]_vars => ActivityInv'
    BY NextIInv, ScanStep, ShapeStep DEF ActivityInv
  <1>3. QED
    BY <1>1, <1>2, PTL DEF Spec

\* Types, and the workers' next passes are never in the past, whatever the
\* intervals.
THEOREM ActivityTypeCorrect == Spec => []TypeOK
  <1>1. ActivityInv => TypeOK
    BY DEF ActivityInv, IInv, AgeInv, LevelInv, ShapeInv, ScanInv, TypeOK, LogTypeOK
  <1>2. QED
    BY <1>1, ActivityInvariant, PTL

\* Nothing is reconciled before enough cycles of this process have seen it,
\* however the sources spell it.
THEOREM NeverReconciledEarly == Spec => []ReconciledLate
  <1>1. ActivityInv => ReconciledLate
    BY ActivityAssumption DEF ActivityInv, ScanInv, ReconciledLate, S!ReconciledAfterMinCycles
  <1>2. QED
    BY <1>1, ActivityInvariant, PTL

-------------------------------------------------------------------------------
(***************************************************************************)
(* ORDER BY at.                                                            *)
(***************************************************************************)

\* How many rows come before t.
Rank(times, t) == Cardinality({x \in times : x < t})

LEMMA RankIsSmall ==
    ASSUME NEW times \in SUBSET Int, IsFiniteSet(times), NEW t \in times
    PROVE  Rank(times, t) \in 0 .. (Cardinality(times) - 1)
  <1> DEFINE before == {x \in times : x < t}
  <1>1. before \in SUBSET times /\ before # times
    OBVIOUS
  <1> HIDE DEF before
  <1>2. IsFiniteSet(before) /\ Cardinality(before) <= Cardinality(times) /\ Cardinality(before) # Cardinality(times)
    BY <1>1, FS_Subset
  <1>3. Cardinality(before) \in Nat /\ Cardinality(times) \in Nat
    BY <1>2, FS_CardinalityType
  <1>4. Cardinality(before) \in 0 .. (Cardinality(times) - 1)
    BY <1>2, <1>3
  <1>5. QED
    BY <1>4 DEF Rank, before

LEMMA RankGrows ==
    ASSUME NEW times \in SUBSET Int, IsFiniteSet(times), NEW s \in times, NEW t \in times, s < t
    PROVE  Rank(times, s) < Rank(times, t)
  <1> DEFINE fewer == {x \in times : x < s}
             more == {x \in times : x < t}
  <1>0. s \in Int /\ t \in Int /\ ~ (s < s)
    OBVIOUS
  <1>1. fewer \in SUBSET more /\ fewer # more /\ more \in SUBSET times
    <2>1. \A x \in times : x < s => x < t
      BY <1>0
    <2>2. s \in more /\ s \notin fewer
      BY <1>0
    <2>3. QED
      BY <2>1, <2>2
  <1> HIDE DEF fewer, more
  <1>2. IsFiniteSet(more)
    BY <1>1, FS_Subset
  <1>3. IsFiniteSet(fewer) /\ Cardinality(fewer) <= Cardinality(more) /\ Cardinality(fewer) # Cardinality(more)
    BY <1>1, <1>2, FS_Subset
  <1>4. Cardinality(fewer) \in Nat /\ Cardinality(more) \in Nat
    BY <1>2, <1>3, FS_CardinalityType
  <1>5. Cardinality(fewer) < Cardinality(more)
    BY <1>3, <1>4
  <1>6. QED
    BY <1>5 DEF Rank, fewer, more

\* As many ranks as rows, and no two rows of one rank: every rank is taken.
LEMMA RankIsTaken ==
    ASSUME NEW times \in SUBSET Int, IsFiniteSet(times), NEW i \in 1 .. Cardinality(times)
    PROVE  \E t \in times : Rank(times, t) = i - 1
  <1> DEFINE n == Cardinality(times)
             r == [t \in times |-> Rank(times, t)]
             ranks == 0 .. (n - 1)
  <1>1. n \in Nat /\ n >= 1
    BY FS_CardinalityType
  <1>2. IsFiniteSet(ranks) /\ Cardinality(ranks) = n
    <2>1. 0 \in Int /\ n - 1 \in Int /\ ~ (0 > n - 1) /\ n - 1 - 0 + 1 = n
      BY <1>1
    <2> HIDE DEF n
    <2>2. QED
      BY <2>1, FS_Interval
  <1>3. r \in [times -> ranks]
    BY RankIsSmall
  <1>4. \A s, t \in times : r[s] = r[t] => s = t
    <2> SUFFICES ASSUME NEW s \in times, NEW t \in times, Rank(times, s) = Rank(times, t)
                 PROVE  s = t
      OBVIOUS
    <2>1. Rank(times, s) \in Int /\ Rank(times, t) \in Int
      BY <1>1, RankIsSmall
    <2>2. ~ (s < t) /\ ~ (t < s)
      BY <2>1, RankGrows
    <2>3. QED
      BY <2>2
  <1>5. \A t \in times : r[t] = Rank(times, t)
    OBVIOUS
  <1>6. i - 1 \in ranks
    BY <1>1
  <1> HIDE DEF r, ranks
  <1>7. r \in Injection(times, ranks)
    BY <1>3, <1>4 DEF Injection, IsInjective
  <1>8. r \in Surjection(times, ranks)
    <2>1. Cardinality(times) = Cardinality(ranks)
      BY <1>2
    <2>2. QED
      BY <1>2, <1>7, <2>1, FS_Injection
  <1>9. QED
    BY <1>5, <1>6, <1>8 DEF Surjection

LEMMA InOrderIsRow ==
    ASSUME NEW times \in SUBSET Int, IsFiniteSet(times), NEW i \in 1 .. Cardinality(times)
    PROVE  InOrder(times)[i] \in times /\ Rank(times, InOrder(times)[i]) = i - 1
  <1> DEFINE Is(t) == Rank(times, t) = i - 1
  <1>1. InOrder(times)[i] = CHOOSE t \in times : Is(t)
    BY DEF InOrder, Rank
  <1>2. \E t \in times : Is(t)
    BY RankIsTaken
  <1> HIDE DEF Is
  <1>3. InOrder(times)[i] \in times /\ Is(InOrder(times)[i])
    BY <1>1, <1>2
  <1>4. QED
    BY <1>3 DEF Is

LEMMA InOrderGrows ==
    ASSUME NEW times \in SUBSET Int, IsFiniteSet(times),
           NEW i \in 1 .. Cardinality(times), NEW j \in 1 .. Cardinality(times), i < j
    PROVE  InOrder(times)[i] < InOrder(times)[j]
  <1> DEFINE s == InOrder(times)[i]
             t == InOrder(times)[j]
  <1>1. s \in times /\ t \in times /\ Rank(times, s) = i - 1 /\ Rank(times, t) = j - 1
    BY InOrderIsRow
  <1> HIDE DEF s, t
  <1>2. i \in Int /\ j \in Int
    BY FS_CardinalityType
  <1>3. ~ (t < s) /\ t # s
    BY <1>1, <1>2, RankGrows
  <1>4. s < t
    BY <1>1, <1>3
  <1>5. QED
    BY <1>4 DEF s, t

\* Every row has its place.
LEMMA InOrderHasAll ==
    ASSUME NEW times \in SUBSET Int, IsFiniteSet(times), NEW t \in times
    PROVE  \E i \in 1 .. Cardinality(times) : InOrder(times)[i] = t
  <1> DEFINE i == Rank(times, t) + 1
  <1>1. Cardinality(times) \in Nat /\ Rank(times, t) \in 0 .. (Cardinality(times) - 1)
    BY FS_CardinalityType, RankIsSmall
  <1>2. i \in 1 .. Cardinality(times) /\ i - 1 = Rank(times, t)
    BY <1>1
  <1> HIDE DEF i
  <1>3. PICK s \in times : s = InOrder(times)[i] /\ Rank(times, s) = Rank(times, t)
    BY <1>2, InOrderIsRow
  <1>4. Rank(times, t) \in Int
    BY <1>1
  <1>5. ~ (s < t) /\ ~ (t < s)
    BY <1>3, <1>4, RankGrows
  <1>6. s = t
    BY <1>5
  <1>7. QED
    BY <1>2, <1>3, <1>6

-------------------------------------------------------------------------------
(***************************************************************************)
(* What a row adds to the time that is covered.                            *)
(***************************************************************************)

Upto(times, t) == {x \in times : x <= t}

LEMMA CoveredIs ==
    ASSUME NEW times
    PROVE  \A x : x \in Covered(times) <=>
             \E p \in times : \E q \in times : q - p < Gap /\ x \in p .. (q - 1)
  <1> DEFINE close == {q \in times \X times : q[2] - q[1] < Gap}
             ranges == {p[1] .. (p[2] - 1) : p \in close}
  <1>1. Covered(times) = UNION ranges
    BY DEF Covered
  <1>2. ASSUME NEW p \in times, NEW q \in times, q - p < Gap
        PROVE  p .. (q - 1) \in ranges
    <2>1. <<p, q>> \in close
      BY <1>2
    <2>2. QED
      BY <2>1
  <1>3. ASSUME NEW r \in ranges
        PROVE  \E p \in times : \E q \in times : q - p < Gap /\ r = p .. (q - 1)
    OBVIOUS
  <1> HIDE DEF ranges
  <1>4. QED
    BY <1>1, <1>2, <1>3

LEMMA CoveredIsWithin ==
    ASSUME NEW times \in SUBSET Int, NEW a \in Int, NEW b \in Int,
           \A t \in times : a <= t /\ t <= b
    PROVE  Covered(times) \subseteq a .. (b - 1)
  <1>1. ASSUME NEW x \in Covered(times)
        PROVE  x \in a .. (b - 1)
    <2>1. PICK p \in times : \E q \in times : q - p < Gap /\ x \in p .. (q - 1)
      BY CoveredIs
    <2>2. PICK q \in times : x \in p .. (q - 1)
      BY <2>1
    <2>3. p \in Int /\ q \in Int /\ a <= p /\ q <= b
      OBVIOUS
    <2>4. QED
      BY <2>2, <2>3
  <1>2. QED
    BY <1>1

LEMMA CoveredIsMonotone ==
    ASSUME NEW more \in SUBSET Int, NEW times \in SUBSET more
    PROVE  Covered(times) \subseteq Covered(more)
  BY CoveredIs

\* Between two neighbours, either all is covered or nothing.
LEMMA NextRowCovers ==
    ASSUME NEW times \in SUBSET Int, NEW a \in times, NEW b \in times, a < b,
           \A t \in times : ~ (a < t /\ t < b)
    PROVE  Covered(Upto(times, b)) =
             Covered(Upto(times, a)) \union (IF b - a < Gap THEN a .. (b - 1) ELSE {})
  <1>1. a \in Int /\ b \in Int /\ Gap \in Int
    BY LogAssumption
  <1>2. ASSUME NEW x \in Covered(Upto(times, b))
        PROVE  x \in Covered(Upto(times, a)) \/ (b - a < Gap /\ x \in a .. (b - 1))
    <2>1. PICK p \in Upto(times, b) : \E q \in Upto(times, b) : q - p < Gap /\ x \in p .. (q - 1)
      BY CoveredIs
    <2>2. PICK q \in Upto(times, b) : q - p < Gap /\ x \in p .. (q - 1)
      BY <2>1
    <2>3. p \in times /\ q \in times /\ p \in Int /\ q \in Int /\ q <= b /\ p <= x /\ x <= q - 1 /\ x \in Int
      BY <2>2 DEF Upto
    <2>4. p < b
      BY <1>1, <2>3
    <2>5. p <= a
      BY <1>1, <2>3, <2>4
    <2>6. p \in Upto(times, a)
      BY <2>3, <2>5 DEF Upto
    <2>7. CASE q <= a
      <3>1. q \in Upto(times, a)
        BY <2>3, <2>7 DEF Upto
      <3>2. QED
        BY <2>2, <2>6, <3>1, CoveredIs
    <2>8. CASE ~ (q <= a)
      <3>1. q = b
        BY <1>1, <2>3, <2>8
      <3>2. CASE x < a
        <4>1. a \in Upto(times, a) /\ a - p < Gap /\ x \in p .. (a - 1)
          BY <1>1, <2>2, <2>3, <3>1, <3>2 DEF Upto
        <4>2. QED
          BY <2>6, <4>1, CoveredIs
      <3>3. CASE ~ (x < a)
        BY <1>1, <2>2, <2>3, <2>5, <3>1, <3>3
      <3>4. QED
        BY <3>2, <3>3
    <2>9. QED
      BY <2>7, <2>8
  <1>3. Upto(times, b) \in SUBSET Int /\ Upto(times, a) \in SUBSET Upto(times, b)
    <2>1. \A t \in times : t <= a => t <= b
      BY <1>1
    <2>2. QED
      BY <2>1 DEF Upto
  <1>4. ASSUME b - a < Gap, NEW x \in a .. (b - 1)
        PROVE  x \in Covered(Upto(times, b))
    <2>1. a \in Upto(times, b) /\ b \in Upto(times, b)
      BY <1>1 DEF Upto
    <2>2. QED
      BY <1>4, <2>1, CoveredIs
  <1>5. Covered(Upto(times, a)) \subseteq Covered(Upto(times, b))
    BY <1>3, CoveredIsMonotone
  <1>6. QED
    BY <1>2, <1>4, <1>5

\* What is covered up to a row is finite, and lies before the row.
LEMMA CoveredUptoIsBefore ==
    ASSUME NEW times \in SUBSET Int, IsFiniteSet(times), NEW a \in times
    PROVE  /\ IsFiniteSet(Covered(Upto(times, a)))
           /\ \A x \in Covered(Upto(times, a)) : x < a
  <1>1. Cardinality(times) \in Nat /\ 0 \in Nat
    BY FS_CardinalityType
  <1>2. PICK k \in 1 .. Cardinality(times) : InOrder(times)[k] = a
    BY InOrderHasAll
  <1>3. 1 \in 1 .. Cardinality(times)
    BY <1>1, <1>2
  <1>4. PICK first \in times : first = InOrder(times)[1]
    BY <1>3, InOrderIsRow
  <1>5. \A t \in times : first <= t
    <2> SUFFICES ASSUME NEW t \in times PROVE first <= t
      OBVIOUS
    <2>1. PICK j \in 1 .. Cardinality(times) : InOrder(times)[j] = t
      BY InOrderHasAll
    <2>2. j = 1 \/ 1 < j
      BY <1>1
    <2>3. first = t \/ first < t
      BY <1>3, <1>4, <2>1, <2>2, InOrderGrows
    <2>4. QED
      BY <2>3
  <1>6. Upto(times, a) \in SUBSET Int /\ first \in Int /\ a \in Int
    BY DEF Upto
  <1>7. \A t \in Upto(times, a) : first <= t /\ t <= a
    BY <1>5 DEF Upto
  <1>8. Covered(Upto(times, a)) \subseteq first .. (a - 1)
    BY <1>6, <1>7, CoveredIsWithin
  <1>9. IsFiniteSet(first .. (a - 1))
    <2>1. a - 1 \in Int
      BY <1>6
    <2>2. QED
      BY <1>6, <2>1, FS_Interval
  <1>10. IsFiniteSet(Covered(Upto(times, a)))
    BY <1>8, <1>9, FS_Subset
  <1>11. \A x \in first .. (a - 1) : x < a
    BY <1>6
  <1>12. QED
    BY <1>8, <1>10, <1>11

\* A row that is less than the gap after the one before it adds the time
\* between the two; one that is not adds nothing.
LEMMA RowAddsItsGap ==
    ASSUME NEW times \in SUBSET Int, IsFiniteSet(times), NEW a \in times, NEW b \in times, a < b,
           \A t \in times : ~ (a < t /\ t < b)
    PROVE  Cardinality(Covered(Upto(times, b))) =
             Cardinality(Covered(Upto(times, a))) + (IF Chains(b - a) THEN b - a ELSE 0)
  <1> DEFINE old == Covered(Upto(times, a))
             between == a .. (b - 1)
  <1>1. a \in Int /\ b \in Int /\ b - 1 \in Int /\ ~ (a > b - 1) /\ b - 1 - a + 1 = b - a
    OBVIOUS
  <1>2. IsFiniteSet(old) /\ \A x \in old : x < a
    BY CoveredUptoIsBefore
  <1>3. IsFiniteSet(between) /\ Cardinality(between) = b - a
    BY <1>1, FS_Interval
  <1>4. old \intersect between = {}
    BY <1>1, <1>2
  <1>5. Cardinality(old) \in Nat
    BY <1>2, FS_CardinalityType
  <1>6. Chains(b - a) <=> b - a < Gap
    BY <1>1 DEF Chains
  <1>7. Covered(Upto(times, b)) = old \union (IF b - a < Gap THEN between ELSE {})
    BY NextRowCovers
  <1> HIDE DEF old, between
  <1>8. CASE b - a < Gap
    <2>1. Cardinality(old \union between) = Cardinality(old) + Cardinality(between) - Cardinality({})
      BY <1>2, <1>3, <1>4, FS_Union
    <2>2. Cardinality({}) = 0
      BY FS_EmptySet
    <2>3. Cardinality(old \union between) = Cardinality(old) + (b - a)
      BY <1>1, <1>3, <1>5, <2>1, <2>2
    <2>4. QED
      BY <1>6, <1>7, <1>8, <2>3 DEF old
  <1>9. CASE ~ (b - a < Gap)
    <2>1. Covered(Upto(times, b)) = old
      BY <1>7, <1>9
    <2>2. QED
      BY <1>5, <1>6, <1>9, <2>1 DEF old
  <1>10. QED
    BY <1>8, <1>9

-------------------------------------------------------------------------------
(***************************************************************************)
(* The running total.                                                      *)
(***************************************************************************)

\* What it should be after each row.
CoveredSoFar(times) ==
    [i \in 0 .. Cardinality(times) |->
       IF i = 0 THEN 0 ELSE Cardinality(Covered(Upto(times, InOrder(times)[i])))]

RowGap(times, i) ==
    IF i > 1 /\ Chains(InOrder(times)[i] - InOrder(times)[i - 1])
      THEN InOrder(times)[i] - InOrder(times)[i - 1] ELSE 0

Totals(times, f) ==
    f = [i \in 0 .. Cardinality(times) |-> IF i = 0 THEN 0 ELSE f[i - 1] + RowGap(times, i)]

\* From one row to the next there are no others.
LEMMA RowsAreNeighbours ==
    ASSUME NEW times \in SUBSET Int, IsFiniteSet(times),
           NEW i \in 1 .. Cardinality(times), i > 1
    PROVE  /\ InOrder(times)[i] \in times /\ InOrder(times)[i - 1] \in times
           /\ InOrder(times)[i - 1] < InOrder(times)[i]
           /\ \A t \in times : ~ (InOrder(times)[i - 1] < t /\ t < InOrder(times)[i])
  <1>1. Cardinality(times) \in Nat
    BY FS_CardinalityType
  <1>2. i - 1 \in 1 .. Cardinality(times) /\ i - 1 < i
    BY <1>1
  <1>3. PICK a \in times : a = InOrder(times)[i - 1] /\ Rank(times, a) = i - 1 - 1
    BY <1>2, InOrderIsRow
  <1>4. PICK b \in times : b = InOrder(times)[i] /\ Rank(times, b) = i - 1
    BY InOrderIsRow
  <1>5. a < b
    BY <1>2, <1>3, <1>4, InOrderGrows
  <1>6. ASSUME NEW t \in times, a < t, t < b
        PROVE  FALSE
    <2>1. Rank(times, a) < Rank(times, t) /\ Rank(times, t) < Rank(times, b)
      BY <1>6, RankGrows
    <2>2. Rank(times, t) \in Int
      BY <1>1, RankIsSmall
    <2>3. QED
      BY <1>1, <1>3, <1>4, <2>1, <2>2
  <1>7. QED
    BY <1>3, <1>4, <1>5, <1>6

LEMMA FirstRowCoversNothing ==
    ASSUME NEW times \in SUBSET Int, IsFiniteSet(times), NEW a \in times, a = InOrder(times)[1],
           1 \in 1 .. Cardinality(times)
    PROVE  Cardinality(Covered(Upto(times, a))) = 0
  <1>1. Cardinality(times) \in Nat
    BY FS_CardinalityType
  <1>2. ASSUME NEW t \in times
        PROVE  a <= t
    <2>1. PICK j \in 1 .. Cardinality(times) : InOrder(times)[j] = t
      BY InOrderHasAll
    <2>2. j = 1 \/ 1 < j
      BY <1>1
    <2>3. a = t \/ a < t
      BY <2>1, <2>2, InOrderGrows
    <2>4. QED
      BY <2>3
  <1>3. Upto(times, a) \in SUBSET Int /\ a \in Int
    BY DEF Upto
  <1>4. \A t \in Upto(times, a) : a <= t /\ t <= a
    BY <1>2 DEF Upto
  <1>5. Covered(Upto(times, a)) \subseteq a .. (a - 1)
    BY <1>3, <1>4, CoveredIsWithin
  <1>6. a .. (a - 1) = {}
    BY <1>3
  <1>7. QED
    BY <1>5, <1>6, FS_EmptySet

\* What is covered so far is a running total of the gaps.
LEMMA CoveredIsTotal ==
    ASSUME NEW times \in SUBSET Int, IsFiniteSet(times)
    PROVE  Totals(times, CoveredSoFar(times))
  <1> DEFINE n == Cardinality(times)
             f == CoveredSoFar(times)
  <1>1. n \in Nat
    BY FS_CardinalityType
  <1>2. ASSUME NEW i \in 0 .. n
        PROVE  f[i] = IF i = 0 THEN 0 ELSE f[i - 1] + RowGap(times, i)
    <2>1. CASE i = 0
      BY <2>1 DEF CoveredSoFar
    <2>2. CASE i = 1
      <3>1. 1 \in 1 .. n /\ 0 \in 0 .. n
        BY <1>1, <2>2
      <3>2. PICK a \in times : a = InOrder(times)[1]
        BY <3>1, InOrderIsRow
      <3>3. f[0] = 0 /\ f[1] = Cardinality(Covered(Upto(times, a)))
        BY <2>2, <3>1, <3>2 DEF CoveredSoFar
      <3>4. RowGap(times, 1) = 0
        BY DEF RowGap
      <3>5. f[1] = 0
        BY <3>1, <3>2, <3>3, FirstRowCoversNothing
      <3>6. QED
        BY <2>2, <3>3, <3>4, <3>5
    <2>3. CASE i > 1
      <3>1. i \in 1 .. n /\ i - 1 \in 0 .. n /\ i # 0 /\ i - 1 # 0
        BY <1>1, <2>3
      <3>2. PICK a \in times : a = InOrder(times)[i - 1]
        BY <2>3, <3>1, RowsAreNeighbours
      <3>3. PICK b \in times : b = InOrder(times)[i]
        BY <2>3, <3>1, RowsAreNeighbours
      <3>4. a < b /\ \A t \in times : ~ (a < t /\ t < b)
        BY <2>3, <3>1, <3>2, <3>3, RowsAreNeighbours
      <3>5. /\ f[i] = Cardinality(Covered(Upto(times, b)))
            /\ f[i - 1] = Cardinality(Covered(Upto(times, a)))
        BY <3>1, <3>2, <3>3 DEF CoveredSoFar
      <3>6. RowGap(times, i) = IF Chains(b - a) THEN b - a ELSE 0
        BY <2>3, <3>2, <3>3 DEF RowGap
      <3>7. f[i] = f[i - 1] + RowGap(times, i)
        BY <3>4, <3>5, <3>6, RowAddsItsGap
      <3>8. QED
        BY <3>1, <3>7
    <2>4. QED
      BY <1>1, <2>1, <2>2, <2>3
  <1>3. f = [i \in 0 .. n |-> f[i]]
    BY DEF CoveredSoFar
  <1> HIDE DEF f
  <1>4. Totals(times, f)
    BY <1>2, <1>3 DEF Totals
  <1>5. QED
    BY <1>4 DEF f

\* There is one running total only: two would differ in a first row.
LEMMA TotalIsUnique ==
    ASSUME NEW times, IsFiniteSet(times), NEW f, NEW g, Totals(times, f), Totals(times, g)
    PROVE  \A i \in 0 .. Cardinality(times) : f[i] = g[i]
  <1> DEFINE n == Cardinality(times)
             bad == {i \in 0 .. n : f[i] # g[i]}
  <1>1. n \in Nat
    BY FS_CardinalityType
  <1>2. \A i \in 0 .. n : /\ f[i] = IF i = 0 THEN 0 ELSE f[i - 1] + RowGap(times, i)
                          /\ g[i] = IF i = 0 THEN 0 ELSE g[i - 1] + RowGap(times, i)
    BY DEF Totals
  <1>3. SUFFICES ASSUME bad # {} PROVE FALSE
    OBVIOUS
  <1>4. bad \in SUBSET Nat
    BY <1>1
  <1>5. PICK k \in bad : \A i \in bad : k <= i
    <2> HIDE DEF bad
    <2>1. QED
      BY <1>3, <1>4, LeastNatural
  <1>6. k \in 0 .. n /\ f[k] # g[k]
    OBVIOUS
  <1>7. k # 0
    BY <1>2, <1>6
  <1>8. k - 1 \in 0 .. n /\ ~ (k <= k - 1)
    BY <1>1, <1>6, <1>7
  <1>9. f[k - 1] = g[k - 1]
    BY <1>5, <1>8
  <1>10. QED
    BY <1>2, <1>6, <1>7, <1>9

LEMMA NothingAfterLastRow ==
    ASSUME NEW times \in SUBSET Int, IsFiniteSet(times), times # {}
    PROVE  /\ Cardinality(times) \in 1 .. Cardinality(times)
           /\ \E b \in times : b = InOrder(times)[Cardinality(times)] /\ Upto(times, b) = times
  <1> DEFINE n == Cardinality(times)
  <1>1. n \in Nat /\ n # 0
    BY FS_CardinalityType, FS_EmptySet
  <1>2. n \in 1 .. n
    BY <1>1
  <1>3. PICK b \in times : b = InOrder(times)[n]
    BY <1>2, InOrderIsRow
  <1>4. \A t \in times : t <= b
    <2> SUFFICES ASSUME NEW t \in times PROVE t <= b
      OBVIOUS
    <2>1. PICK j \in 1 .. n : InOrder(times)[j] = t
      BY InOrderHasAll
    <2>2. j = n \/ j < n
      BY <1>1
    <2>3. t = b \/ t < b
      BY <1>2, <1>3, <2>1, <2>2, InOrderGrows
    <2>4. QED
      BY <2>3
  <1>5. Upto(times, b) = times
    BY <1>4 DEF Upto
  <1>6. QED
    BY <1>2, <1>3, <1>5

LEMMA CoveredIsFinite ==
    ASSUME NEW times \in SUBSET Int, IsFiniteSet(times)
    PROVE  IsFiniteSet(Covered(times))
  <1>1. CASE times = {}
    <2>1. Covered(times) = {}
      BY <1>1, CoveredIs
    <2>2. QED
      BY <2>1, FS_EmptySet
  <1>2. CASE times # {}
    <2>1. PICK b \in times : Upto(times, b) = times
      BY <1>2, NothingAfterLastRow
    <2>2. QED
      BY <2>1, CoveredUptoIsBefore
  <1>3. QED
    BY <1>1, <1>2

\* UsageSince, for every set of sightings: the loop over the sorted rows
\* counts the units of time between two sightings that are less than the gap
\* apart.
THEOREM UsageCountsCovered ==
    ASSUME NEW times \in SUBSET Int, IsFiniteSet(times)
    PROVE  Usage(times) = Cardinality(Covered(times))
  <1> DEFINE n == Cardinality(times)
             at == InOrder(times)
             gap(i) == IF i > 1 /\ Chains(at[i] - at[i - 1]) THEN at[i] - at[i - 1] ELSE 0
             total[i \in 0 .. n] == IF i = 0 THEN 0 ELSE total[i - 1] + gap(i)
             closed == CoveredSoFar(times)
  <1>1. n \in Nat
    BY FS_CardinalityType
  <1>2. Usage(times) = total[n]
    BY DEF Usage
  <1>3. \A i : gap(i) = RowGap(times, i)
    BY DEF RowGap
  <1>4. total = CHOOSE f : f = [i \in 0 .. n |-> IF i = 0 THEN 0 ELSE f[i - 1] + gap(i)]
    BY DEF total
  <1>5. Totals(times, closed)
    BY CoveredIsTotal
  <1> HIDE DEF total, gap, at, closed
  <1>6. closed = [i \in 0 .. n |-> IF i = 0 THEN 0 ELSE closed[i - 1] + gap(i)]
    BY <1>3, <1>5 DEF Totals
  <1>7. total = [i \in 0 .. n |-> IF i = 0 THEN 0 ELSE total[i - 1] + gap(i)]
    BY <1>4, <1>6
  <1>8. Totals(times, total)
    BY <1>3, <1>7 DEF Totals
  <1>9. Usage(times) = closed[n]
    <2>1. n \in 0 .. n
      BY <1>1
    <2>2. QED
      BY <1>2, <1>5, <1>8, <2>1, TotalIsUnique
  <1>10. CASE times = {}
    <2>1. n = 0
      BY <1>10, FS_EmptySet
    <2>2. Covered(times) = {}
      BY <1>10, CoveredIs
    <2>3. closed[n] = 0
      BY <1>1, <2>1 DEF closed, CoveredSoFar
    <2>4. QED
      BY <1>9, <2>2, <2>3, FS_EmptySet
  <1>11. CASE times # {}
    <2>1. n \in 1 .. n
      BY <1>11, NothingAfterLastRow
    <2>2. PICK b \in times : b = InOrder(times)[n] /\ Upto(times, b) = times
      BY <1>11, NothingAfterLastRow
    <2>3. n \in 0 .. n /\ n # 0
      BY <1>1, <2>1
    <2>4. closed[n] = Cardinality(Covered(Upto(times, b)))
      BY <2>2, <2>3 DEF closed, CoveredSoFar
    <2>5. QED
      BY <1>9, <2>2, <2>4
  <1>12. QED
    BY <1>10, <1>11

-------------------------------------------------------------------------------
(***************************************************************************)
(* The log in every state of the service.                                  *)
(***************************************************************************)

\* A sighting is at most as far ahead of its record as a clock may be.
SightInv ==
    /\ IsFiniteSet(events)
    /\ \A e \in events : e.kind = "device_seen" => e.at \in Nat /\ e.at <= e.recorded + Skew

\* What no step takes out of the log: what retention leaves.
LEMMA RecentStays ==
    ASSUME ActivityInv, [Next]_vars
    PROVE  /\ now' \in Nat /\ now <= now'
           /\ \A e \in events : e.recorded >= now - Window => e \in events'
  <1>1. now \in Nat /\ 1 \in Nat
    BY DEF ActivityInv, IInv, AgeInv
  <1>2. CASE Tick
    BY <1>1, <1>2 DEF Tick
  <1>3. CASE ~ Tick
    <2>1. now' = now
      BY <1>3 DEF Next, Scan, Checkin, StartBlock, Put, SetPerson, SetOverride, Step, ReadPolicy,
           ReadOverride, InsertBlock, Retain, Sweep, Stop, Start, vars, logVars
    <2>2. CASE Retain
      <3>1. events' = Kept \/ events' = events
        BY <2>2 DEF Retain, Sweep
      <3>2. \A e \in events : e.recorded >= now - Window => e \in Kept
        BY DEF Kept
      <3>3. QED
        BY <1>1, <2>1, <3>1, <3>2
    <2>3. CASE Step
      <3>1. events \subseteq events'
        BY <2>3 DEF Step, ReadPolicy, ReadOverride, InsertBlock
      <3>2. QED
        BY <1>1, <2>1, <3>1
    <2>4. CASE Scan \/ \E d \in Agent : Checkin(d)
      <3>1. events \subseteq events'
        BY <2>4 DEF Scan, Checkin, AppendSeen
      <3>2. QED
        BY <1>1, <2>1, <3>1
    <2>5. CASE Put \/ Stop \/ Start \/ UNCHANGED vars
      <3>1. events' = events
        BY <2>5 DEF Put, SetPerson, SetOverride, Stop, Start, vars, logVars
      <3>2. QED
        BY <1>1, <2>1, <3>1
    <2>6. QED
      BY <1>3, <2>2, <2>3, <2>4, <2>5 DEF Next
  <1>4. QED
    BY <1>2, <1>3

LEMMA ImageIsFinite ==
    ASSUME NEW D, IsFiniteSet(D), NEW f, f = [x \in D |-> f[x]]
    PROVE  IsFiniteSet({f[x] : x \in D})
  <1>1. f \in Surjection(D, {f[x] : x \in D})
    BY DEF Surjection
  <1>2. QED
    BY <1>1, FS_Surjection

\* Finitely many sightings, each of a device whose clock is right or not too
\* far ahead, keep the log so.
LEMMA SightingsAreSound ==
    ASSUME SightInv, NEW seenNow, IsFiniteSet(seenNow), AppendSeen(seenNow),
           \A e \in seenNow : e.at \in Nat /\ e.at <= e.recorded + Skew
    PROVE  SightInv'
  <1>1. events' = events \union seenNow
    BY DEF AppendSeen
  <1>2. IsFiniteSet(events) /\ IsFiniteSet(events \union seenNow)
    BY FS_Union DEF SightInv
  <1>3. QED
    BY <1>1, <1>2 DEF SightInv

LEMMA SightStep ==
    ASSUME ActivityInv, SightInv, [Next]_vars
    PROVE  SightInv'
  <1>1. now \in Nat /\ Skew \in Nat /\ Late \in Nat /\ now <= now + Skew
    BY ActivityAssumption DEF ActivityInv, IInv, AgeInv
  <1>2. \A d, at : Seen(d, at).at = at /\ Seen(d, at).recorded = now
    BY DEF Seen
  <1>3. CASE Scan
    <2>1. PICK snapshot \in SUBSET Spelling :
            \E logged \in SUBSET S!Due(snapshot) : AppendSeen({Seen(m, now) : m \in logged})
      BY <1>3 DEF Scan
    <2>2. PICK logged \in SUBSET S!Due(snapshot) : AppendSeen({Seen(m, now) : m \in logged})
      BY <2>1
    <2>3. IsFiniteSet(logged)
      <3>1. logged \in SUBSET Mac /\ IsFiniteSet(Mac)
        BY ActivityAssumption, FS_Subset DEF S!Due, S!Hosts
      <3>2. QED
        BY <3>1, FS_Subset
    <2>4. PICK f : f = [m \in logged |-> Seen(m, now)]
      OBVIOUS
    <2>5. f = [m \in logged |-> f[m]] /\ {f[m] : m \in logged} = {Seen(m, now) : m \in logged}
      BY <2>4
    <2>6. IsFiniteSet({Seen(m, now) : m \in logged})
      BY <2>3, <2>5, ImageIsFinite
    <2>7. \A e \in {Seen(m, now) : m \in logged} : e.at \in Nat /\ e.at <= e.recorded + Skew
      BY <1>1, <1>2
    <2>8. QED
      BY <2>2, <2>6, <2>7, SightingsAreSound
  <1>4. ASSUME NEW d \in Agent, Checkin(d)
        PROVE  SightInv'
    <2>1. PICK at \in (now - Late) .. (now + Skew) :
            /\ at >= 0
            /\ AppendSeen({Seen(d, now), Seen(d, at)}) \/ AppendSeen({Seen(d, now)})
      BY <1>4 DEF Checkin
    <2>2. at \in Nat /\ at <= now + Skew
      BY <1>1, <2>1
    <2>3. IsFiniteSet({Seen(d, now)}) /\ IsFiniteSet({Seen(d, at)})
      BY FS_Singleton
    <2>4. IsFiniteSet({Seen(d, now), Seen(d, at)})
      <3>1. {Seen(d, now), Seen(d, at)} = {Seen(d, now)} \union {Seen(d, at)}
        OBVIOUS
      <3>2. QED
        BY <2>3, <3>1, FS_Union
    <2>5. \A e \in {Seen(d, now), Seen(d, at)} : e.at \in Nat /\ e.at <= e.recorded + Skew
      BY <1>1, <1>2, <2>2
    <2>6. QED
      BY <2>1, <2>3, <2>4, <2>5, SightingsAreSound
  <1>5. CASE Step
    <2>1. CASE InsertBlock
      <3>1. Block(append).kind # "device_seen"
        BY DEF Block
      <3>2. events' \subseteq events \union {Block(append)}
        BY <2>1 DEF InsertBlock
      <3>3. IsFiniteSet(events \union {Block(append)})
        BY FS_AddElement DEF SightInv
      <3>4. IsFiniteSet(events')
        BY <3>2, <3>3, FS_Subset
      <3>5. QED
        BY <3>1, <3>2, <3>4 DEF SightInv
    <2>2. CASE ReadPolicy \/ ReadOverride
      BY <2>2 DEF ReadPolicy, ReadOverride, SightInv
    <2>3. QED
      BY <1>5, <2>1, <2>2 DEF Step
  <1>6. CASE Retain
    <2>1. events' \subseteq events
      BY <1>6 DEF Retain, Sweep, Kept
    <2>2. IsFiniteSet(events')
      BY <2>1, FS_Subset DEF SightInv
    <2>3. QED
      BY <2>1, <2>2 DEF SightInv
  <1>7. CASE Put \/ Stop \/ Start \/ Tick \/ UNCHANGED vars
    <2>1. UNCHANGED events
      BY <1>7 DEF Put, SetPerson, SetOverride, Stop, Start, Tick, vars, logVars
    <2>2. QED
      BY <2>1 DEF SightInv
  <1>8. QED
    BY <1>3, <1>4, <1>5, <1>6, <1>7 DEF Next

LogInv == ActivityInv /\ SightInv

LEMMA LogInvariant == Spec => []LogInv
  <1>1. Init => SightInv
    BY FS_EmptySet DEF Init, LogInit, SightInv
  <1>2. SightInv /\ ActivityInv /\ [Next]_vars => SightInv'
    BY SightStep
  <1>3. QED
    BY <1>1, <1>2, ActivityInvariant, PTL DEF Spec, LogInv

LEMMA TimesAreFinite ==
    ASSUME SightInv, NEW d, NEW start
    PROVE  Times(d, start) \in SUBSET Int /\ IsFiniteSet(Times(d, start))
  <1> DEFINE rows == {x \in events : x.kind = "device_seen" /\ x.device = d /\ x.at >= start}
  <1>1. Times(d, start) = {e.at : e \in rows}
    BY DEF Times
  <1>2. IsFiniteSet(rows)
    BY FS_Subset DEF SightInv
  <1>3. \A e \in rows : e.at \in Int
    BY DEF SightInv
  <1> HIDE DEF rows
  <1>4. PICK f : f = [e \in rows |-> e.at]
    OBVIOUS
  <1>5. f = [e \in rows |-> f[e]] /\ {f[e] : e \in rows} = {e.at : e \in rows}
    BY <1>4
  <1>6. IsFiniteSet({f[e] : e \in rows})
    BY <1>2, <1>5, ImageIsFinite
  <1>7. IsFiniteSet({e.at : e \in rows})
    BY <1>5, <1>6
  <1>8. QED
    BY <1>1, <1>3, <1>7

\* What the query makes of today's sightings, of which there are finitely many.
ChargedIsCovered ==
    \A d \in Device :
      /\ Times(d, Midnight) \in SUBSET Int /\ IsFiniteSet(Times(d, Midnight))
      /\ UsageSince(d, Midnight) = Cardinality(Covered(Times(d, Midnight)))

LEMMA LogIsCharged == LogInv => ChargedIsCovered
  BY TimesAreFinite, UsageCountsCovered DEF LogInv, UsageSince, ChargedIsCovered

\* What a device is charged for today is exactly the time between sightings of
\* it that are less than the gap apart, in every state.
THEOREM UsageAlwaysCovered == Spec => []UsageIsCovered
  <1>1. LogInv => UsageIsCovered
    BY LogIsCharged DEF ChargedIsCovered, UsageIsCovered
  <1>2. QED
    BY <1>1, LogInvariant, PTL

LEMMA MidnightIsToday ==
    ASSUME LogInv
    PROVE  Midnight \in Int /\ Midnight >= now - DayLen + 1
  <1>1. now \in Nat /\ DayLen \in Nat \ {0}
    BY LogAssumption DEF LogInv, ActivityInv, IInv, AgeInv
  <1>2. now % DayLen \in 0 .. (DayLen - 1)
    BY <1>1
  <1>3. QED
    BY <1>1, <1>2 DEF Midnight

\* A window of a day and what clocks may be ahead is enough for no sighting of
\* today to be taken away.
LEMMA TodayStays ==
    ASSUME LogInv, [Next]_vars, Midnight' = Midnight, NEW d \in Device
    PROVE  Times(d, Midnight) \subseteq Times(d, Midnight)'
  <1>1. now \in Nat /\ DayLen \in Nat \ {0} /\ Skew \in Nat /\ Window \in Nat /\ Window >= DayLen + Skew - 1
    BY LogAssumption, ActivityAssumption DEF LogInv, ActivityInv, IInv, AgeInv
  <1>2. Midnight \in Int /\ Midnight >= now - DayLen + 1
    BY MidnightIsToday
  <1>3. ASSUME NEW e \in events, e.kind = "device_seen", e.at >= Midnight
        PROVE  e \in events'
    <2>1. e.at \in Nat /\ e.at <= e.recorded + Skew /\ e.recorded \in Nat
      BY <1>3 DEF LogInv, SightInv, ActivityInv, IInv, AgeInv
    <2>2. e.recorded >= now - Window
      BY <1>1, <1>2, <1>3, <2>1
    <2>3. QED
      BY <2>2, RecentStays DEF LogInv
  <1>4. QED
    BY <1>3 DEF Times

\* What is charged never shrinks before midnight, whatever the devices' clocks
\* say and whenever the retention worker sweeps.
THEOREM SpentTimeIsNotRefunded == Spec => SpentTimeStaysSpent
  <1>1. LogInv /\ ChargedIsCovered' /\ [Next]_vars => [BudgetNeverRefunded]_vars
    <2> SUFFICES ASSUME LogInv, ChargedIsCovered', [Next]_vars, Midnight' = Midnight, NEW d \in Device
                 PROVE  UsageSince(d, Midnight)' >= UsageSince(d, Midnight)
      BY DEF BudgetNeverRefunded
    <2>1. PICK old : old = Times(d, Midnight)
      OBVIOUS
    <2>2. PICK new : new = Times(d, Midnight)'
      OBVIOUS
    <2>3. /\ old \in SUBSET Int /\ IsFiniteSet(old)
          /\ UsageSince(d, Midnight) = Cardinality(Covered(old))
      BY <2>1, LogIsCharged DEF ChargedIsCovered
    <2>4. /\ new \in SUBSET Int /\ IsFiniteSet(new)
          /\ UsageSince(d, Midnight)' = Cardinality(Covered(new))
      BY <2>2 DEF ChargedIsCovered
    <2>5. old \subseteq new
      BY <2>1, <2>2, TodayStays
    <2>6. Covered(old) \subseteq Covered(new)
      BY <2>4, <2>5, CoveredIsMonotone
    <2>7. IsFiniteSet(Covered(new))
      BY <2>4, CoveredIsFinite
    <2>8. Cardinality(Covered(old)) <= Cardinality(Covered(new)) /\ IsFiniteSet(Covered(old))
      BY <2>6, <2>7, FS_Subset
    <2>9. Cardinality(Covered(old)) \in Nat /\ Cardinality(Covered(new)) \in Nat
      BY <2>7, <2>8, FS_CardinalityType
    <2>10. QED
      BY <2>3, <2>4, <2>8, <2>9
  <1>2. QED
    BY <1>1, LogIsCharged, LogInvariant, PTL DEF SpentTimeStaysSpent, Spec

-------------------------------------------------------------------------------
(***************************************************************************)
(* A device that every cycle sees.                                         *)
(***************************************************************************)

Sighting(m, t) == [kind |-> "device_seen", device |-> m, at |-> t, recorded |-> t, attrs |-> {}]

\* Every cycle from the first to the last has seen m: it has been counted as
\* often, and each cycle since it was counted enough is in the log, unless it
\* was a day ago.
Present(m, first, last, time, log, count) ==
    \E j \in Nat :
      /\ last = first + j * Interval /\ last <= time
      /\ count = MinCycles \/ count >= j + 1
      /\ \A i \in Nat :
           MinCycles - 1 <= i /\ i <= j /\ first + i * Interval > time - DayLen =>
             Sighting(m, first + i * Interval) \in log

PresenceInv ==
    /\ ~up => \A m \in Mac : since[m] = None
    /\ \A m \in Mac : since[m] # None /\ up =>
         /\ since[m] \in Nat
         /\ Present(m, since[m], scanAt - Interval, now, events, seen[m])

LEMMA Beats ==
    /\ Interval \in Nat \ {0} /\ Interval < Gap /\ MinCycles \in Nat \ {0}
    /\ DayLen \in Nat \ {0} /\ Gap \in Nat
    /\ 0 * Interval = 0
    /\ \A i \in Nat : i * Interval \in Nat /\ (i + 1) * Interval = i * Interval + Interval
    /\ \A i, j \in Nat : i < j => i * Interval + Interval <= j * Interval
  <1>1. Interval \in Nat \ {0} /\ Interval < Gap /\ MinCycles \in Nat \ {0}
        /\ DayLen \in Nat \ {0} /\ Gap \in Nat
    BY ActivityAssumption, LogAssumption
  <1>2. \A i \in Nat : i * Interval \in Nat /\ (i + 1) * Interval = i * Interval + Interval
    BY <1>1
  <1>3. 0 * Interval = 0
    BY <1>1
  <1>4. QED
    BY <1>1, <1>2, <1>3, TimesMonotone

LEMMA FirstBeat ==
    ASSUME NEW m, NEW t \in Nat, NEW log, NEW count \in 0 .. MinCycles, count >= 1,
           count = MinCycles => Sighting(m, t) \in log
    PROVE  Present(m, t, t, t, log, count)
  <1> USE Beats
  <1>1. t = t + 0 * Interval /\ t <= t /\ count >= 0 + 1
    OBVIOUS
  <1>2. ASSUME NEW i \in Nat, MinCycles - 1 <= i, i <= 0
        PROVE  Sighting(m, t + i * Interval) \in log
    <2>1. i = 0 /\ MinCycles = 1
      BY <1>2
    <2>2. count = MinCycles /\ t + i * Interval = t
      BY <2>1
    <2>3. QED
      BY <2>2
  <1>3. QED
    BY <1>1, <1>2 DEF Present

LEMMA NextBeat ==
    ASSUME NEW m, NEW first \in Nat, NEW last, NEW time, NEW log, NEW count \in 0 .. MinCycles,
           Present(m, first, last, time, log, count),
           NEW t \in Nat, t = last + Interval, time <= t, time \in Nat, last \in Int,
           NEW more, log \subseteq more, NEW counted \in 0 .. MinCycles,
           counted = MinCycles \/ counted >= count + 1,
           counted = MinCycles => Sighting(m, t) \in more
    PROVE  Present(m, first, t, t, more, counted)
  <1>1. PICK j \in Nat :
          /\ last = first + j * Interval /\ last <= time
          /\ count = MinCycles \/ count >= j + 1
          /\ \A i \in Nat :
               MinCycles - 1 <= i /\ i <= j /\ first + i * Interval > time - DayLen =>
                 Sighting(m, first + i * Interval) \in log
    BY DEF Present
  <1>2. j + 1 \in Nat /\ (j + 1) * Interval = j * Interval + Interval /\ j * Interval \in Nat
    BY Beats
  <1>3. t = first + (j + 1) * Interval /\ t <= t
    BY <1>1, <1>2, Beats
  <1>4. counted = MinCycles \/ counted >= (j + 1) + 1
    BY <1>1, Beats
  <1>5. ASSUME NEW i \in Nat, MinCycles - 1 <= i, i <= j + 1, first + i * Interval > t - DayLen
        PROVE  Sighting(m, first + i * Interval) \in more
    <2>1. CASE i = j + 1
      <3>1. counted = MinCycles
        BY <1>1, <1>5, <2>1, Beats
      <3>2. QED
        BY <1>3, <2>1, <3>1
    <2>2. CASE i # j + 1
      <3>1. i <= j
        BY <1>5, <2>2
      <3>2. i * Interval \in Nat
        BY Beats
      <3>3. first + i * Interval > time - DayLen
        BY <1>5, <3>2, Beats
      <3>4. QED
        BY <1>1, <1>5, <3>1, <3>3
    <2>3. QED
      BY <2>1, <2>2
  <1>6. QED
    BY <1>2, <1>3, <1>4, <1>5 DEF Present

LEMMA PresentStays ==
    ASSUME NEW m, NEW first \in Nat, NEW last \in Int, NEW time \in Nat, NEW log, NEW count,
           Present(m, first, last, time, log, count),
           NEW t \in Nat, time <= t, NEW left, \A e \in log : e.recorded > t - DayLen => e \in left
    PROVE  Present(m, first, last, t, left, count)
  <1>1. PICK j \in Nat :
          /\ last = first + j * Interval /\ last <= time
          /\ count = MinCycles \/ count >= j + 1
          /\ \A i \in Nat :
               MinCycles - 1 <= i /\ i <= j /\ first + i * Interval > time - DayLen =>
                 Sighting(m, first + i * Interval) \in log
    BY DEF Present
  <1>2. last <= t
    BY <1>1
  <1>3. ASSUME NEW i \in Nat, MinCycles - 1 <= i, i <= j, first + i * Interval > t - DayLen
        PROVE  Sighting(m, first + i * Interval) \in left
    <2>1. i * Interval \in Nat /\ DayLen \in Nat
      BY Beats
    <2>2. first + i * Interval > time - DayLen
      BY <1>3, <2>1
    <2>3. Sighting(m, first + i * Interval) \in log
      BY <1>1, <1>3, <2>2
    <2>4. Sighting(m, first + i * Interval).recorded = first + i * Interval
      BY DEF Sighting
    <2>5. QED
      BY <1>3, <2>3, <2>4
  <1>4. QED
    BY <1>1, <1>2, <1>3 DEF Present

\* A cycle goes on with the run of every device it saw and recorded, and
\* begins one for a device that had none.
LEMMA ScanKeepsPresence ==
    ASSUME LogInv, PresenceInv, Scan, NEW m \in Mac, since'[m] # None
    PROVE  since'[m] \in Nat /\ Present(m, since'[m], scanAt' - Interval, now', events', seen'[m])
  <1>1. PICK snapshot \in SUBSET Spelling :
          \E logged \in SUBSET S!Due(snapshot) :
            /\ S!Cycle(snapshot, S!Due(snapshot))
            /\ AppendSeen({Seen(x, now) : x \in logged})
            /\ since' = [x \in Mac |->
                 IF x \in S!Hosts(snapshot) \ (S!Due(snapshot) \ logged)
                   THEN IF since[x] = None THEN now ELSE since[x]
                   ELSE None]
    BY DEF Scan
  <1>2. PICK logged \in SUBSET S!Due(snapshot) :
          /\ S!Cycle(snapshot, S!Due(snapshot))
          /\ AppendSeen({Seen(x, now) : x \in logged})
          /\ since' = [x \in Mac |->
               IF x \in S!Hosts(snapshot) \ (S!Due(snapshot) \ logged)
                 THEN IF since[x] = None THEN now ELSE since[x]
                 ELSE None]
    BY <1>1
  <1>3. /\ m \in S!Hosts(snapshot)
        /\ m \in S!Due(snapshot) => m \in logged
        /\ since'[m] = IF since[m] = None THEN now ELSE since[m]
    BY <1>2
  <1>4. now \in Nat /\ up /\ now = scanAt /\ now' = now /\ scanAt' = now + Interval
    BY DEF Scan, LogInv, ActivityInv, IInv, AgeInv
  <1>5. scanAt' - Interval = now
    BY <1>4, Beats
  <1>c. MinCycles \in Nat \ {0}
    BY Beats
  <1>6. seen[m] \in 0 .. MinCycles
    BY DEF LogInv, ActivityInv, ScanInv
  <1>7. seen'[m] = S!Counted(snapshot)[m] /\ S!Counted(snapshot)[m] = S!Capped(seen[m] + 1)
    BY <1>2, <1>3 DEF S!Cycle, S!Counted, S!Count
  <1>8. seen'[m] \in 0 .. MinCycles /\ (seen'[m] = MinCycles \/ seen'[m] >= seen[m] + 1)
    <2>1. seen[m] + 1 \in Nat /\ MinCycles \in Nat
      BY <1>6, <1>c
    <2>2. S!Capped(seen[m] + 1) \in 0 .. MinCycles
      BY <2>1, CappedBy
    <2>3. S!Capped(seen[m] + 1) = seen[m] + 1 \/ S!Capped(seen[m] + 1) = MinCycles
      <3>1. seen[m] + 1 <= MinCycles \/ seen[m] + 1 >= MinCycles
        BY <2>1
      <3>2. QED
        BY <2>1, <3>1, CappedBy
    <2>4. QED
      BY <1>6, <1>7, <2>1, <2>2, <2>3
  <1>9. seen'[m] = MinCycles => Sighting(m, now) \in events'
    <2>1. SUFFICES ASSUME seen'[m] = MinCycles PROVE Sighting(m, now) \in events'
      OBVIOUS
    <2>2. m \in S!Due(snapshot)
      <3>1. S!Counted(snapshot)[m] >= MinCycles
        BY <1>7, <1>c, <2>1
      <3>2. QED
        BY <1>3, <3>1 DEF S!Due
    <2>3. Sighting(m, now) = Seen(m, now)
      BY DEF Sighting, Seen
    <2>4. QED
      BY <1>2, <1>3, <2>2, <2>3 DEF AppendSeen
  <1>10. CASE since[m] = None
    <2>1. since'[m] = now
      BY <1>3, <1>10
    <2>2. seen'[m] >= 1
      BY <1>6, <1>8, <1>c
    <2>3. Present(m, now, now, now, events', seen'[m])
      BY <1>4, <1>8, <1>9, <2>2, FirstBeat
    <2>4. QED
      BY <1>4, <1>5, <2>1, <2>3
  <1>11. CASE since[m] # None
    <2>1. since'[m] = since[m] /\ since[m] \in Nat
      BY <1>3, <1>4, <1>11 DEF PresenceInv
    <2>2. Present(m, since[m], scanAt - Interval, now, events, seen[m])
      BY <1>4, <1>11 DEF PresenceInv
    <2>3. scanAt - Interval \in Int /\ now = (scanAt - Interval) + Interval /\ now <= now
      BY <1>4, Beats
    <2>4. events \subseteq events'
      BY <1>2 DEF AppendSeen
    <2>5. Present(m, since[m], now, now, events', seen'[m])
      <3>1. PICK last \in Int : last = scanAt - Interval
        BY <2>3
      <3>2. Present(m, since[m], last, now, events, seen[m]) /\ now = last + Interval
        BY <2>2, <2>3, <3>1
      <3>3. QED
        BY <1>4, <1>6, <1>8, <1>9, <2>1, <2>3, <2>4, <3>2, NextBeat
    <2>6. QED
      BY <1>4, <1>5, <2>1, <2>5
  <1>12. QED
    BY <1>10, <1>11

\* Nothing else disturbs a run but a stop, which ends it.
LEMMA RestKeepsPresence ==
    ASSUME LogInv, PresenceInv, [Next]_vars, UNCHANGED <<up, scanAt, since, seen>>
    PROVE  PresenceInv'
  <1>1. now \in Nat /\ now' \in Nat /\ now <= now'
    BY RecentStays DEF LogInv, ActivityInv, IInv, AgeInv
  <1>2. \A e \in events : e.recorded > now' - DayLen => e \in events'
    <2> SUFFICES ASSUME NEW e \in events, e.recorded > now' - DayLen PROVE e \in events'
      OBVIOUS
    <2>1. e.recorded \in Nat
      BY DEF LogInv, ActivityInv, IInv, AgeInv
    <2>2. DayLen \in Nat /\ Skew \in Nat /\ Window \in Nat /\ Window >= DayLen + Skew - 1
      BY LogAssumption, ActivityAssumption
    <2>3. e.recorded >= now - Window
      BY <1>1, <2>1, <2>2
    <2>4. QED
      BY <2>3, RecentStays DEF LogInv
  <1>3. ASSUME NEW m \in Mac, since[m] # None, up
        PROVE  since[m] \in Nat /\ Present(m, since[m], scanAt - Interval, now', events', seen[m])
    <2>1. since[m] \in Nat /\ Present(m, since[m], scanAt - Interval, now, events, seen[m])
      BY <1>3 DEF PresenceInv
    <2>2. PICK last \in Int : last = scanAt - Interval
      BY <1>3, Beats DEF LogInv, ActivityInv, ShapeInv
    <2>3. Present(m, since[m], last, now, events, seen[m])
      BY <2>1, <2>2
    <2>4. Present(m, since[m], last, now', events', seen[m])
      BY <1>1, <1>2, <2>1, <2>3, PresentStays
    <2>5. QED
      BY <2>1, <2>2, <2>4
  <1>4. QED
    BY <1>3 DEF PresenceInv

LEMMA PresenceStep == LogInv /\ PresenceInv /\ [Next]_vars => PresenceInv'
  <1> SUFFICES ASSUME LogInv, PresenceInv, [Next]_vars PROVE PresenceInv'
    OBVIOUS
  <1>1. CASE Scan
    <2>1. up' /\ up
      BY <1>1 DEF Scan
    <2>2. QED
      BY <1>1, <2>1, ScanKeepsPresence DEF PresenceInv
  <1>2. CASE Stop
    BY <1>2 DEF Stop, PresenceInv
  <1>3. CASE Start
    <2>1. ~up /\ since' = since
      BY <1>3 DEF Start
    <2>2. \A m \in Mac : since'[m] = None
      BY <2>1 DEF PresenceInv
    <2>3. QED
      BY <2>2 DEF PresenceInv
  <1>4. CASE ~ (Scan \/ Stop \/ Start)
    <2>1. UNCHANGED <<up, scanAt, since, seen>>
      BY <1>4 DEF Next, Checkin, Put, Step, Retain, Tick, vars, restVars
    <2>2. QED
      BY <2>1, RestKeepsPresence
  <1>5. QED
    BY <1>1, <1>2, <1>3, <1>4

LEMMA PresenceInvariant == Spec => []PresenceInv
  <1>1. Init => PresenceInv
    BY DEF Init, PresenceInv
  <1>2. QED
    BY <1>1, LogInvariant, PresenceStep, PTL DEF Spec

LEMMA MaxOfTwo ==
    ASSUME NEW a \in Int, NEW b \in Int
    PROVE  Max({a, b}) \in {a, b} /\ Max({a, b}) >= a /\ Max({a, b}) >= b
  <1> DEFINE Most(x) == \A y \in {a, b} : x >= y
  <1>1. Max({a, b}) = CHOOSE x \in {a, b} : Most(x)
    BY DEF Max
  <1>2. \E x \in {a, b} : Most(x)
    <2>1. CASE a >= b
      BY <2>1
    <2>2. CASE ~ (a >= b)
      BY <2>2
    <2>3. QED
      BY <2>1, <2>2
  <1> HIDE DEF Most
  <1>3. Max({a, b}) \in {a, b} /\ Most(Max({a, b}))
    BY <1>1, <1>2
  <1>4. QED
    BY <1>3 DEF Most

\* Every moment of a run lies between two cycles, and both are in the log.
LEMMA BetweenBeats ==
    ASSUME LogInv, NEW m, NEW first \in Nat, NEW last \in Int, NEW count,
           Present(m, first, last, now, events, count),
           NEW x \in Int, first + (MinCycles - 1) * Interval <= x, Midnight + Interval - 1 <= x, x < last
    PROVE  x \in Covered(Times(m, Midnight))
  <1>1. PICK j \in Nat :
          /\ last = first + j * Interval
          /\ \A i \in Nat :
               MinCycles - 1 <= i /\ i <= j /\ first + i * Interval > now - DayLen =>
                 Sighting(m, first + i * Interval) \in events
    BY DEF Present
  <1>2. Interval \in Nat \ {0} /\ Interval < Gap /\ Gap \in Nat /\ MinCycles - 1 \in Nat /\ DayLen \in Nat
    BY Beats
  <1>3. /\ Midnight \in Int /\ Midnight >= now - DayLen + 1 /\ now \in Nat
    BY MidnightIsToday DEF LogInv, ActivityInv, IInv, AgeInv
  <1>4. x - first \in Nat
    <2>1. (MinCycles - 1) * Interval \in Nat
      BY <1>2, Beats
    <2>2. QED
      BY <2>1
  <1>5. PICK i \in Nat : i * Interval <= x - first /\ x - first < i * Interval + Interval
    <2>1. (x - first) \div Interval \in Nat
      BY <1>2, <1>4
    <2>2. QED
      BY <1>2, <1>4, <2>1, DivIsWhich
  <1>6. i * Interval \in Nat /\ j * Interval \in Nat /\ (i + 1) * Interval = i * Interval + Interval
    BY Beats
  <1>7. MinCycles - 1 <= i
    <2>1. i < MinCycles - 1 => i * Interval + Interval <= (MinCycles - 1) * Interval
      BY <1>2, Beats
    <2>2. (MinCycles - 1) * Interval \in Nat
      BY <1>2, Beats
    <2>3. ~ (i < MinCycles - 1)
      BY <1>2, <1>4, <1>5, <1>6, <2>1, <2>2
    <2>4. QED
      BY <1>2, <2>3
  <1>8. i + 1 <= j
    <2>1. x - first < j * Interval
      BY <1>1, <1>4, <1>6
    <2>2. j < i => j * Interval + Interval <= i * Interval
      BY Beats
    <2>3. j # i /\ ~ (j < i)
      BY <1>2, <1>4, <1>5, <1>6, <2>1, <2>2
    <2>4. QED
      BY <2>3
  <1> DEFINE p == first + i * Interval
             q == first + (i + 1) * Interval
  <1>9. p \in Nat /\ q \in Nat /\ q = p + Interval /\ p <= x /\ x < q
    BY <1>2, <1>4, <1>5, <1>6
  <1>10. p >= Midnight /\ q >= Midnight /\ p > now - DayLen /\ q > now - DayLen
    <2> HIDE DEF p, q
    <2>1. QED
      BY <1>2, <1>3, <1>9
  <1>11. Sighting(m, p) \in events /\ Sighting(m, q) \in events
    <2>1. i + 1 \in Nat /\ MinCycles - 1 <= i + 1 /\ i <= j
      BY <1>2, <1>7, <1>8
    <2>2. QED
      BY <1>1, <1>7, <1>8, <1>10, <2>1
  <1> HIDE DEF p, q
  <1>12. \A t : Sighting(m, t).kind = "device_seen" /\ Sighting(m, t).device = m /\ Sighting(m, t).at = t
    BY DEF Sighting
  <1>13. p \in Times(m, Midnight) /\ q \in Times(m, Midnight)
    BY <1>10, <1>11, <1>12 DEF Times
  <1>14. q - p < Gap /\ x \in p .. (q - 1)
    BY <1>2, <1>9
  <1>15. QED
    BY <1>13, <1>14, CoveredIs

\* A device that every cycle sees is charged for all of the time since it was
\* counted often enough, or since midnight, whatever the scan interval below
\* the gap and however many cycles are asked for.
THEOREM PresenceAlwaysCounts == Spec => []PresenceCounts
  <1>1. LogInv /\ PresenceInv => PresenceCounts
    <2> SUFFICES ASSUME LogInv, PresenceInv, NEW m \in Mac, since[m] # None, up
                 PROVE  UsageSince(m, Midnight) >=
                          (scanAt - Interval) -
                             Max({since[m] + (MinCycles - 1) * Interval, Midnight + Interval - 1})
      BY DEF PresenceCounts
    <2>1. PICK first \in Nat : first = since[m]
      BY DEF PresenceInv
    <2>2. PICK last \in Int : last = scanAt - Interval
      BY Beats DEF LogInv, ActivityInv, ShapeInv
    <2>3. Present(m, first, last, now, events, seen[m])
      BY <2>1, <2>2 DEF PresenceInv
    <2>4. PICK counted \in Int : counted = first + (MinCycles - 1) * Interval
      <3>1. MinCycles - 1 \in Nat
        BY Beats
      <3>2. (MinCycles - 1) * Interval \in Nat
        BY <3>1, Beats
      <3>3. QED
        BY <3>2
    <2>5. PICK today \in Int : today = Midnight + Interval - 1
      BY MidnightIsToday, Beats
    <2>6. PICK from \in Int : from = Max({counted, today}) /\ from >= counted /\ from >= today
      <3>1. Max({counted, today}) \in {counted, today}
        BY MaxOfTwo
      <3>2. Max({counted, today}) >= counted /\ Max({counted, today}) >= today
        BY MaxOfTwo
      <3>3. Max({counted, today}) \in Int
        BY <3>1
      <3>4. QED
        BY <3>2, <3>3
    <2>7. PICK times : times = Times(m, Midnight)
      OBVIOUS
    <2>8. times \in SUBSET Int /\ IsFiniteSet(times) /\ UsageSince(m, Midnight) = Cardinality(Covered(times))
      BY <2>7, LogIsCharged, ActivityAssumption DEF ChargedIsCovered
    <2>9. IsFiniteSet(Covered(times)) /\ Cardinality(Covered(times)) \in Nat
      BY <2>8, CoveredIsFinite, FS_CardinalityType
    <2>10. Cardinality(Covered(times)) >= last - from
      <3>1. CASE last <= from
        BY <2>9, <3>1
      <3>2. CASE from < last
        <4>1. from .. (last - 1) \subseteq Covered(times)
          <5> SUFFICES ASSUME NEW x \in from .. (last - 1) PROVE x \in Covered(times)
            OBVIOUS
          <5>1. x \in Int /\ counted <= x /\ today <= x /\ x < last
            BY <2>6
          <5>2. QED
            BY <2>3, <2>4, <2>5, <2>7, <5>1, BetweenBeats
        <4>2. last - 1 \in Int /\ ~ (from > last - 1) /\ last - 1 - from + 1 = last - from
          BY <3>2
        <4>3. Cardinality(from .. (last - 1)) = last - from
          BY <4>2, FS_Interval
        <4>4. Cardinality(from .. (last - 1)) <= Cardinality(Covered(times))
          BY <2>9, <4>1, FS_Subset
        <4>5. QED
          BY <2>9, <4>3, <4>4
      <3>3. QED
        BY <3>1, <3>2
    <2>11. from = Max({since[m] + (MinCycles - 1) * Interval, Midnight + Interval - 1})
      BY <2>1, <2>4, <2>5, <2>6
    <2>12. UsageSince(m, Midnight) >= last - from
      BY <2>8, <2>10
    <2>13. QED
      BY <2>2, <2>11, <2>12
  <1>2. QED
    BY <1>1, LogInvariant, PresenceInvariant, PTL

===============================================================================
