------------------------- MODULE ScheduleEditorProofs -------------------------
(***************************************************************************)
(* What Policy and ScheduleEditor guarantee for a week of any number of    *)
(* days, hours and minutes, every policy, override and painted grid.       *)
(*                                                                         *)
(* The state matters little here, so that types are all the invariant.     *)
(* The work is in the clock: positions in the week are compared modulo its *)
(* length (BlockIsWeekly), and an hour of the grid is found again in the   *)
(* one block that was made of its run (SavedBlocks).                       *)
(***************************************************************************)
EXTENDS ScheduleEditor, Arithmetic

LEMMA Week ==
    /\ Days \in Nat /\ Days >= 2 /\ Hours \in Nat /\ Hours >= 1
    /\ HourMins \in Nat /\ HourMins >= 1 /\ DayLen \in Nat /\ DayLen >= HourMins
  <1>1. /\ Days \in Nat /\ Days >= 2 /\ Hours \in Nat /\ Hours >= 1
        /\ HourMins \in Nat /\ HourMins >= 1
    BY PolicyAssumption
  <1>2. DayLen \in Nat
    BY <1>1 DEF DayLen
  <1>3. 0 * HourMins + HourMins <= Hours * HourMins
    BY <1>1, TimesMonotone
  <1>4. QED
    BY <1>1, <1>2, <1>3 DEF DayLen

\* The minutes of hour i of a day.
LEMMA HourStarts ==
    ASSUME NEW i \in 0 .. Hours
    PROVE  /\ i * HourMins \in Nat
           /\ i < Hours => i * HourMins \in Minute
           /\ i = Hours => i * HourMins = DayLen
  <1>1. i * HourMins \in Nat
    BY Week
  <1>2. i < Hours => i * HourMins + HourMins <= Hours * HourMins
    BY Week, TimesMonotone
  <1>3. QED
    BY <1>1, <1>2, Week DEF DayLen, Minute

LEMMA HourOf ==
    ASSUME NEW i \in 0 .. Hours, NEW cur \in Minute
    PROVE  /\ cur \div HourMins \in Hour
           /\ i * HourMins <= cur <=> i <= cur \div HourMins
  <1> DEFINE h == cur \div HourMins
  <1>1. cur \in Nat /\ cur < DayLen
    BY Week DEF Minute
  <1>2. h \in Nat
    BY <1>1, Week
  <1>3. h * HourMins <= cur /\ cur < h * HourMins + HourMins
    BY <1>1, <1>2, Week, DivIsWhich
  <1> HIDE DEF h
  <1>4. h < Hours
    <2>1. SUFFICES ASSUME Hours <= h PROVE FALSE
      BY <1>2, Week
    <2>2. CASE Hours = h
      <3>1. h * HourMins = DayLen
        BY <2>2 DEF DayLen
      <3>2. QED
        BY <1>1, <1>3, <3>1, Week
    <2>3. CASE Hours < h
      <3>1. Hours * HourMins + HourMins <= h * HourMins
        BY <1>2, <2>3, Week, TimesMonotone
      <3>2. Hours * HourMins \in Nat /\ h * HourMins \in Nat
        BY <1>2, Week
      <3>3. QED
        BY <1>1, <1>3, <3>1, <3>2, Week DEF DayLen
    <2>4. QED
      BY <1>2, <2>1, <2>2, <2>3, Week
  <1>5. h < i => h * HourMins + HourMins <= i * HourMins
    BY <1>2, Week, TimesMonotone
  <1>6. i < h => i * HourMins + HourMins <= h * HourMins
    BY <1>2, Week, TimesMonotone
  <1>7. h * HourMins \in Nat /\ i * HourMins \in Nat
    BY <1>2, Week
  <1>8. i * HourMins <= cur <=> i <= h
    BY <1>1, <1>2, <1>3, <1>5, <1>6, <1>7, Week
  <1>9. QED
    BY <1>2, <1>4, <1>8, Week DEF h, Hour

LEMMA DayBefore ==
    ASSUME NEW e \in Day
    PROVE  (e + Days - 1) % Days = IF e = 0 THEN Days - 1 ELSE e - 1
  <1>1. e \in Nat /\ e < Days
    BY Week DEF Day
  <1>2. CASE e = 0
    BY <1>2, Week, ModWithin
  <1>3. CASE e > 0
    <2>1. e + Days - 1 \in Days .. 2 * Days - 1
      BY <1>1, <1>3, Week
    <2>2. QED
      BY <1>1, <1>3, <2>1, Week, ModAbove
  <1>4. QED
    BY <1>1, <1>2, <1>3

\* The two ways to count weekdays are each other's inverse.
LEMMA WeekdayRoundTrips ==
    ASSUME NEW d \in Day
    PROVE  /\ GoFromUi(d) \in Day /\ UiFromGo(d) \in Day
           /\ UiFromGo(GoFromUi(d)) = d /\ GoFromUi(UiFromGo(d)) = d
  <1>1. d \in Nat /\ d < Days
    BY Week DEF Day
  <1>2. GoFromUi(d) = IF d + 1 < Days THEN d + 1 ELSE 0
    <2>1. CASE d + 1 < Days
      BY <1>1, <2>1, Week, ModWithin DEF GoFromUi
    <2>2. CASE d + 1 = Days
      BY <1>1, <2>2, Week, ModAbove DEF GoFromUi
    <2>3. QED
      BY <1>1, <2>1, <2>2, Week
  <1>3. \A e \in Day : UiFromGo(e) = IF e = 0 THEN Days - 1 ELSE e - 1
    BY DayBefore DEF UiFromGo
  <1>4. GoFromUi(d) \in Day /\ UiFromGo(d) \in Day
    BY <1>1, <1>2, <1>3, Week DEF Day
  <1>5. UiFromGo(GoFromUi(d)) = d
    BY <1>1, <1>2, <1>3, <1>4, Week
  <1>6. GoFromUi(UiFromGo(d)) = d
    <2>1. CASE d = 0
      BY <1>3, <2>1, Week, ModAbove DEF GoFromUi
    <2>2. CASE d > 0
      BY <1>1, <1>3, <2>2, Week, ModWithin DEF GoFromUi
    <2>3. QED
      BY <1>1, <2>1, <2>2
  <1>7. QED
    BY <1>4, <1>5, <1>6

-------------------------------------------------------------------------------
(***************************************************************************)
(* The resolver.                                                           *)
(***************************************************************************)

\* k days and some minutes into the week, the week's end reduced.
LEMMA OnTheCircle ==
    ASSUME NEW k \in (1 - Days) .. (Days - 1), NEW x \in (1 - DayLen) .. (DayLen - 1)
    PROVE  LET W == Days * DayLen
               p == (k * DayLen + x) % W
           IN  /\ k = 0 /\ x >= 0 => p = x
               /\ k = 0 /\ x < 0 => p >= DayLen
               /\ k \in {1, 1 - Days} => p = DayLen + x
               /\ k \notin {0, 1, 1 - Days} => p >= DayLen
  <1> DEFINE W == Days * DayLen
             j == IF k >= 0 THEN k ELSE k + Days
             a == j * DayLen
  <1>1. Days \in Nat /\ Days >= 2 /\ DayLen \in Nat /\ DayLen >= 1 /\ k \in Int /\ x \in Int
    BY Week
  <1>2. j \in 0 .. Days - 1
    BY <1>1
  <1>3. W \in Nat /\ a \in Nat /\ W >= 2 * DayLen /\ W \in Nat \ {0}
    <2>1. W \in Nat /\ a \in Nat
      BY <1>1, <1>2
    <2>2. 1 * DayLen + DayLen <= W
      BY <1>1, TimesMonotone
    <2>3. QED
      BY <1>1, <2>1, <2>2
  <1>4. /\ j = 0 => a = 0
        /\ j = 1 => a = DayLen
        /\ j >= 2 => a >= 2 * DayLen
        /\ a + DayLen <= W
    <2>1. a + DayLen <= W
      BY <1>1, <1>2, TimesMonotone
    <2>2. j = 0 => a = 0
      BY <1>1
    <2>3. j = 1 => a = DayLen
      BY <1>1
    <2>4. j >= 2 => 1 * DayLen + DayLen <= a
      BY <1>1, <1>2, TimesMonotone
    <2>5. QED
      BY <1>1, <1>3, <2>1, <2>2, <2>3, <2>4
  <1>5. k * DayLen = IF k >= 0 THEN a ELSE a - W
    BY <1>1
  <1>6. /\ j = 0 <=> k = 0
        /\ j = 1 <=> k \in {1, 1 - Days}
    BY <1>1
  <1> HIDE DEF W, j, a
  <1>7. a + x \in -W .. W - 1 /\ (a + x < 0 => k = 0)
    BY <1>1, <1>2, <1>3, <1>4, <1>6
  <1>8. (k * DayLen + x) % W = IF a + x < 0 THEN a + x + W ELSE a + x
    <2>1. CASE k >= 0
      <3>1. k * DayLen + x = a + x
        BY <1>5, <2>1
      <3>2. CASE a + x < 0
        <4>1. a + x \in -W .. -1
          BY <1>1, <1>3, <1>7, <3>2
        <4>2. QED
          BY <1>3, <3>1, <3>2, <4>1, ModBelow
      <3>3. CASE ~(a + x < 0)
        <4>1. a + x \in 0 .. W - 1
          BY <1>1, <1>3, <1>7, <3>3
        <4>2. QED
          BY <1>3, <3>1, <3>3, <4>1, ModWithin
      <3>4. QED
        BY <3>2, <3>3
    <2>2. CASE k < 0
      <3>1. k * DayLen + x = a + x - W /\ ~(a + x < 0)
        BY <1>1, <1>3, <1>5, <1>7, <2>2
      <3>2. a + x - W \in -W .. -1
        BY <1>1, <1>3, <1>7, <3>1
      <3>3. (a + x - W) % W = a + x - W + W
        BY <1>3, <3>2, ModBelow
      <3>4. QED
        BY <1>1, <1>3, <3>1, <3>3
    <2>3. QED
      BY <1>1, <2>1, <2>2
  <1>9. LET p == (k * DayLen + x) % W
        IN  /\ k = 0 /\ x >= 0 => p = x
            /\ k = 0 /\ x < 0 => p >= DayLen
            /\ k \in {1, 1 - Days} => p = DayLen + x
            /\ k \notin {0, 1, 1 - Days} => p >= DayLen
    BY <1>1, <1>2, <1>3, <1>4, <1>6, <1>8
  <1>10. QED
    BY <1>9 DEF W

\* One weekday of a block, on the circle and on the two days that Covers
\* looks at.
LEMMA WeekdayCovers ==
    ASSUME NEW start \in Minute, NEW end \in Minute, NEW d \in Day, NEW wd \in Day, NEW cur \in Minute
    PROVE  ((wd - d) * DayLen + cur - start) % (Days * DayLen) < (end - start) % DayLen
           <=> /\ start # end
               /\ IF start < end THEN wd = d /\ start <= cur /\ cur < end
                  ELSE \/ wd = d /\ start <= cur
                       \/ (wd + Days - 1) % Days = d /\ cur < end
  <1> DEFINE k == wd - d
             x == cur - start
             p == (k * DayLen + x) % (Days * DayLen)
             len == (end - start) % DayLen
  <1>1. /\ Days \in Nat /\ Days >= 2 /\ DayLen \in Nat /\ DayLen >= 1
        /\ d \in Nat /\ d < Days /\ wd \in Nat /\ wd < Days
        /\ cur \in Nat /\ cur < DayLen /\ start \in Nat /\ start < DayLen
        /\ end \in Nat /\ end < DayLen
    BY Week DEF Day, Minute
  <1>2. k \in (1 - Days) .. (Days - 1) /\ x \in (1 - DayLen) .. (DayLen - 1)
    BY <1>1
  <1>3. (wd - d) * DayLen + cur - start = k * DayLen + x
    <2>1. k * DayLen \in Int
      BY <1>1
    <2>2. QED
      BY <1>1, <2>1
  <1>4. len = IF start <= end THEN end - start ELSE end - start + DayLen
    <2>1. PICK gap : gap = end - start
      OBVIOUS
    <2>2. DayLen \in Nat \ {0} /\ gap \in Int /\ gap < DayLen /\ gap >= -DayLen
      BY <1>1, <2>1
    <2>3. CASE start <= end
      <3>1. gap \in 0 .. DayLen - 1
        BY <1>1, <2>1, <2>2, <2>3
      <3>2. gap % DayLen = gap
        BY <2>2, <3>1, ModWithin
      <3>3. QED
        BY <2>1, <2>3, <3>2
    <2>4. CASE end < start
      <3>1. gap \in -DayLen .. -1 /\ ~ (start <= end)
        BY <1>1, <2>1, <2>2, <2>4
      <3>2. gap % DayLen = gap + DayLen
        BY <2>2, <3>1, ModBelow
      <3>3. QED
        BY <2>1, <3>1, <3>2
    <2>5. QED
      BY <1>1, <2>3, <2>4
  <1>5. /\ k = 0 <=> wd = d
        /\ k \in {1, 1 - Days} <=> (wd + Days - 1) % Days = d
    <2>1. (wd + Days - 1) % Days = IF wd = 0 THEN Days - 1 ELSE wd - 1
      BY DayBefore
    <2>2. QED
      BY <1>1, <2>1
  <1>6. /\ k = 0 /\ x >= 0 => p = x
        /\ k = 0 /\ x < 0 => p >= DayLen
        /\ k \in {1, 1 - Days} => p = DayLen + x
        /\ k \notin {0, 1, 1 - Days} => p >= DayLen
    BY <1>2, OnTheCircle
  <1>7. p \in Int
    BY <1>1, <1>2
  <1>8. p < len <=> /\ start # end
                    /\ IF start < end THEN k = 0 /\ start <= cur /\ cur < end
                       ELSE (k = 0 /\ start <= cur) \/ (k \in {1, 1 - Days} /\ cur < end)
    <2> HIDE DEF p, len, k
    <2>1. CASE k = 0
      BY <1>1, <1>4, <1>6, <1>7, <2>1
    <2>2. CASE k \in {1, 1 - Days}
      BY <1>1, <1>4, <1>6, <1>7, <2>2
    <2>3. CASE k \notin {0, 1, 1 - Days}
      BY <1>1, <1>4, <1>6, <1>7, <2>3
    <2>4. QED
      BY <2>1, <2>2, <2>3
  <1>9. QED
    BY <1>3, <1>5, <1>8

LEMMA BlockIsWeekly ==
    ASSUME NEW b \in Block, b.start # Bad, b.end # Bad, NEW wd \in Day, NEW cur \in Minute
    PROVE  b.start # b.end /\ Covers(b, wd, cur) <=> InBlock(b, wd, cur)
  <1>1. b.start \in Minute /\ b.end \in Minute /\ b.weekdays \subseteq Day
    BY DEF Block
  <1>2. b.start # b.end /\ Covers(b, wd, cur) <=>
          \E d \in b.weekdays :
             /\ b.start # b.end
             /\ IF b.start < b.end THEN wd = d /\ b.start <= cur /\ cur < b.end
                ELSE \/ wd = d /\ b.start <= cur
                     \/ (wd + Days - 1) % Days = d /\ cur < b.end
    BY DEF Covers
  <1>3. \A d \in b.weekdays :
          ((wd - d) * DayLen + cur - b.start) % (Days * DayLen) < (b.end - b.start) % DayLen
          <=> /\ b.start # b.end
              /\ IF b.start < b.end THEN wd = d /\ b.start <= cur /\ cur < b.end
                 ELSE \/ wd = d /\ b.start <= cur
                      \/ (wd + Days - 1) % Days = d /\ cur < b.end
    BY <1>1, WeekdayCovers
  <1>4. QED
    BY <1>2, <1>3 DEF InBlock, Length

-------------------------------------------------------------------------------
(***************************************************************************)
(* Types.                                                                  *)
(***************************************************************************)

LEMMA GridType ==
    ASSUME NEW blocks \in SUBSET Block
    PROVE  BlocksToGrid(blocks) \in Grid
  <1>1. ASSUME NEW ui \in Day, NEW h \in Hour, \E b \in blocks : Paints(b, ui, h)
        PROVE  (CHOOSE b \in blocks : Paints(b, ui, h)).kind \in Kind
    BY <1>1 DEF Block
  <1>2. QED
    BY <1>1 DEF BlocksToGrid, Grid, Kind

\* The hours of a run, and the block made of it.
LEMMA RunBlockShape ==
    ASSUME NEW row \in [Hour -> Kind], NEW ui \in Day, NEW i \in Hour, NEW j \in 1 .. Hours
    PROVE  LET b == RunBlock(row, ui, i, j)
           IN  /\ b \in Block
               /\ b.kind = row[i] /\ b.weekdays = {GoFromUi(ui)}
               /\ b.start = i * HourMins
               /\ b.end = IF j = Hours THEN 0 ELSE j * HourMins
               /\ b.start # Bad /\ b.end # Bad
  <1>1. i \in 0 .. Hours /\ i < Hours /\ j \in 0 .. Hours /\ (j # Hours => j < Hours)
    BY Week DEF Hour
  <1>2. i * HourMins \in Minute /\ (j # Hours => j * HourMins \in Minute) /\ 0 \in Minute
    BY <1>1, HourStarts, Week DEF Minute
  <1>3. GoFromUi(ui) \in Day /\ row[i] \in Kind
    BY WeekdayRoundTrips
  <1>4. QED
    BY <1>2, <1>3, PolicyAssumption DEF RunBlock, Block

LEMMA BlocksType ==
    ASSUME NEW grid \in Grid
    PROVE  GridToBlocks(grid) \in SUBSET Block
  <1>1. SUFFICES ASSUME NEW ui \in Day, NEW i \in Hour, NEW j \in 1 .. Hours
                 PROVE  RunBlock(grid[ui], ui, i, j) \in Block
    BY DEF GridToBlocks
  <1>2. grid[ui] \in [Hour -> Kind]
    BY DEF Grid
  <1>3. QED
    BY <1>2, RunBlockShape

LEMMA EditorTypeInit == Init => TypeOK
  <1>1. MaxWrites \in Nat
    BY PolicyAssumption
  <1>2. Init => assigned \in BOOLEAN
    BY DEF Init, InitPolicy
  <1>3. Init => policy \in {None} \union Rules /\ override \in {None} \union Rules
    BY DEF Init, InitPolicy
  <1>4. Init => writes \in 0 .. MaxWrites
    BY <1>1 DEF Init, InitPolicy
  <1>5. Init => page = None
    BY DEF Init
  <1>6. QED
    BY <1>2, <1>3, <1>4, <1>5 DEF TypeOK, TypeOKPolicy

LEMMA WriteType == TypeOKPolicy /\ Write => writes' \in 0 .. MaxWrites
  <1>1. MaxWrites \in Nat
    BY PolicyAssumption
  <1>2. QED
    BY <1>1 DEF TypeOKPolicy, Write

LEMMA EditorTypeStep == TypeOK /\ [Next]_vars => TypeOK'
  <1> SUFFICES ASSUME TypeOK, [Next]_vars
               PROVE  TypeOK'
    OBVIOUS
  <1>1. ASSUME NEW p \in Rules, PutPersonPolicy(p), UNCHANGED page PROVE TypeOK'
    BY <1>1, WriteType DEF PutPersonPolicy, TypeOK, TypeOKPolicy
  <1>2. ASSUME NEW o \in Rules, PutDeviceOverride(o), UNCHANGED page PROVE TypeOK'
    BY <1>2, WriteType DEF PutDeviceOverride, TypeOK, TypeOKPolicy
  <1>3. CASE OthersWrite
    <2>1. ASSUME Assign, UNCHANGED page PROVE TypeOK'
      BY <2>1 DEF Assign, TypeOK, TypeOKPolicy
    <2>2. QED
      BY <1>1, <1>2, <1>3, <2>1, PolicyAssumption, EditorAssumption DEF OthersWrite, NextPolicy
  <1>4. CASE Open
    <2> DEFINE blocks == IF policy = None \/ policy.schedule = None THEN {} ELSE policy.schedule
    <2>1. blocks \in SUBSET Block
      BY DEF TypeOK, TypeOKPolicy, Rules
    <2>2. BlocksToGrid(blocks) \in Grid
      BY <2>1, GridType
    <2>3. 0 \in 0 .. MaxStrokes
      BY EditorAssumption
    <2>4. page' = [loaded |-> policy, strokes |-> 0, grid |-> BlocksToGrid(blocks)]
      BY <1>4 DEF Open
    <2> HIDE DEF blocks
    <2>5. QED
      BY <1>4, <2>2, <2>3, <2>4 DEF Open, TypeOK, TypeOKPolicy
  <1>5. ASSUME NEW ui \in Day, PaintDay(ui) PROVE TypeOK'
    <2>1. PICK row \in [Hour -> Paint] : page' = [page EXCEPT !.grid[ui] = row, !.strokes = @ + 1]
      BY <1>5 DEF PaintDay
    <2>2. row \in [Hour -> Kind]
      BY EditorAssumption
    <2>3. /\ page \in [loaded : {None} \union Rules, grid : Grid, strokes : 0 .. MaxStrokes]
          /\ page.strokes < MaxStrokes
      BY <1>5 DEF PaintDay, TypeOK
    <2>4. page.strokes + 1 \in 0 .. MaxStrokes
      BY <2>3, EditorAssumption
    <2>5. [page.grid EXCEPT ![ui] = row] \in Grid
      BY <2>2, <2>3 DEF Grid
    <2>6. page' \in [loaded : {None} \union Rules, grid : Grid, strokes : 0 .. MaxStrokes]
      BY <2>1, <2>3, <2>4, <2>5
    <2>7. QED
      BY <1>5, <2>6 DEF PaintDay, TypeOK, TypeOKPolicy
  <1>6. CASE Save
    <2> DEFINE kept(rule) == IF page.loaded = None THEN None ELSE page.loaded[rule]
               p == [schedule |-> GridToBlocks(page.grid), budget |-> kept("budget"),
                     content |-> kept("content")]
    <2>1. PutPersonPolicy(p) /\ UNCHANGED page /\ page # None
      BY <1>6 DEF Save
    <2>2. page.loaded \in {None} \union Rules /\ page.grid \in Grid
      BY <2>1 DEF TypeOK
    <2>3. /\ kept("budget") \in {None} \union [Day -> Nat]
          /\ kept("content") \in {None} \union SUBSET ContentCap
      BY <2>2 DEF Rules
    <2>4. GridToBlocks(page.grid) \in SUBSET Block
      BY <2>2, BlocksType
    <2>5. p \in Rules
      BY <2>3, <2>4 DEF Rules
    <2> HIDE DEF p
    <2>6. QED
      BY <1>1, <2>1, <2>5
  <1>7. CASE UNCHANGED vars
    BY <1>7 DEF vars, TypeOK, TypeOKPolicy
  <1>8. QED
    BY <1>3, <1>4, <1>5, <1>6, <1>7 DEF Next

\* Whatever is stored, painted and saved is well formed: a grid is saved as
\* blocks whose times the resolver can read.
THEOREM EditorTypeCorrect == Spec => []TypeOK
  BY EditorTypeInit, EditorTypeStep, PTL DEF Spec

-------------------------------------------------------------------------------

\* evalSchedule, which looks at one weekday and the one before, agrees with
\* what the blocks say on the circle of the week at every minute of it.
THEOREM SchedulesAreWeekly == Spec => []ScheduleIsWeekly
  <1>1. ASSUME TypeOK PROVE ScheduleIsWeekly
    <2>1. SUFFICES ASSUME policy # None, policy.schedule # None,
                          NEW wd \in Day, NEW cur \in Minute
                   PROVE  EvalSchedule(policy.schedule, wd, cur) <=>
                            \E b \in policy.schedule :
                              /\ Locks(b.kind) /\ b.start # Bad /\ b.end # Bad
                              /\ InBlock(b, wd, cur)
      BY DEF ScheduleIsWeekly
    <2>2. policy.schedule \subseteq Block
      BY <1>1, <2>1 DEF TypeOK, TypeOKPolicy, Rules
    <2>3. \A b \in policy.schedule : b.start # Bad /\ b.end # Bad =>
            (b.start # b.end /\ Covers(b, wd, cur) <=> InBlock(b, wd, cur))
      BY <2>2, BlockIsWeekly
    <2>4. QED
      BY <2>1, <2>3 DEF EvalSchedule, Evaluated
  <1>2. QED
    BY <1>1, EditorTypeCorrect, PTL

\* Whatever fires, now or after any longer use, has its capability required.
LEMMA WhatFiresIsRequired ==
    ASSUME NEW wd \in Day, NEW cur, NEW used
    PROVE  LET r == Resolve(wd, cur, used)
           IN  /\ r.reason = "schedule" => "schedule_block" \in r.caps
               /\ r.reason = "time_budget_exceeded" => "time_budget" \in r.caps
  <1> DEFINE rules == Merge(policy, override)
             reason == IF EvalSchedule(rules.schedule, wd, cur) THEN "schedule"
                       ELSE IF BudgetSpent(rules.budget, wd, used) THEN "time_budget_exceeded"
                       ELSE ""
  <1>1. EvalSchedule(rules.schedule, wd, cur) => "schedule_block" \in RequiredCaps(rules)
    BY DEF EvalSchedule, RequiredCaps
  <1>2. BudgetSpent(rules.budget, wd, used) => "time_budget" \in RequiredCaps(rules)
    BY DEF BudgetSpent, RequiredCaps
  <1> HIDE DEF rules
  <1>3. CASE ~ assigned \/ rules = None
    BY <1>3 DEF Resolve, Free, rules
  <1>4. CASE ~ (~ assigned \/ rules = None)
    BY <1>1, <1>2, <1>4 DEF Resolve, rules
  <1>5. QED
    BY <1>3, <1>4

\* Whatever locks a device has its capability among the required ones,
\* whichever of policy and override each rule comes from.
THEOREM LocksAreAlwaysRequired == Spec => []LocksAreRequired
  <1>1. LocksAreRequired
    BY WhatFiresIsRequired DEF LocksAreRequired
  <1>2. QED
    BY <1>1, PTL

-------------------------------------------------------------------------------
(***************************************************************************)
(* The grid.                                                               *)
(***************************************************************************)

\* Every painted hour is in a run.
LEMMA RunOf ==
    ASSUME NEW row \in [Hour -> Kind], NEW h \in Hour, row[h] # "free"
    PROVE  \E i \in Hour, j \in 1 .. Hours : Run(row, i, j) /\ i <= h /\ h < j
  <1> DEFINE S == {k \in 0 .. h : \A x \in k .. h : row[x] = row[h]}
             T == {k \in (h + 1) .. Hours : k = Hours \/ row[k] # row[h]}
  <1>1. h \in Nat /\ h < Hours /\ Hours \in Nat /\ Hour = 0 .. Hours - 1
    BY Week DEF Hour
  <1>2. S \in SUBSET Nat /\ T \in SUBSET Nat /\ h \in S /\ Hours \in T
    BY <1>1
  <1>3. PICK i \in S : \A k \in S : i <= k
    BY <1>2, LeastNatural
  <1>4. PICK j \in T : \A k \in T : j <= k
    BY <1>2, LeastNatural
  <1>5. /\ i \in Nat /\ i <= h /\ \A x \in i .. h : row[x] = row[h]
        /\ j \in Nat /\ h < j /\ j <= Hours /\ (j = Hours \/ row[j] # row[h])
    BY <1>1
  <1>6. ASSUME NEW x \in i .. j - 1 PROVE row[x] = row[h]
    <2>1. CASE x <= h
      BY <1>5, <2>1
    <2>2. CASE h < x
      <3>1. x \in (h + 1) .. Hours /\ ~(j <= x)
        BY <1>1, <1>5, <2>2
      <3>2. x \notin T
        BY <1>4, <3>1
      <3>3. QED
        BY <3>1, <3>2
    <2>3. QED
      BY <1>1, <1>5, <2>1, <2>2
  <1>7. i > 0 => row[i - 1] # row[h]
    <2>1. SUFFICES ASSUME i > 0, row[i - 1] = row[h] PROVE FALSE
      OBVIOUS
    <2>2. i - 1 \in 0 .. h /\ \A x \in (i - 1) .. h : x = i - 1 \/ x \in i .. h
      BY <1>1, <1>5, <2>1
    <2>3. i - 1 \in S
      BY <1>5, <2>1, <2>2
    <2>4. QED
      BY <1>3, <1>5, <2>3
  <1>8. Run(row, i, j)
    <2>1. i \in i .. h
      BY <1>1, <1>5
    <2>2. row[i] = row[h] /\ i < j
      BY <1>1, <1>5, <2>1
    <2>3. QED
      BY <1>5, <1>6, <1>7, <2>2 DEF Run
  <1>9. i \in Hour /\ j \in 1 .. Hours
    BY <1>1, <1>5
  <1>10. QED
    BY <1>5, <1>8, <1>9

\* The block made of a run: where it starts and ends.
LEMMA RunTimes ==
    ASSUME NEW i \in Hour, NEW j \in 1 .. Hours, i < j
    PROVE  /\ i * HourMins \in Nat
           /\ j < Hours => i * HourMins < j * HourMins
           /\ (i * HourMins) \div HourMins = i
           /\ (j * HourMins + HourMins - 1) \div HourMins = j
           /\ (0 + HourMins - 1) \div HourMins = 0
  <1>1. i \in Nat /\ j \in Nat /\ HourMins \in Nat \ {0}
    BY Week DEF Hour
  <1>2. i * HourMins \in Nat /\ j * HourMins \in Nat
    BY <1>1
  <1>3. i * HourMins + HourMins <= j * HourMins
    BY <1>1, TimesMonotone
  <1>4. (i * HourMins) \div HourMins = i
    BY <1>1, <1>2, DivIsWhich
  <1>5. (j * HourMins + HourMins - 1) \div HourMins = j
    <2>1. j * HourMins + HourMins - 1 \in Nat
      BY <1>1, <1>2
    <2>2. j * HourMins <= j * HourMins + HourMins - 1
          /\ j * HourMins + HourMins - 1 < j * HourMins + HourMins
      BY <1>1, <1>2
    <2>3. QED
      BY <1>1, <2>1, <2>2, DivIsWhich
  <1>6. (0 + HourMins - 1) \div HourMins = 0
    <2>1. 0 + HourMins - 1 \in Nat /\ 0 * HourMins = 0
      BY <1>1
    <2>2. QED
      BY <1>1, <2>1, DivIsWhich
  <1>7. QED
    BY <1>1, <1>2, <1>3, <1>4, <1>5, <1>6

\* It paints the hours of its run.
LEMMA RunPaints ==
    ASSUME NEW row \in [Hour -> Kind], NEW u \in Day, NEW i \in Hour, NEW j \in 1 .. Hours, i < j,
           NEW ui \in Day, NEW h \in Hour
    PROVE  Paints(RunBlock(row, u, i, j), ui, h) <=> ui = u /\ i <= h /\ h < j
  <1>1. PICK b : b = RunBlock(row, u, i, j)
    OBVIOUS
  <1>2. /\ b.start = i * HourMins /\ b.end = IF j = Hours THEN 0 ELSE j * HourMins
        /\ b.weekdays = {GoFromUi(u)} /\ b.start # Bad /\ b.end # Bad
    BY <1>1, RunBlockShape
  <1>3. UiFromGo(GoFromUi(u)) = u
    BY WeekdayRoundTrips
  <1>4. h \in Nat /\ h < Hours /\ Hours \in Nat
    BY Week DEF Hour
  <1>5. FirstHour(b) = i /\ EndHour(b) = IF j = Hours THEN 0 ELSE j
    BY <1>2, RunTimes DEF FirstHour, EndHour
  <1>6. b.start < b.end <=> j # Hours
    <2>1. CASE j = Hours
      BY <1>2, <2>1, RunTimes
    <2>2. CASE j # Hours
      BY <1>2, <1>4, <2>2, RunTimes
    <2>3. QED
      BY <2>1, <2>2
  <1>7. CASE j = Hours
    BY <1>1, <1>2, <1>3, <1>4, <1>5, <1>6, <1>7 DEF Paints
  <1>8. CASE j # Hours
    BY <1>1, <1>2, <1>3, <1>4, <1>5, <1>6, <1>8 DEF Paints
  <1>9. QED
    BY <1>7, <1>8

\* It locks the minutes of its run, unless that is the whole day: then it
\* starts when it ends, and is skipped.
LEMMA RunLocks ==
    ASSUME NEW row \in [Hour -> Kind], NEW u \in Day, NEW i \in Hour, NEW j \in 1 .. Hours, i < j,
           NEW wd \in Day, NEW cur \in Minute
    PROVE  LET b == RunBlock(row, u, i, j)
           IN  Evaluated(b) /\ Covers(b, wd, cur) <=>
                 /\ Locks(row[i]) /\ ~(i = 0 /\ j = Hours)
                 /\ UiFromGo(wd) = u /\ i <= cur \div HourMins /\ cur \div HourMins < j
  <1>1. PICK b : b = RunBlock(row, u, i, j)
    OBVIOUS
  <1>2. /\ b.start = i * HourMins /\ b.end = IF j = Hours THEN 0 ELSE j * HourMins
        /\ b.kind = row[i] /\ b.weekdays = {GoFromUi(u)} /\ b.start # Bad /\ b.end # Bad
    BY <1>1, RunBlockShape
  <1>3. GoFromUi(u) = wd <=> UiFromGo(wd) = u
    BY WeekdayRoundTrips
  <1>4. /\ i \in 0 .. Hours /\ j \in 0 .. Hours /\ Hours \in Nat
        /\ cur \in Nat
    BY Week DEF Hour, Minute
  <1>5. /\ cur \div HourMins \in 0 .. Hours - 1
        /\ i * HourMins <= cur <=> i <= cur \div HourMins
        /\ j * HourMins <= cur <=> j <= cur \div HourMins
    BY <1>4, HourOf DEF Hour
  <1>6. i * HourMins = 0 <=> i = 0
    BY <1>4, Week
  <1>7. i * HourMins \in Nat /\ j * HourMins \in Nat
    BY <1>4, Week
  <1>8. CASE j = Hours
    <2>1. b.end = 0 /\ ~(b.start < b.end) /\ (b.start # b.end <=> i # 0) /\ ~(cur < b.end)
      BY <1>2, <1>4, <1>6, <1>7, <1>8
    <2>2. Covers(b, wd, cur) <=> GoFromUi(u) = wd /\ i * HourMins <= cur
      BY <1>2, <2>1 DEF Covers
    <2>3. Evaluated(b) <=> Locks(row[i]) /\ i # 0
      BY <1>2, <2>1 DEF Evaluated
    <2>4. cur \div HourMins < j
      BY <1>4, <1>5, <1>8
    <2>5. QED
      BY <1>1, <1>3, <1>5, <1>8, <2>2, <2>3, <2>4
  <1>9. CASE j # Hours
    <2>1. b.start < b.end /\ b.start # b.end
      BY <1>2, <1>4, <1>7, <1>9, RunTimes
    <2>2. Covers(b, wd, cur) <=> GoFromUi(u) = wd /\ i * HourMins <= cur /\ cur < j * HourMins
      BY <1>2, <1>9, <2>1 DEF Covers
    <2>3. Evaluated(b) <=> Locks(row[i])
      BY <1>2, <2>1 DEF Evaluated
    <2>4. cur < j * HourMins <=> cur \div HourMins < j
      BY <1>4, <1>5, <1>7
    <2>5. QED
      BY <1>1, <1>3, <1>5, <1>9, <2>2, <2>3, <2>4
  <1>10. QED
    BY <1>8, <1>9

LEMMA SavedBlocks ==
    ASSUME NEW grid \in Grid
    PROVE  \A b : b \in GridToBlocks(grid) <=>
             \E u \in Day, i \in Hour, j \in 1 .. Hours :
               Run(grid[u], i, j) /\ b = RunBlock(grid[u], u, i, j)
  <1> DEFINE Ends(u, i) == {k \in 1 .. Hours : Run(grid[u], i, k)}
             Runs(u, i) == {RunBlock(grid[u], u, i, j) : j \in Ends(u, i)}
             Saved == UNION {Runs(u, i) : u \in Day, i \in Hour}
  <1>1. GridToBlocks(grid) = Saved
    BY DEF GridToBlocks
  <1>2. \A u, i, b : b \in Runs(u, i) <=>
          \E j \in 1 .. Hours : Run(grid[u], i, j) /\ b = RunBlock(grid[u], u, i, j)
    OBVIOUS
  <1> HIDE DEF Runs
  <1>3. \A b : b \in Saved <=> \E u \in Day, i \in Hour : b \in Runs(u, i)
    OBVIOUS
  <1> HIDE DEF Saved
  <1>4. \A b : b \in GridToBlocks(grid) <=> \E u \in Day, i \in Hour : b \in Runs(u, i)
    BY <1>1, <1>3
  <1>5. QED
    BY <1>2, <1>4

\* Loading what was saved shows what was painted.
LEMMA GridIsSaved ==
    ASSUME NEW grid \in Grid
    PROVE  BlocksToGrid(GridToBlocks(grid)) = grid
  <1> DEFINE blocks == GridToBlocks(grid)
  <1>1. \A u \in Day : grid[u] \in [Hour -> Kind]
    BY DEF Grid
  <1>2. ASSUME NEW b \in blocks, NEW ui \in Day, NEW h \in Hour, Paints(b, ui, h)
        PROVE  b.kind = grid[ui][h] /\ b.kind # "free"
    <2>1. PICK u \in Day, i \in Hour, j \in 1 .. Hours :
            Run(grid[u], i, j) /\ b = RunBlock(grid[u], u, i, j)
      BY SavedBlocks
    <2>2. i < j /\ grid[u][i] # "free" /\ \A k \in i .. j - 1 : grid[u][k] = grid[u][i]
      BY <2>1 DEF Run
    <2>3. b.kind = grid[u][i]
      BY <1>1, <2>1, RunBlockShape
    <2>4. ui = u /\ i <= h /\ h < j
      BY <1>1, <1>2, <2>1, <2>2, RunPaints
    <2>5. h \in i .. j - 1
      BY <2>4, Week DEF Hour
    <2>6. QED
      BY <2>2, <2>3, <2>4, <2>5
  <1>3. ASSUME NEW ui \in Day, NEW h \in Hour, grid[ui][h] # "free"
        PROVE  \E b \in blocks : Paints(b, ui, h)
    <2>1. PICK i \in Hour, j \in 1 .. Hours : Run(grid[ui], i, j) /\ i <= h /\ h < j
      BY <1>1, <1>3, RunOf
    <2>2. i < j
      BY <2>1 DEF Run
    <2>3. PICK b : b = RunBlock(grid[ui], ui, i, j)
      OBVIOUS
    <2>4. b \in blocks /\ Paints(b, ui, h)
      BY <1>1, <2>1, <2>2, <2>3, SavedBlocks, RunPaints
    <2>5. QED
      BY <2>4
  <1> HIDE DEF blocks
  <1>4. ASSUME NEW ui \in Day, NEW h \in Hour
        PROVE  BlocksToGrid(blocks)[ui][h] = grid[ui][h]
    <2>1. BlocksToGrid(blocks)[ui][h] =
            IF \E b \in blocks : Paints(b, ui, h)
              THEN (CHOOSE b \in blocks : Paints(b, ui, h)).kind ELSE "free"
      BY DEF BlocksToGrid
    <2>2. QED
      BY <1>2, <1>3, <2>1
  <1>5. BlocksToGrid(blocks) = [ui \in Day |-> [h \in Hour |-> grid[ui][h]]]
    <2>1. BlocksToGrid(blocks) = [ui \in Day |-> [h \in Hour |-> BlocksToGrid(blocks)[ui][h]]]
      BY DEF BlocksToGrid
    <2>2. QED
      BY <1>4, <2>1
  <1>6. grid = [ui \in Day |-> [h \in Hour |-> grid[ui][h]]]
    BY DEF Grid
  <1>7. QED
    BY <1>5, <1>6 DEF blocks

\* Loading what was saved shows what was painted, whole days included, on a
\* week of any size.
THEOREM GridAlwaysRoundTrips == Spec => []GridRoundTrips
  <1>1. TypeOK => GridRoundTrips
    BY GridIsSaved DEF TypeOK, GridRoundTrips
  <1>2. QED
    BY <1>1, EditorTypeCorrect, PTL

\* The resolver locks what is saved of a grid at the minutes that show a lock,
\* but on days that are all of one kind.
LEMMA GridIsEnforced ==
    ASSUME NEW grid \in Grid, None \notin SUBSET Block, NEW wd \in Day, NEW cur \in Minute,
           NEW h \in Hour, NEW k \in Hour, grid[UiFromGo(wd)][h] # grid[UiFromGo(wd)][k]
    PROVE  EvalSchedule(GridToBlocks(grid), wd, cur) <=>
             Locks(grid[UiFromGo(wd)][cur \div HourMins])
  <1> DEFINE ui == UiFromGo(wd)
             now == cur \div HourMins
  <1>1. ui \in Day /\ now \in Hour
    <2>1. 0 \in 0 .. Hours
      BY Week
    <2>2. QED
      BY <2>1, WeekdayRoundTrips, HourOf
  <1>2. \A u \in Day : grid[u] \in [Hour -> Kind]
    BY DEF Grid
  <1>3. ASSUME NEW b \in GridToBlocks(grid), Evaluated(b), Covers(b, wd, cur)
        PROVE  Locks(grid[ui][now])
    <2>1. PICK u \in Day, i \in Hour, j \in 1 .. Hours :
            Run(grid[u], i, j) /\ b = RunBlock(grid[u], u, i, j)
      BY SavedBlocks
    <2>2. i < j /\ \A x \in i .. j - 1 : grid[u][x] = grid[u][i]
      BY <2>1 DEF Run
    <2>3. Locks(grid[u][i]) /\ ui = u /\ i <= now /\ now < j
      BY <1>2, <1>3, <2>1, <2>2, RunLocks
    <2>4. now \in i .. j - 1
      BY <1>1, <2>3, Week DEF Hour
    <2>5. QED
      BY <2>2, <2>3, <2>4
  <1>4. ASSUME Locks(grid[ui][now])
        PROVE  \E b \in GridToBlocks(grid) : Evaluated(b) /\ Covers(b, wd, cur)
    <2>1. grid[ui][now] # "free"
      BY <1>4 DEF Locks
    <2>2. PICK i \in Hour, j \in 1 .. Hours : Run(grid[ui], i, j) /\ i <= now /\ now < j
      BY <1>1, <1>2, <2>1, RunOf
    <2>3. i < j /\ \A x \in i .. j - 1 : grid[ui][x] = grid[ui][i]
      BY <2>2 DEF Run
    <2>4. ~(i = 0 /\ j = Hours)
      <3>1. SUFFICES ASSUME i = 0, j = Hours PROVE FALSE
        OBVIOUS
      <3>2. h \in i .. j - 1 /\ k \in i .. j - 1
        BY <3>1 DEF Hour
      <3>3. QED
        BY <2>3, <3>2
    <2>5. Locks(grid[ui][i])
      <3>1. now \in i .. j - 1
        BY <1>1, <2>2, Week DEF Hour
      <3>2. QED
        BY <1>4, <2>3, <3>1
    <2>6. PICK b : b = RunBlock(grid[ui], ui, i, j)
      OBVIOUS
    <2>7. b \in GridToBlocks(grid)
      BY <1>1, <2>2, <2>6, SavedBlocks
    <2>8. Evaluated(b) /\ Covers(b, wd, cur)
      BY <1>1, <1>2, <2>2, <2>3, <2>4, <2>5, <2>6, RunLocks
    <2>9. QED
      BY <2>7, <2>8
  <1>5. GridToBlocks(grid) # None
    BY BlocksType
  <1>6. QED
    BY <1>3, <1>4, <1>5 DEF EvalSchedule

\* What is saved is enforced at exactly the minutes that show a lock, on every
\* day that is not all of one kind.  An absent schedule is no schedule.
THEOREM OtherDaysAreEnforced ==
    ASSUME None \notin SUBSET Block
    PROVE  Spec => EnforcesOtherDays
  <1> DEFINE Enforced == \A wd \in Day, cur \in Minute :
               ~ WholeDay(wd) => (EvalSchedule(policy.schedule, wd, cur)' <=> Shown(wd, cur))
  <1>1. ASSUME TypeOK, Save PROVE Enforced
    <2>1. policy'.schedule = GridToBlocks(page.grid) /\ page.grid \in Grid
      BY <1>1 DEF Save, PutPersonPolicy, TypeOK
    <2>2. ASSUME NEW wd \in Day, NEW cur \in Minute, ~ WholeDay(wd)
          PROVE  EvalSchedule(policy'.schedule, wd, cur) <=> Shown(wd, cur)
      BY <2>1, <2>2, GridIsEnforced DEF WholeDay, Shown
    <2>3. QED
      BY <2>2 DEF EvalSchedule
  <1>2. TypeOK /\ [Next]_vars => [Save => Enforced]_vars
    BY <1>1
  <1>3. QED
    BY <1>2, EditorTypeCorrect, PTL DEF Spec, EnforcesOtherDays

===============================================================================
