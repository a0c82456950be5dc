---------------------------- MODULE ScheduleEditor ----------------------------
(***************************************************************************)
(* The schedule page of the dashboard (web/dist/js/policy-schedule.js) on  *)
(* top of Policy: it turns the blocks of the stored policy into a grid of  *)
(* hours, lets the parent paint, and turns the grid into blocks again,     *)
(* which the resolver then evaluates.                                      *)
(*                                                                         *)
(* The grid's days start on Monday, the blocks' weekdays on Sunday.        *)
(***************************************************************************)
EXTENDS Policy

CONSTANTS
    Paint,          \* the kinds the parent paints with: all of Kind in the code
    MaxStrokes,     \* bound: the days repainted between two loads
    Meanwhile       \* bound: the policies PUT while the page is open

ASSUME EditorAssumption ==
    Paint \subseteq Kind /\ MaxStrokes \in Nat /\ Meanwhile \subseteq PutPolicies

VARIABLE page       \* None, or what the page loaded and shows

vars == <<assigned, policy, override, writes, page>>

Grid == [Day -> [Hour -> Kind]]

GoFromUi(ui) == (ui + 1) % Days
UiFromGo(go) == (go + Days - 1) % Days

-------------------------------------------------------------------------------
(***************************************************************************)
(* Blocks to grid.                                                         *)
(***************************************************************************)

FirstHour(b) == b.start \div HourMins
EndHour(b)   == (b.end + HourMins - 1) \div HourMins

\* A block without length is painted as one that wraps.
Paints(b, ui, h) ==
    /\ b.start # Bad /\ b.end # Bad
    /\ \E go \in b.weekdays :
         IF b.start < b.end
           THEN ui = UiFromGo(go) /\ FirstHour(b) <= h /\ h < EndHour(b)
           ELSE \/ ui = UiFromGo(go) /\ FirstHour(b) <= h
                \/ ui = (UiFromGo(go) + 1) % Days /\ h < EndHour(b)

\* The last block to paint an hour wins.  The schedules here are one block, or
\* those of a grid, which do not overlap, and need no order.
BlocksToGrid(blocks) ==
    [ui \in Day |-> [h \in Hour |->
        IF \E b \in blocks : Paints(b, ui, h)
          THEN (CHOOSE b \in blocks : Paints(b, ui, h)).kind
          ELSE "free"]]

-------------------------------------------------------------------------------
(***************************************************************************)
(* Grid to blocks.                                                         *)
(***************************************************************************)

\* The hours i to j-1 of a day are one run of a kind.
Run(row, i, j) ==
    /\ i < j /\ row[i] # "free"
    /\ \A h \in i .. j - 1 : row[h] = row[i]
    /\ i > 0 => row[i - 1] # row[i]
    /\ j < Hours => row[j] # row[i]

\* Bugs the run must catch: a run that reaches midnight ends at "24:00", which
\* is no time of day, or in the last hour.
RunBlockTo24(row, ui, i, j) ==
    [kind |-> row[i], weekdays |-> {GoFromUi(ui)}, start |-> i * HourMins,
     end |-> j * HourMins]

RunBlockCutShort(row, ui, i, j) ==
    [kind |-> row[i], weekdays |-> {GoFromUi(ui)}, start |-> i * HourMins,
     end |-> IF j = Hours THEN (Hours - 1) * HourMins ELSE j * HourMins]

\* A run to the end of the day ends at "00:00".
RunBlock(row, ui, i, j) ==
    [kind |-> row[i], weekdays |-> {GoFromUi(ui)}, start |-> i * HourMins,
     end |-> IF j = Hours THEN 0 ELSE j * HourMins]

\* Equal runs of consecutive days, which are saved as one block with several
\* weekdays, are kept apart here: neither side can tell.
GridToBlocks(grid) ==
    UNION {{RunBlock(grid[ui], ui, i, j) : j \in {k \in 1 .. Hours : Run(grid[ui], i, k)}} :
               ui \in Day, i \in Hour}

-------------------------------------------------------------------------------
(***************************************************************************)
(* The page.                                                               *)
(***************************************************************************)

Init == InitPolicy /\ page = None

\* The page is loaded, or reloaded to discard what was painted.
Open ==
    /\ page' = [loaded |-> policy, strokes |-> 0,
                grid |-> BlocksToGrid(IF policy = None \/ policy.schedule = None THEN {}
                                      ELSE policy.schedule)]
    /\ UNCHANGED <<assigned, policy, override, writes>>

\* Some hours of one day are painted.  What can no longer be saved is not.
PaintDay(ui) ==
    /\ page # None /\ page.strokes < MaxStrokes /\ writes < MaxWrites
    /\ \E row \in [Hour -> Paint] :
         page' = [page EXCEPT !.grid[ui] = row, !.strokes = @ + 1]
    /\ UNCHANGED <<assigned, policy, override, writes>>

\* The other rules are saved as they were loaded.
Save ==
    /\ page # None
    /\ LET kept(rule) == IF page.loaded = None THEN None ELSE page.loaded[rule]
       IN  PutPersonPolicy([schedule |-> GridToBlocks(page.grid), budget |-> kept("budget"),
                            content |-> kept("content")])
    /\ UNCHANGED page

\* Another tab, another parent.
OthersWrite ==
    /\ IF page = None THEN NextPolicy ELSE \E p \in Meanwhile : PutPersonPolicy(p)
    /\ UNCHANGED page

Next == OthersWrite \/ Open \/ (\E ui \in Day : PaintDay(ui)) \/ Save

Spec == Init /\ [][Next]_vars

-------------------------------------------------------------------------------
(***************************************************************************)
(* Properties.                                                             *)
(***************************************************************************)

TypeOK ==
    /\ TypeOKPolicy
    /\ page \in {None} \union [loaded : {None} \union Rules, grid : Grid,
                          strokes : 0 .. MaxStrokes]

\* Loading what was saved shows what was painted, whole days included.
GridRoundTrips ==
    page # None => BlocksToGrid(GridToBlocks(page.grid)) = page.grid

\* The hours that show a lock, at Go's weekday.
Shown(wd, cur) == Locks(page.grid[UiFromGo(wd)][cur \div HourMins])
WholeDay(wd)   == \A h, k \in Hour : page.grid[UiFromGo(wd)][h] = page.grid[UiFromGo(wd)][k]

\* What is saved is enforced at exactly the minutes that show a lock, on every
\* day that is not all of one kind.
EnforcesOtherDays ==
    [][Save => \A wd \in Day, cur \in Minute :
          ~ WholeDay(wd) => (EvalSchedule(policy.schedule, wd, cur)' <=> Shown(wd, cur))]_vars

\* policy-schedule.js, on runs that are saved as day-local blocks: "the
\* resolver evaluates either form identically".  What is saved is enforced at
\* exactly the minutes that show a lock.
EnforcesTheGrid ==
    [][Save => \A wd \in Day, cur \in Minute :
          EvalSchedule(policy.schedule, wd, cur)' <=> Shown(wd, cur)]_vars

===============================================================================
