-------------------------------- MODULE Migrate --------------------------------
(***************************************************************************)
(* store.Migrate (internal/store/migrate.go): every process that starts    *)
(* applies the files of migrations/ that are not recorded yet, in          *)
(* lexical order, each in a transaction together with its record.          *)
(*                                                                         *)
(* Files are numbered in that order; a later version of the program has    *)
(* more of them.  SQLite lets one transaction write at a time, and DSN and *)
(* code ask for no waiting: who finds the database locked fails.           *)
(***************************************************************************)
EXTENDS Integers

CONSTANTS
    Process,        \* that open the database, one after another or at once
    Last,           \* number of migrations of the latest version
    Has,            \* [Process -> how many of them its version has]
    Nobody

ASSUME MigrateAssumption ==
    /\ Last \in Nat
    /\ Has \in [Process -> 0 .. Last]
    /\ Nobody \notin Process

File == 1 .. Last

VARIABLES
    recorded,   \* the table _migrations
    applied,    \* [File -> how often its body was committed]
    lock,       \* the process that has the write lock, or Nobody
    mig         \* [Process -> where its call of Migrate is]

migVars == <<recorded, applied, lock, mig>>

\* todo: the files it has not applied or skipped; file: the one it is at.
Away == [pc |-> "away", todo |-> {}, file |-> 0]

MigPC == {"away", "load", "next", "record", "commit", "done", "failed"}

MigInit ==
    /\ recorded = {}
    /\ applied = [f \in File |-> 0]
    /\ lock = Nobody
    /\ mig = [p \in Process |-> Away]

MigAt(p, pc) == mig[p].pc = pc

InTransaction(p) == MigAt(p, "record") \/ MigAt(p, "commit")

-------------------------------------------------------------------------------

MigBegin(p) == mig' = [mig EXCEPT ![p] = [Away EXCEPT !.pc = "load"]]

\* A bug the run must catch: what is recorded is not skipped.
Unread == {}

\* The names that loadApplied finds.
Read == recorded

LoadApplied(p) ==
    /\ MigAt(p, "load")
    /\ mig' = [mig EXCEPT ![p].pc = "next", ![p].todo = (1 .. Has[p]) \ Read]
    /\ UNCHANGED <<recorded, applied, lock>>

\* The body of the next file, which writes first of all.
ApplyBody(p) ==
    /\ MigAt(p, "next")
    /\ lock = Nobody
    /\ \E f \in mig[p].todo :
         /\ \A g \in mig[p].todo : f <= g
         /\ mig' = [mig EXCEPT ![p].pc = "record", ![p].file = f]
    /\ lock' = p
    /\ UNCHANGED <<recorded, applied>>

\* A bug the run must catch: the record is INSERT OR IGNORE.
NeverConflicts(f) == FALSE

\* The name is the table's primary key.
Conflicts(f) == f \in recorded

RecordName(p) ==
    /\ MigAt(p, "record")
    /\ ~Conflicts(mig[p].file)
    /\ mig' = [mig EXCEPT ![p].pc = "commit"]
    /\ UNCHANGED <<recorded, applied, lock>>

CommitFile(p) ==
    /\ MigAt(p, "commit")
    /\ LET f == mig[p].file
       IN  /\ recorded' = recorded \union {f}
           /\ applied' = [applied EXCEPT ![f] = @ + 1]
           /\ mig' = [mig EXCEPT ![p].pc = "next", ![p].todo = @ \ {f}]
    /\ lock' = Nobody

\* Rollback, by the code or by the database when the process is gone.
Unlocked(p) == IF lock = p THEN Nobody ELSE lock

\* The database is locked, or another process was faster.
Collide(p) ==
    /\ \/ MigAt(p, "next") /\ mig[p].todo # {} /\ lock # Nobody
       \/ MigAt(p, "record") /\ Conflicts(mig[p].file)
    /\ mig' = [mig EXCEPT ![p].pc = "failed"]
    /\ lock' = Unlocked(p)
    /\ UNCHANGED <<recorded, applied>>

\* Any statement may fail.
MigrateFails(p) ==
    /\ \E pc \in {"load", "next", "record", "commit"} : MigAt(p, pc)
    /\ mig' = [mig EXCEPT ![p].pc = "failed"]
    /\ lock' = Unlocked(p)
    /\ UNCHANGED <<recorded, applied>>

MigrateDone(p) ==
    /\ MigAt(p, "next") /\ mig[p].todo = {}
    /\ mig' = [mig EXCEPT ![p].pc = "done"]
    /\ UNCHANGED <<recorded, applied, lock>>

MigrateStep(p) ==
    LoadApplied(p) \/ ApplyBody(p) \/ RecordName(p) \/ CommitFile(p) \/ Collide(p) \/ MigrateDone(p)

\* The process ends: what it had not committed is undone.
MigGone(p) ==
    /\ mig' = [mig EXCEPT ![p] = Away]
    /\ lock' = Unlocked(p)
    /\ UNCHANGED <<recorded, applied>>

-------------------------------------------------------------------------------
(***************************************************************************)
(* Properties.                                                             *)
(***************************************************************************)

MigTypeOK ==
    /\ recorded \subseteq File
    /\ applied \in [File -> Nat]
    /\ lock \in Process \union {Nobody}
    /\ mig \in [Process -> [pc : MigPC, todo : SUBSET File, file : 0 .. Last]]

\* Every migration is applied once at most, exactly those recorded are, and no
\* migration without those before it, although processes that start together
\* decide from what they read at first, fail half-way and are killed.
SchemaIsPrefix ==
    /\ \A f \in File : applied[f] = IF f \in recorded THEN 1 ELSE 0
    /\ \A f \in recorded : \A g \in 1 .. f : g \in recorded

\* Who returned without an error has all of its migrations in the database.
DoneIsComplete == \A p \in Process : MigAt(p, "done") => 1 .. Has[p] \subseteq recorded

===============================================================================
