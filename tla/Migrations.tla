----------------------------- MODULE Migrations -----------------------------
(***************************************************************************)
(* Start-up of the two services over one database: the migrate jobs that   *)
(* apply a migration set with goose, the processes that wait for a set, and*)
(* the bootstrap of the split version tables from the version table of the *)
(* monolith, which every one of them runs first (apiruntime).              *)
(*                                                                         *)
(* A process goes through its plan, a sequence of sets to run or wait for; *)
(* gooseMu is local to a process and keeps nobody else out.  A database    *)
(* statement is a step.  Goose itself is external: its version is that of  *)
(* the row inserted last, and a migration and its row are one transaction. *)
(***************************************************************************)
EXTENDS Naturals, Sequences, SequencesExt

CONSTANTS
    Sets,       \* migration sets, "shell" and "todo" in the code
    Processes,
    Plan,       \* of each process: a sequence of [mode, set]
    Latest,     \* of each set: its migrations are 1..Latest[set]
    Legacy,     \* of each set: the monolith had applied 1..Legacy[set]
    Recorded,   \* what the tables may start with: of each set, the versions its
                \* table has, or none where there is no table
    BackoffLimit,  \* of the jobs: how often a failed one runs again, 6 in the manifests
    MaxErrors   \* bound on the statements that fail and the processes killed

ASSUME PlanAssumption ==
    /\ Plan \in [Processes -> Seq([mode : {"run", "wait"}, set : Sets])]
    /\ \A p \in Processes : Plan[p] # <<>>
ASSUME SetsAssumption ==
    /\ Latest \in [Sets -> Nat \ {0}]
    /\ Legacy \in [Sets -> Nat]
    /\ Recorded \subseteq [Sets -> Seq(Nat)]
    /\ \A s \in Sets : Legacy[s] <= Latest[s]

\* Earlier deployments have left no gaps: with what the monolith had applied,
\* a table records the migrations up to some version.
ASSUME RecordedAssumption ==
    \A tables \in Recorded : \A s \in Sets : \A v \in ToSet(tables[s]) :
        1..v \subseteq 1..Legacy[s] \cup ToSet(tables[s])

ASSUME BoundsAssumption == BackoffLimit \in Nat /\ MaxErrors \in Nat

\* The processes that are Kubernetes jobs; the others are servers.
Jobs == {p \in Processes : \E i \in 1..Len(Plan[p]) : Plan[p][i].mode = "run"}

VARIABLES
    table,   \* the version table of each set: versions in the order inserted
    schema,  \* the migrations of each set whose statements the database has executed
    proc,
    restarts,  \* of each job, how often Kubernetes has run it again
    errors,  \* statements that have failed and processes killed
    found    \* the tables the deployment started with; never changes

vars == <<table, schema, proc, restarts, errors, found>>

Versions(s) == 1..Latest[s]

\* GetDBVersion; a table is created with a row for version 0.
Version(s) == Last(table[s])

Process ==
    [pc : {"ensure", "create", "current", "insert", "check", "version", "migrate",
           "poll", "failed", "done"},
     step : Nat,                 \* the position in the plan
     insert : SUBSET Nat,        \* versions still to be bootstrapped
     next : Nat]                 \* the migration goose is about to apply

TypeOK ==
    /\ table \in [Sets -> Seq(Nat)]
    /\ schema \in [Sets -> SUBSET Nat]
    /\ proc \in [Processes -> Process]
    /\ \A p \in Processes : proc[p].step \in 1..Len(Plan[p])
    /\ restarts \in [Jobs -> 0..BackoffLimit]
    /\ errors \in 0..MaxErrors
    /\ found \in Recorded

Task(p) == Plan[p][proc[p].step]

Goto(p, pc) == proc' = [proc EXCEPT ![p].pc = pc]

\* Mutant: the loop over the sets runs once too often.
AdvancePast(p) ==
    IF proc[p].step <= Len(Plan[p])
    THEN proc' = [proc EXCEPT ![p].step = @ + 1, ![p].pc = "ensure"]
    ELSE Goto(p, "done")

\* A set is done with: on to the next one, or to serving or exiting.
Advance(p) ==
    IF proc[p].step < Len(Plan[p])
    THEN proc' = [proc EXCEPT ![p].step = @ + 1, ![p].pc = "ensure"]
    ELSE Goto(p, "done")

\* prepareMigrationSetLocked has failed.  RunMigrations returns the error;
\* WaitForMigrations looks only at the migrations it was given, which are none.
AfterError(p) ==
    IF Task(p).mode = "run" THEN Goto(p, "failed") ELSE Advance(p)

\* prepareMigrationSetLocked has returned.
Prepared(p) == Goto(p, IF Task(p).mode = "run" THEN "check" ELSE "poll")

-----------------------------------------------------------------------------
(* prepareMigrationSetLocked *)

\* EnsureDBVersion; without a table of the monolith nothing is bootstrapped.
Bootstrap(p) ==
    IF \E s \in Sets : Legacy[s] > 0 THEN Goto(p, "current") ELSE Prepared(p)

Ensure(p) ==
    /\ proc[p].pc = "ensure"
    /\ IF table[Task(p).set] = <<>> THEN Goto(p, "create") ELSE Bootstrap(p)
    /\ UNCHANGED <<table, schema, restarts, errors, found>>

\* CREATE TABLE fails when another process has been faster.
Create(p) ==
    LET s == Task(p).set IN
    /\ proc[p].pc = "create"
    /\ \/ /\ table[s] = <<>>
          /\ table' = [table EXCEPT ![s] = <<0>>]
          /\ Bootstrap(p)
       \/ /\ table[s] # <<>>
          /\ AfterError(p)
          /\ UNCHANGED table
    /\ UNCHANGED <<schema, restarts, errors, found>>

\* Mutant: every migration is recorded, applied by the monolith or not.
VersionsToBootstrapAll(s) == Versions(s) \ ToSet(table[s])

VersionsToBootstrap(s) == (1..Legacy[s]) \ ToSet(table[s])

\* appliedMigrationVersions of both tables; that of the monolith is not
\* written any more.
ReadVersions(p) ==
    /\ proc[p].pc = "current"
    /\ proc' = [proc EXCEPT ![p].pc = "insert",
                            ![p].insert = VersionsToBootstrap(Task(p).set)]
    /\ UNCHANGED <<table, schema, restarts, errors, found>>

\* insertAppliedMigrationVersion, in no transaction with the others.  Goose has
\* sorted the migrations, so versions are bootstrapped in their order.
InsertVersion(p) ==
    LET s == Task(p).set
        todo == proc[p].insert IN
    /\ proc[p].pc = "insert"
    /\ \/ \E v \in todo :
             /\ \A u \in todo : v <= u
             /\ table' = [table EXCEPT ![s] = Append(@, v)]
             /\ proc' = [proc EXCEPT ![p].insert = @ \ {v}]
       \/ todo = {} /\ Prepared(p) /\ UNCHANGED table
    /\ UNCHANGED <<schema, restarts, errors, found>>

-----------------------------------------------------------------------------
(* goose.Up in RunMigrations *)

\* Goose refuses a table with a gap below its greatest version.
Missing(s) ==
    {v \in Versions(s) \ ToSet(table[s]) : \E u \in ToSet(table[s]) : v < u}

CheckMissing(p) ==
    /\ proc[p].pc = "check"
    /\ Goto(p, IF Missing(Task(p).set) = {} THEN "version" ELSE "failed")
    /\ UNCHANGED <<table, schema, restarts, errors, found>>

\* Mutant: goose goes straight to the greatest version.
ReadVersionLatest(p) ==
    LET s == Task(p).set IN
    /\ proc[p].pc = "version"
    /\ \/ Version(s) >= Latest[s] /\ Advance(p)
       \/ /\ Version(s) < Latest[s]
          /\ proc' = [proc EXCEPT ![p].pc = "migrate", ![p].next = Latest[s]]
    /\ UNCHANGED <<table, schema, restarts, errors, found>>

ReadVersion(p) ==
    LET s == Task(p).set IN
    /\ proc[p].pc = "version"
    /\ \/ Version(s) >= Latest[s] /\ Advance(p)
       \/ /\ Version(s) < Latest[s]
          /\ proc' = [proc EXCEPT ![p].pc = "migrate", ![p].next = Version(s) + 1]
    /\ UNCHANGED <<table, schema, restarts, errors, found>>

\* The transaction of one migration, whose statements tolerate being executed
\* a second time (IF NOT EXISTS and the like).
Migrate(p) ==
    LET s == Task(p).set IN
    /\ proc[p].pc = "migrate"
    /\ schema' = [schema EXCEPT ![s] = @ \cup {proc[p].next}]
    /\ table' = [table EXCEPT ![s] = Append(@, proc[p].next)]
    /\ Goto(p, "version")
    /\ UNCHANGED <<restarts, errors, found>>

-----------------------------------------------------------------------------
(* WaitForMigrations *)

\* Mutant: any version will do.
PollAny(p) ==
    /\ proc[p].pc = "poll"
    /\ Advance(p)
    /\ UNCHANGED <<table, schema, restarts, errors, found>>

\* Mutant: the version has to be greater than the latest migration's.
PollBeyond(p) ==
    LET s == Task(p).set IN
    /\ proc[p].pc = "poll"
    /\ \/ Version(s) > Latest[s] /\ Advance(p)
       \/ Version(s) <= Latest[s] /\ Goto(p, "failed")
    /\ UNCHANGED <<table, schema, restarts, errors, found>>

\* Once a second; two minutes without success and the process exits.
Poll(p) ==
    LET s == Task(p).set IN
    /\ proc[p].pc = "poll"
    /\ \/ Version(s) >= Latest[s] /\ Advance(p)
       \/ Version(s) < Latest[s] /\ Goto(p, "failed")
    /\ UNCHANGED <<table, schema, restarts, errors, found>>

-----------------------------------------------------------------------------
\* A statement before goose.Up fails, or one of goose.Up, or the process is
\* killed, which a job that is done with is not.  An error while polling is
\* retried.
Fail(p) ==
    /\ errors < MaxErrors
    /\ errors' = errors + 1
    /\ \/ proc[p].pc \in {"ensure", "create", "current", "insert"} /\ AfterError(p)
       \/ /\ proc[p].pc # "failed" /\ (p \in Jobs => proc[p].pc # "done")
          /\ Goto(p, "failed")
    /\ UNCHANGED <<table, schema, restarts, found>>

\* The Job controller has given a job up.
GivenUp(p) == p \in Jobs /\ proc[p].pc = "failed" /\ restarts[p] = BackoffLimit

\* A server that has exited runs again, a job until it is given up.
Restart(p) ==
    /\ proc[p].pc = "failed" /\ ~GivenUp(p)
    /\ proc' = [proc EXCEPT ![p].pc = "ensure", ![p].step = 1]
    /\ restarts' = [j \in Jobs |-> IF j = p THEN restarts[j] + 1 ELSE restarts[j]]
    /\ UNCHANGED <<table, schema, errors, found>>

Init ==
    /\ found \in Recorded
    /\ table = found
    /\ schema = [s \in Sets |-> 1..Legacy[s] \cup (ToSet(table[s]) \ {0})]
    /\ proc = [p \in Processes |-> [pc |-> "ensure", step |-> 1, insert |-> {}, next |-> 0]]
    /\ restarts = [p \in Jobs |-> 0]
    /\ errors = 0

Run(p) ==
    \/ Ensure(p) \/ Create(p) \/ ReadVersions(p) \/ InsertVersion(p)
    \/ CheckMissing(p) \/ ReadVersion(p) \/ Migrate(p) \/ Poll(p) \/ Restart(p)

Next == \E p \in Processes : Run(p) \/ Fail(p)

\* Processes run, and Kubernetes restarts those that have exited, jobs as long as
\* their backoffLimit allows.
Spec == Init /\ [][Next]_vars /\ \A p \in Processes : WF_vars(Run(p))

-----------------------------------------------------------------------------
(* Properties *)

\* What a version table says has been applied has been applied, by the
\* monolith or by goose, however many processes bootstrap it at once.
RecordsTrue ==
    \A s \in Sets : ToSet(table[s]) \ {0} \subseteq schema[s]

\* Migrations are executed in the order of their versions: no migration has
\* been without those before it.
InOrder ==
    \A s \in Sets : \A v \in schema[s] : 1..v \subseteq schema[s]

Waited(p) ==
    {i \in 1..Len(Plan[p]) : /\ Plan[p][i].mode = "wait"
                             /\ i < proc[p].step \/ proc[p].pc = "done"}

\* services/api/README.md: "the app waits for the latest migration before
\* serving traffic".  Nobody gets past a set it waits for, to serve or to apply
\* the set that builds on it, before the whole set has been applied.
WaitsForLatest ==
    \A p \in Processes : \A i \in Waited(p) :
        LET s == Plan[p][i].set IN Versions(s) \subseteq schema[s]

\* A rollout over version tables that know what the monolith did.
Established ==
    \A s \in Sets : found[s] # <<>> /\ 1..Legacy[s] \subseteq ToSet(found[s])

\* The README's promise does hold of such a rollout, where prepareMigrationSetLocked
\* has nothing to create that somebody else may have created meanwhile, as long
\* as no statement fails.
RolloutWaits == Established /\ errors = 0 => WaitsForLatest

\* A job is given up only if it waits for another one's set, which may take longer
\* than its restarts last, or if more has failed than they make up for.
GivenUpForCause(p) ==
    /\ GivenUp(p)
    /\ (\E i \in 1..Len(Plan[p]) : Plan[p][i].mode = "wait") \/ errors > BackoffLimit

Applied(p) == \A i \in 1..Len(Plan[p]) : Versions(Plan[p][i].set) \subseteq schema[Plan[p][i].set]

Done(p) == proc[p].pc = "done"

\* Of such a rollout every job finishes unless it is given up, for cause, and every
\* server comes to serve once the sets it waits for are applied, however often it
\* has timed out and whatever has failed.
RolloutStarts ==
    Established => /\ \A p \in Jobs : <>(Done(p) \/ GivenUpForCause(p))
                   /\ \A p \in Processes \ Jobs : <>Applied(p) => <>Done(p)

=============================================================================
