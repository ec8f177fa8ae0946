-------------------------- MODULE MigrationsProofs --------------------------
(***************************************************************************)
(* Proofs about Migrations, for any sets, processes, plans and number of   *)
(* failures.                                                               *)
(*                                                                         *)
(* The argument: a table only ever gains versions the database has the     *)
(* migrations of, so whatever goose or a waiting server reads there, the   *)
(* migrations up to it have been executed, and they stay executed whatever *)
(* other processes do before the reader acts on it.                        *)
(***************************************************************************)
EXTENDS Migrations, TLAPS

SetOf(p, q) == Plan[p][q.step].set

\* Where prepareMigrationSetLocked has made sure of the version table.
Ready == {"current", "insert", "check", "version", "migrate", "poll"}

\* Process p, in the state q over tables t and schema m, acts on what is still
\* so: it bootstraps only what the monolith has applied, and goose applies a
\* migration after all those before it.
Fit(p, q, t, m) ==
    /\ q.step \in 1..Len(Plan[p])
    /\ q.pc \in Ready => t[SetOf(p, q)] # <<>>
    /\ q.pc = "insert" => q.insert \subseteq 1..Legacy[SetOf(p, q)]
    /\ q.pc = "migrate" => q.next # 0 /\ 1..(q.next - 1) \subseteq m[SetOf(p, q)]

\* The sets process p has waited for have been applied, and it does not race
\* to create a table.
Patient(p, q, m) ==
    /\ q.pc # "create"
    /\ \A i \in 1..Len(Plan[p]) :
          Plan[p][i].mode = "wait" /\ (i < q.step \/ q.pc = "done")
              => Versions(Plan[p][i].set) \subseteq m[Plan[p][i].set]

Calm == Established /\ errors = 0

\* Tables are not dropped, and the monolith's migrations stay.
Kept(t, m) ==
    \A s \in Sets : /\ 1..Legacy[s] \subseteq m[s]
                    /\ found[s] # <<>> => t[s] # <<>>

\* The inductive invariant.
Inv ==
    /\ TypeOK
    /\ RecordsTrue
    /\ InOrder
    /\ Kept(table, schema)
    /\ \A p \in Processes : Fit(p, proc[p], table, schema)
    /\ Calm => \A p \in Processes : Patient(p, proc[p], schema)

-----------------------------------------------------------------------------
(* What a table tells *)

LEMMA LastRecorded ==
    ASSUME NEW t \in Seq(Nat), t # <<>>
    PROVE  Last(t) \in Nat /\ Last(t) \in ToSet(t)
<1>1. Len(t) \in 1..Len(t) /\ DOMAIN t = 1..Len(t)
  OBVIOUS
<1>2. QED BY <1>1 DEF Last, ToSet

LEMMA AppendRecord ==
    ASSUME NEW t \in Seq(Nat), NEW v \in Nat
    PROVE  /\ Append(t, v) \in Seq(Nat) /\ Append(t, v) # <<>>
           /\ ToSet(Append(t, v)) = ToSet(t) \cup {v}
<1> DEFINE n == Len(t)
           a == Append(t, v)
<1>1. /\ a \in Seq(Nat) /\ a # <<>> /\ n \in Nat
      /\ DOMAIN t = 1..n /\ DOMAIN a = 1..(n + 1)
      /\ a[n + 1] = v /\ \A i \in 1..n : a[i] = t[i]
  OBVIOUS
<1> HIDE DEF n, a
<1>2. 1..(n + 1) = (1..n) \cup {n + 1}
  BY <1>1
<1>3. ToSet(a) = ToSet(t) \cup {v}
  BY <1>1, <1>2 DEF ToSet
<1>4. QED BY <1>1, <1>3 DEF a

LEMMA PlanTask ==
    ASSUME NEW p \in Processes, NEW i \in 1..Len(Plan[p])
    PROVE  Plan[p][i] \in [mode : {"run", "wait"}, set : Sets] /\ Plan[p][i].set \in Sets
<1> DEFINE T == [mode : {"run", "wait"}, set : Sets]
<1>1. Plan[p] \in Seq(T)
  BY PlanAssumption
<1>2. Plan[p][i] \in T
  <2> HIDE DEF T
  <2>1. QED BY <1>1
<1>3. QED BY <1>2

LEMMA TaskType ==
    ASSUME Inv, NEW p \in Processes
    PROVE  /\ proc[p] \in Process /\ proc[p].step \in 1..Len(Plan[p])
           /\ Task(p) \in [mode : {"run", "wait"}, set : Sets]
           /\ Task(p).set \in Sets /\ Task(p).set = SetOf(p, proc[p])
BY PlanTask DEF Inv, TypeOK, Task, SetOf

\* The version of a table is that of a migration executed after all before it.
LEMMA VersionReached ==
    ASSUME Inv, NEW s \in Sets, table[s] # <<>>
    PROVE  /\ Version(s) \in Nat /\ 1..Version(s) \subseteq schema[s]
           /\ Version(s) >= Latest[s] => Versions(s) \subseteq schema[s]
<1>1. Version(s) \in Nat /\ Version(s) \in ToSet(table[s])
  BY LastRecorded DEF Inv, TypeOK, Version
<1>2. 1..Version(s) \subseteq schema[s]
  <2>1. CASE Version(s) = 0
    BY <2>1
  <2>2. CASE Version(s) # 0
    BY <1>1, <2>2 DEF Inv, RecordsTrue, InOrder
  <2>3. QED BY <2>1, <2>2
<1>3. ASSUME Version(s) >= Latest[s]
      PROVE  Versions(s) \subseteq 1..Version(s)
  BY <1>1, <1>3, SetsAssumption DEF Versions
<1>4. QED BY <1>1, <1>2, <1>3

-----------------------------------------------------------------------------
(* Steps *)

\* One process moves on to the state q, and tables and schema only grow.
LEMMA StepKeeps ==
    ASSUME Inv, NEW p \in Processes, NEW q \in Process,
           proc' = [proc EXCEPT ![p] = q], found' = found,
           table' \in [Sets -> Seq(Nat)], schema' \in [Sets -> SUBSET Nat],
           restarts' \in [Jobs -> 0..BackoffLimit],
           errors' \in 0..MaxErrors, errors' = 0 => errors = 0,
           \A s \in Sets : /\ schema[s] \subseteq schema'[s]
                           /\ table[s] # <<>> => table'[s] # <<>>,
           RecordsTrue', InOrder',
           Fit(p, q, table', schema'),
           Calm' => Patient(p, q, schema')
    PROVE  Inv'
<1>1. proc'[p] = q /\ \A r \in Processes \ {p} : proc'[r] = proc[r]
  BY DEF Inv, TypeOK
<1>2. TypeOK'
  <2>1. \A r \in Processes : proc'[r].step \in 1..Len(Plan[r])
    BY <1>1 DEF Inv, TypeOK, Fit
  <2>2. (restarts \in [Jobs -> 0..BackoffLimit])'
    BY DEF Jobs
  <2>3. QED BY <2>1, <2>2 DEF Inv, TypeOK
<1>3. \A r \in Processes : SetOf(r, proc[r]) \in Sets
  BY TaskType
<1>4. ASSUME NEW r \in Processes
      PROVE  Fit(r, proc'[r], table', schema')
  BY <1>1, <1>3 DEF Inv, Fit
<1>5. Calm' => Calm
  BY DEF Calm, Established
<1>6. \A r \in Processes : \A i \in 1..Len(Plan[r]) : Plan[r][i].set \in Sets
  BY PlanTask
<1>7. ASSUME Calm', NEW r \in Processes
      PROVE  Patient(r, proc'[r], schema')
  <2>1. CASE r = p
    BY <1>1, <1>7, <2>1
  <2>2. CASE r # p
    <3>1. proc'[r] = proc[r] /\ Patient(r, proc[r], schema)
      BY <1>1, <1>5, <1>7, <2>2 DEF Inv
    <3>2. QED BY <1>6, <3>1 DEF Patient
  <2>3. QED BY <2>1, <2>2
<1>8. Kept(table', schema')
  BY DEF Inv, Kept
<1>9. Kept(table, schema)'
  BY <1>8 DEF Kept
<1>10. \A r \in Processes : Fit(r, proc[r], table, schema)'
  BY <1>4 DEF Fit, SetOf, Versions
<1>11. Calm' => \A r \in Processes : Patient(r, proc[r], schema)'
  BY <1>7 DEF Patient, Versions
<1>12. QED BY <1>2, <1>9, <1>10, <1>11 DEF Inv

\* Every move of a process to another point of its task.
LEMMA GotoKeeps ==
    ASSUME Inv, NEW p \in Processes, NEW pc,
           pc \in {"ensure", "create", "current", "insert", "check", "version",
                   "migrate", "poll", "failed", "done"},
           Goto(p, pc), UNCHANGED <<table, schema, restarts, found>>,
           errors' \in 0..MaxErrors, errors' = 0 => errors = 0,
           pc \in Ready => table[Task(p).set] # <<>>,
           pc \notin {"insert", "migrate", "done"},
           Calm' => pc # "create"
    PROVE  Inv'
<1> DEFINE q == [proc[p] EXCEPT !.pc = pc]
<1>1. proc' = [proc EXCEPT ![p] = q]
  BY DEF Goto, Inv, TypeOK
<1>2. proc[p] \in Process /\ SetOf(p, proc[p]) = Task(p).set
  BY TaskType
<1>3. q \in Process /\ q.pc = pc /\ q.step = proc[p].step
  BY <1>2 DEF Process
<1> HIDE DEF q
<1>4. Fit(p, q, table', schema')
  BY <1>2, <1>3 DEF Inv, Fit, SetOf
<1>5. Calm' => Patient(p, q, schema')
  BY <1>3 DEF Inv, Patient, Calm, Established
<1>6. RecordsTrue' /\ InOrder'
  BY DEF Inv, RecordsTrue, InOrder
<1>7. QED BY <1>1, <1>3, <1>4, <1>5, <1>6, StepKeeps DEF Inv, TypeOK

\* A process that has nothing to wait for, or has waited, is done with a set.
LEMMA AdvanceKeeps ==
    ASSUME Inv, NEW p \in Processes, Advance(p), UNCHANGED <<table, schema, restarts, found>>,
           errors' \in 0..MaxErrors, errors' = 0 => errors = 0,
           Calm' /\ Task(p).mode = "wait" => Versions(Task(p).set) \subseteq schema[Task(p).set]
    PROVE  Inv'
<1>1. /\ proc[p] \in Process /\ proc[p].step \in 1..Len(Plan[p])
      /\ Len(Plan[p]) \in Nat
  BY TaskType, PlanAssumption
<1>2. PICK q \in Process :
         /\ proc' = [proc EXCEPT ![p] = q]
         /\ \/ proc[p].step < Len(Plan[p]) /\ q.step = proc[p].step + 1 /\ q.pc = "ensure"
            \/ proc[p].step = Len(Plan[p]) /\ q.step = proc[p].step /\ q.pc = "done"
  <2>1. CASE proc[p].step < Len(Plan[p])
    <3> DEFINE q == [proc[p] EXCEPT !.step = @ + 1, !.pc = "ensure"]
    <3>1. proc' = [proc EXCEPT ![p] = q]
      BY <2>1 DEF Advance, Inv, TypeOK
    <3>2. q \in Process /\ q.step = proc[p].step + 1 /\ q.pc = "ensure"
      <4> DEFINE n == proc[p].step + 1
                 q1 == [proc[p] EXCEPT !.step = n]
      <4>1. n \in Nat
        BY <1>1
      <4> HIDE DEF n
      <4>2. q1 \in Process /\ q1.step = n
        BY <1>1, <4>1 DEF Process
      <4> HIDE DEF q1
      <4>3. [q1 EXCEPT !.pc = "ensure"] \in Process
        BY <4>2 DEF Process
      <4>4. q = [q1 EXCEPT !.pc = "ensure"]
        BY DEF q1, n
      <4>5. [q1 EXCEPT !.pc = "ensure"].step = q1.step /\ [q1 EXCEPT !.pc = "ensure"].pc = "ensure"
        BY <4>2 DEF Process
      <4>6. QED BY <4>2, <4>3, <4>4, <4>5 DEF n
    <3>3. QED BY <2>1, <3>1, <3>2
  <2>2. CASE ~(proc[p].step < Len(Plan[p]))
    <3> DEFINE q == [proc[p] EXCEPT !.pc = "done"]
    <3>1. q \in Process /\ q.step = proc[p].step /\ q.pc = "done"
      BY <1>1 DEF Process
    <3>2. proc' = [proc EXCEPT ![p] = q]
      BY <2>2 DEF Advance, Goto, Inv, TypeOK
    <3>3. proc[p].step = Len(Plan[p])
      BY <1>1, <2>2
    <3>4. QED BY <3>1, <3>2, <3>3
  <2>3. QED BY <2>1, <2>2
<1>3. Fit(p, q, table', schema')
  BY <1>1, <1>2 DEF Fit, Ready
<1>4. ASSUME Calm'
      PROVE  Patient(p, q, schema')
  <2>1. Patient(p, proc[p], schema)
    BY <1>4 DEF Inv, Calm, Established
  <2>2. ASSUME NEW i \in 1..Len(Plan[p]), i < q.step \/ q.pc = "done"
        PROVE  i < proc[p].step \/ i = proc[p].step
    BY <1>1, <1>2, <2>2
  <2>3. ASSUME NEW i \in 1..Len(Plan[p]), Plan[p][i].mode = "wait", i = proc[p].step
        PROVE  Versions(Plan[p][i].set) \subseteq schema[Plan[p][i].set]
    BY <1>4, <2>3 DEF Task
  <2>4. QED BY <1>2, <2>1, <2>2, <2>3 DEF Patient
<1>5. RecordsTrue' /\ InOrder'
  BY DEF Inv, RecordsTrue, InOrder
<1>6. QED BY <1>2, <1>3, <1>4, <1>5, StepKeeps DEF Inv, TypeOK

\* What a statement that fails before goose.Up leads to; calm is over then.
LEMMA AfterErrorKeeps ==
    ASSUME Inv, NEW p \in Processes, AfterError(p), UNCHANGED <<table, schema, restarts, found>>,
           errors' \in 0..MaxErrors, errors' = 0 => errors = 0, ~Calm'
    PROVE  Inv'
<1>1. CASE Task(p).mode = "run"
  BY <1>1, GotoKeeps DEF AfterError, Ready
<1>2. CASE Task(p).mode # "run"
  BY <1>2, AdvanceKeeps DEF AfterError
<1>3. QED BY <1>1, <1>2

LEMMA PreparedKeeps ==
    ASSUME Inv, NEW p \in Processes, Prepared(p), UNCHANGED <<table, schema, restarts, errors, found>>,
           table[Task(p).set] # <<>>
    PROVE  Inv'
<1>1. errors' \in 0..MaxErrors /\ (errors' = 0 => errors = 0)
  BY DEF Inv, TypeOK
<1>2. CASE Task(p).mode = "run"
  BY <1>1, <1>2, GotoKeeps DEF Prepared
<1>3. CASE Task(p).mode # "run"
  BY <1>1, <1>3, GotoKeeps DEF Prepared
<1>4. QED BY <1>2, <1>3

\* Bootstrapping leads to one of three points.
LEMMA BootstrapGoes ==
    ASSUME NEW p \in Processes, Bootstrap(p) \/ Prepared(p)
    PROVE  \E pc \in {"current", "check", "poll"} : Goto(p, pc)
BY DEF Bootstrap, Prepared

\* A version is added to the table of the set a process is at.
LEMMA RecordKeeps ==
    ASSUME Inv, NEW s \in Sets, NEW v \in Nat, v = 0 \/ v \in schema'[s],
           table' = [table EXCEPT ![s] = Append(@, v)],
           \A u \in Sets : schema[u] \subseteq schema'[u]
    PROVE  /\ table' \in [Sets -> Seq(Nat)] /\ RecordsTrue'
           /\ \A u \in Sets : table'[u] # <<>> \/ table'[u] = table[u]
           /\ table'[s] # <<>>
<1>1. table[s] \in Seq(Nat) /\ table'[s] = Append(table[s], v)
  BY DEF Inv, TypeOK
<1>2. /\ table'[s] \in Seq(Nat) /\ table'[s] # <<>>
      /\ ToSet(table'[s]) = ToSet(table[s]) \cup {v}
  BY <1>1, AppendRecord
<1>3. \A u \in Sets \ {s} : table'[u] = table[u]
  BY DEF Inv, TypeOK
<1>4. table' \in [Sets -> Seq(Nat)]
  BY <1>2 DEF Inv, TypeOK
<1>5. RecordsTrue'
  BY <1>2, <1>3 DEF Inv, RecordsTrue
<1>6. QED BY <1>2, <1>3, <1>4, <1>5

LEMMA EnsureKeeps ==
    ASSUME Inv, NEW p \in Processes, Ensure(p)
    PROVE  Inv'
<1>1. errors' \in 0..MaxErrors /\ errors' = errors /\ UNCHANGED <<table, schema, restarts, found>>
  BY DEF Ensure, Inv, TypeOK
<1>2. CASE table[Task(p).set] = <<>>
  <2>1. Goto(p, "create")
    BY <1>2 DEF Ensure
  <2>2. ~Calm'
    BY <1>1, <1>2, TaskType DEF Inv, Kept, Calm, Established
  <2>3. QED BY <1>1, <2>1, <2>2, GotoKeeps DEF Ready
<1>3. CASE table[Task(p).set] # <<>>
  <2>1. PICK pc \in {"current", "check", "poll"} : Goto(p, pc)
    BY <1>3, BootstrapGoes DEF Ensure
  <2>2. QED BY <1>1, <1>3, <2>1, GotoKeeps
<1>4. QED BY <1>2, <1>3

LEMMA CreateKeeps ==
    ASSUME Inv, NEW p \in Processes, Create(p)
    PROVE  Inv'
<1> DEFINE s == Task(p).set
<1>1. errors' \in 0..MaxErrors /\ errors' = errors /\ UNCHANGED <<schema, restarts, found>>
  BY DEF Create, Inv, TypeOK
<1>2. ~Calm'
  BY DEF Inv, Patient, Calm, Established, Create
<1>3. s \in Sets /\ proc[p] \in Process /\ s = SetOf(p, proc[p])
  BY TaskType
<1>4. CASE /\ table[s] = <<>>
           /\ table' = [table EXCEPT ![s] = <<0>>]
           /\ Bootstrap(p)
  <2>1. PICK pc \in {"current", "check", "poll"} : Goto(p, pc)
    BY <1>4, BootstrapGoes
  <2> DEFINE q == [proc[p] EXCEPT !.pc = pc]
  <2>2. proc' = [proc EXCEPT ![p] = q]
    BY <2>1 DEF Goto, Inv, TypeOK
  <2>3. q \in Process /\ q.pc = pc /\ q.step = proc[p].step
    BY <1>3 DEF Process
  <2> HIDE DEF q, s
  <2>4. table' = [table EXCEPT ![s] = Append(@, 0)]
    BY <1>4 DEF Inv, TypeOK
  <2>5. /\ table' \in [Sets -> Seq(Nat)] /\ RecordsTrue' /\ table'[s] # <<>>
        /\ \A u \in Sets : table'[u] # <<>> \/ table'[u] = table[u]
    BY <1>1, <1>3, <2>4, RecordKeeps
  <2>6. Fit(p, q, table', schema')
    BY <1>3, <2>1, <2>3, <2>5 DEF Inv, Fit, SetOf
  <2>7. InOrder'
    BY <1>1 DEF Inv, InOrder
  <2>8. QED BY <1>1, <1>2, <2>2, <2>3, <2>5, <2>6, <2>7, StepKeeps DEF Inv, TypeOK
<1>5. CASE AfterError(p) /\ UNCHANGED table
  BY <1>1, <1>2, <1>5, AfterErrorKeeps
<1>6. QED BY <1>4, <1>5 DEF Create

LEMMA ReadVersionsKeeps ==
    ASSUME Inv, NEW p \in Processes, ReadVersions(p)
    PROVE  Inv'
<1> DEFINE s == Task(p).set
           todo == VersionsToBootstrap(s)
           q == [proc[p] EXCEPT !.pc = "insert", !.insert = todo]
<1>1. s \in Sets /\ proc[p] \in Process /\ s = SetOf(p, proc[p]) /\ proc[p].pc = "current"
  BY TaskType DEF ReadVersions
<1>2. proc' = [proc EXCEPT ![p] = q]
  BY DEF ReadVersions, Inv, TypeOK
<1>3. todo \subseteq 1..Legacy[s] /\ todo \in SUBSET Nat
  BY <1>1, SetsAssumption DEF VersionsToBootstrap
<1> HIDE DEF todo
<1>4. q \in Process /\ q.pc = "insert" /\ q.step = proc[p].step /\ q.insert = todo
  BY <1>1, <1>3 DEF Process
<1> HIDE DEF q, s
<1>5. Fit(p, q, table', schema')
  BY <1>1, <1>3, <1>4 DEF Inv, Fit, SetOf, Ready, ReadVersions
<1>6. Calm' => Patient(p, q, schema')
  BY <1>4, <1>1 DEF Inv, Patient, Calm, Established, ReadVersions
<1>7. RecordsTrue' /\ InOrder'
  BY DEF Inv, RecordsTrue, InOrder, ReadVersions
<1>8. QED BY <1>2, <1>4, <1>5, <1>6, <1>7, StepKeeps DEF Inv, TypeOK, ReadVersions

LEMMA InsertVersionKeeps ==
    ASSUME Inv, NEW p \in Processes, InsertVersion(p)
    PROVE  Inv'
<1> DEFINE s == Task(p).set
<1>1. s \in Sets /\ proc[p] \in Process /\ s = SetOf(p, proc[p]) /\ proc[p].pc = "insert"
  BY TaskType DEF InsertVersion
<1>2. table[s] # <<>> /\ proc[p].insert \subseteq 1..Legacy[s]
  BY <1>1 DEF Inv, Fit, Ready
<1>3. UNCHANGED <<schema, restarts, errors, found>>
  BY DEF InsertVersion
<1>4. CASE Prepared(p) /\ UNCHANGED table
  BY <1>2, <1>3, <1>4, PreparedKeeps
<1>5. ASSUME NEW v \in proc[p].insert,
             table' = [table EXCEPT ![s] = Append(@, v)],
             proc' = [proc EXCEPT ![p].insert = @ \ {v}]
      PROVE  Inv'
  <2> DEFINE q == [proc[p] EXCEPT !.insert = @ \ {v}]
  <2>1. proc' = [proc EXCEPT ![p] = q]
    BY <1>5 DEF Inv, TypeOK
  <2>2. /\ q \in Process /\ q.pc = "insert" /\ q.step = proc[p].step
        /\ q.insert \subseteq proc[p].insert
    BY <1>1 DEF Process
  <2> HIDE DEF q, s
  <2>3. v \in Nat /\ v \in schema'[s] /\ \A u \in Sets : schema[u] \subseteq schema'[u]
    BY <1>1, <1>2, <1>3, SetsAssumption DEF Inv, Kept
  <2>4. /\ table' \in [Sets -> Seq(Nat)] /\ RecordsTrue' /\ table'[s] # <<>>
        /\ \A u \in Sets : table'[u] # <<>> \/ table'[u] = table[u]
    BY <1>1, <1>5, <2>3, RecordKeeps
  <2>5. Fit(p, q, table', schema')
    BY <1>1, <1>2, <2>2, <2>4 DEF Inv, Fit, SetOf
  <2>6. Calm' => Patient(p, q, schema')
    BY <1>1, <1>3, <2>2 DEF Inv, Patient, Calm, Established
  <2>7. InOrder'
    BY <1>3 DEF Inv, InOrder
  <2>8. QED BY <1>3, <2>1, <2>2, <2>3, <2>4, <2>5, <2>6, <2>7, StepKeeps DEF Inv, TypeOK
<1>6. QED BY <1>4, <1>5 DEF InsertVersion

LEMMA CheckMissingKeeps ==
    ASSUME Inv, NEW p \in Processes, CheckMissing(p)
    PROVE  Inv'
<1>1. /\ table[Task(p).set] # <<>> /\ UNCHANGED <<table, schema, restarts, errors, found>>
      /\ Goto(p, "version") \/ Goto(p, "failed")
  BY TaskType DEF CheckMissing, Inv, Fit, Ready
<1>2. errors' \in 0..MaxErrors /\ (errors' = 0 => errors = 0)
  BY <1>1 DEF Inv, TypeOK
<1>3. QED BY <1>1, <1>2, GotoKeeps

LEMMA ReadVersionKeeps ==
    ASSUME Inv, NEW p \in Processes, ReadVersion(p)
    PROVE  Inv'
<1> DEFINE s == Task(p).set
<1>1. s \in Sets /\ proc[p] \in Process /\ s = SetOf(p, proc[p]) /\ proc[p].pc = "version"
  BY TaskType DEF ReadVersion
<1>2. table[s] # <<>>
  BY <1>1 DEF Inv, Fit, Ready
<1>3. /\ Version(s) \in Nat /\ 1..Version(s) \subseteq schema[s]
      /\ Version(s) >= Latest[s] => Versions(s) \subseteq schema[s]
  BY <1>1, <1>2, VersionReached
<1>4. UNCHANGED <<table, schema, restarts, errors, found>> /\ errors \in 0..MaxErrors
  BY DEF ReadVersion, Inv, TypeOK
<1>5. CASE Version(s) >= Latest[s] /\ Advance(p)
  BY <1>3, <1>4, <1>5, AdvanceKeeps
<1>6. CASE proc' = [proc EXCEPT ![p].pc = "migrate", ![p].next = Version(s) + 1]
  <2> DEFINE n == Version(s) + 1
             q == [proc[p] EXCEPT !.pc = "migrate", !.next = n]
  <2>1. proc' = [proc EXCEPT ![p] = q]
    BY <1>6 DEF Inv, TypeOK
  <2>2. n \in Nat /\ n # 0 /\ 1..(n - 1) \subseteq schema[s]
    BY <1>3
  <2> HIDE DEF n
  <2>3. q \in Process /\ q.pc = "migrate" /\ q.step = proc[p].step /\ q.next = n
    BY <1>1, <2>2 DEF Process
  <2> HIDE DEF q, s
  <2>4. Fit(p, q, table', schema')
    BY <1>1, <1>2, <1>4, <2>2, <2>3 DEF Inv, Fit, SetOf, Ready
  <2>5. Calm' => Patient(p, q, schema')
    BY <1>1, <1>4, <2>3 DEF Inv, Patient, Calm, Established
  <2>6. RecordsTrue' /\ InOrder'
    BY <1>4 DEF Inv, RecordsTrue, InOrder
  <2>7. QED BY <1>4, <2>1, <2>3, <2>4, <2>5, <2>6, StepKeeps DEF Inv, TypeOK
<1>7. QED BY <1>5, <1>6 DEF ReadVersion

LEMMA MigrateKeeps ==
    ASSUME Inv, NEW p \in Processes, Migrate(p)
    PROVE  Inv'
<1> DEFINE s == Task(p).set
           v == proc[p].next
           q == [proc[p] EXCEPT !.pc = "version"]
<1>1. s \in Sets /\ proc[p] \in Process /\ s = SetOf(p, proc[p]) /\ proc[p].pc = "migrate"
  BY TaskType DEF Migrate
<1>2. v \in Nat /\ v # 0 /\ 1..(v - 1) \subseteq schema[s]
  BY <1>1 DEF Inv, Fit, Process
<1>3. /\ schema' = [schema EXCEPT ![s] = @ \cup {v}]
      /\ table' = [table EXCEPT ![s] = Append(@, v)]
      /\ proc' = [proc EXCEPT ![p] = q]
      /\ UNCHANGED <<restarts, errors, found>>
  BY DEF Migrate, Goto, Inv, TypeOK
<1>4. q \in Process /\ q.pc = "version" /\ q.step = proc[p].step
  BY <1>1 DEF Process
<1> HIDE DEF q, v, s
<1>5. /\ schema'[s] = schema[s] \cup {v} /\ schema' \in [Sets -> SUBSET Nat]
      /\ \A u \in Sets \ {s} : schema'[u] = schema[u]
      /\ \A u \in Sets : schema[u] \subseteq schema'[u]
  BY <1>1, <1>2, <1>3 DEF Inv, TypeOK
<1>6. /\ table' \in [Sets -> Seq(Nat)] /\ RecordsTrue' /\ table'[s] # <<>>
      /\ \A u \in Sets : table'[u] # <<>> \/ table'[u] = table[u]
  BY <1>1, <1>2, <1>3, <1>5, RecordKeeps
<1>7. InOrder'
  <2>1. 1..v \subseteq schema'[s]
    BY <1>2, <1>5
  <2>2. QED BY <1>5, <2>1 DEF Inv, InOrder
<1>8. Fit(p, q, table', schema')
  BY <1>1, <1>4, <1>6 DEF Inv, Fit, SetOf, Ready
<1>9. Calm' => Patient(p, q, schema')
  <2>1. \A i \in 1..Len(Plan[p]) : Plan[p][i].set \in Sets
    BY PlanTask
  <2>2. ASSUME Calm'
        PROVE  Patient(p, proc[p], schema)
    BY <1>3, <2>2 DEF Inv, Calm, Established
  <2>3. QED BY <1>1, <1>4, <1>5, <2>1, <2>2 DEF Patient
<1>10. QED BY <1>3, <1>4, <1>5, <1>6, <1>7, <1>8, <1>9, StepKeeps DEF Inv, TypeOK

LEMMA PollKeeps ==
    ASSUME Inv, NEW p \in Processes, Poll(p)
    PROVE  Inv'
<1> DEFINE s == Task(p).set
<1>1. s \in Sets /\ table[s] # <<>>
  BY TaskType DEF Poll, Inv, Fit, Ready
<1>2. Version(s) >= Latest[s] => Versions(s) \subseteq schema[s]
  BY <1>1, VersionReached
<1>3. UNCHANGED <<table, schema, restarts, errors, found>> /\ errors \in 0..MaxErrors
  BY DEF Poll, Inv, TypeOK
<1>4. CASE Version(s) >= Latest[s] /\ Advance(p)
  BY <1>2, <1>3, <1>4, AdvanceKeeps
<1>5. CASE Goto(p, "failed")
  BY <1>3, <1>5, GotoKeeps DEF Ready
<1>6. QED BY <1>4, <1>5 DEF Poll

LEMMA FailKeeps ==
    ASSUME Inv, NEW p \in Processes, Fail(p)
    PROVE  Inv'
<1>1. /\ errors' \in 0..MaxErrors /\ errors' # 0 /\ ~Calm'
      /\ UNCHANGED <<table, schema, restarts, found>>
  BY BoundsAssumption DEF Fail, Inv, TypeOK, Calm
<1>2. CASE AfterError(p)
  BY <1>1, <1>2, AfterErrorKeeps
<1>3. CASE Goto(p, "failed")
  BY <1>1, <1>3, GotoKeeps DEF Ready
<1>4. QED BY <1>2, <1>3 DEF Fail

LEMMA RestartKeeps ==
    ASSUME Inv, NEW p \in Processes, Restart(p)
    PROVE  Inv'
<1> DEFINE q == [proc[p] EXCEPT !.pc = "ensure", !.step = 1]
<1>1. proc[p] \in Process /\ proc' = [proc EXCEPT ![p] = q]
  BY DEF Restart, Inv, TypeOK
<1>2. q \in Process /\ q.pc = "ensure" /\ q.step = 1
  BY <1>1 DEF Process
<1> HIDE DEF q
<1>3. 1 \in 1..Len(Plan[p]) /\ \A i \in 1..Len(Plan[p]) : ~(i < 1)
  BY TaskType, PlanAssumption
<1>4. Fit(p, q, table', schema') /\ Patient(p, q, schema')
  BY <1>2, <1>3 DEF Fit, Patient, Ready
<1>5. RecordsTrue' /\ InOrder'
  BY DEF Inv, RecordsTrue, InOrder, Restart
<1>6. restarts' \in [Jobs -> 0..BackoffLimit]
  <2>1. restarts \in [Jobs -> 0..BackoffLimit] /\ (p \in Jobs => restarts[p] # BackoffLimit)
    BY DEF Restart, GivenUp, Inv, TypeOK
  <2>2. \A j \in Jobs : (IF j = p THEN restarts[j] + 1 ELSE restarts[j]) \in 0..BackoffLimit
    BY <2>1, BoundsAssumption
  <2>3. QED BY <2>2 DEF Restart
<1>7. QED BY <1>1, <1>2, <1>4, <1>5, <1>6, StepKeeps DEF Inv, TypeOK, Restart

-----------------------------------------------------------------------------
(* Invariance *)

LEMMA InitInv == Init => Inv
<1> SUFFICES ASSUME Init PROVE Inv
  OBVIOUS
<1>1. /\ found \in Recorded /\ found \in [Sets -> Seq(Nat)] /\ table = found
      /\ \A s \in Sets : schema[s] = 1..Legacy[s] \cup (ToSet(table[s]) \ {0})
  BY SetsAssumption DEF Init
<1>2. ASSUME NEW p \in Processes
      PROVE  /\ proc[p].pc = "ensure" /\ proc[p].step = 1 /\ proc[p] \in Process
             /\ 1 \in 1..Len(Plan[p]) /\ \A i \in 1..Len(Plan[p]) : ~(i < 1)
  <2>1. Plan[p] # <<>> /\ Plan[p] \in Seq([mode : {"run", "wait"}, set : Sets])
    BY PlanAssumption
  <2>2. Len(Plan[p]) \in Nat /\ Len(Plan[p]) # 0
    BY <2>1
  <2>3. QED BY <2>2 DEF Init, Process
<1>3. \A s \in Sets : ToSet(table[s]) \subseteq Nat
  BY <1>1 DEF ToSet
<1>4. TypeOK
  <2>1. \A s \in Sets : schema[s] \in SUBSET Nat
    BY <1>1, <1>3, SetsAssumption
  <2>2. errors \in 0..MaxErrors
    BY BoundsAssumption DEF Init
  <2>3. proc \in [Processes -> Process] /\ schema \in [Sets -> SUBSET Nat]
    BY <1>2, <2>1 DEF Init
  <2>4. restarts \in [Jobs -> 0..BackoffLimit]
    BY BoundsAssumption DEF Init
  <2>5. QED BY <1>1, <1>2, <2>2, <2>3, <2>4 DEF TypeOK
<1>5. RecordsTrue
  BY <1>1 DEF RecordsTrue
<1>6. InOrder
  <2>1. ASSUME NEW s \in Sets, NEW v \in schema[s]
        PROVE  1..v \subseteq schema[s]
    <3>1. CASE v \in 1..Legacy[s]
      <4>1. 1..v \subseteq 1..Legacy[s]
        BY <3>1, SetsAssumption
      <4>2. QED BY <1>1, <4>1
    <3>2. CASE v \in ToSet(table[s])
      <4>1. 1..v \subseteq 1..Legacy[s] \cup ToSet(table[s])
        BY <1>1, <3>2, RecordedAssumption
      <4>2. 0 \notin 1..v
        BY <1>3, <3>2
      <4>3. QED BY <1>1, <4>1, <4>2
    <3>3. QED BY <1>1, <3>1, <3>2
  <2>2. QED BY <2>1 DEF InOrder
<1>7. Kept(table, schema)
  BY <1>1 DEF Kept
<1>8. \A p \in Processes : Fit(p, proc[p], table, schema) /\ Patient(p, proc[p], schema)
  BY <1>2 DEF Fit, Patient, Ready
<1>9. QED BY <1>4, <1>5, <1>6, <1>7, <1>8 DEF Inv

LEMMA NextInv == Inv /\ [Next]_vars => Inv'
<1> SUFFICES ASSUME Inv, [Next]_vars PROVE Inv'
  OBVIOUS
<1>1. ASSUME NEW p \in Processes, Run(p) PROVE Inv'
  BY <1>1, EnsureKeeps, CreateKeeps, ReadVersionsKeeps, InsertVersionKeeps,
     CheckMissingKeeps, ReadVersionKeeps, MigrateKeeps, PollKeeps, RestartKeeps DEF Run
<1>2. ASSUME NEW p \in Processes, Fail(p) PROVE Inv'
  BY <1>2, FailKeeps
<1>3. CASE UNCHANGED vars
  BY <1>3 DEF vars, Inv, TypeOK, RecordsTrue, InOrder, Kept, Fit, Patient, Calm,
              Established, SetOf, Versions, Jobs
<1>4. QED BY <1>1, <1>2, <1>3 DEF Next

\* The invariant of RunMigrations and WaitForMigrations.
THEOREM Invariance == Spec => []Inv
BY InitInv, NextInv, PTL DEF Spec

\* Every reachable state is well typed; a process stays within its plan.
THEOREM TypeCorrect == Spec => []TypeOK
<1>1. Inv => TypeOK
  BY DEF Inv
<1>2. QED BY <1>1, Invariance, PTL

\* The version tables tell the truth, whichever processes bootstrap and migrate
\* them at once and wherever they are killed.
THEOREM TablesTellTheTruth == Spec => []RecordsTrue
<1>1. Inv => RecordsTrue
  BY DEF Inv
<1>2. QED BY <1>1, Invariance, PTL

\* No migration is executed before one it builds on.
THEOREM MigratedInOrder == Spec => []InOrder
<1>1. Inv => InOrder
  BY DEF Inv
<1>2. QED BY <1>1, Invariance, PTL

\* In a rollout over established tables nobody passes a set it waits for before
\* all of it has been applied, as long as no statement fails.
THEOREM RolloutsWait == Spec => []RolloutWaits
<1>1. ASSUME Inv, Established, errors = 0
      PROVE  WaitsForLatest
  <2>1. \A p \in Processes : Patient(p, proc[p], schema)
    BY <1>1 DEF Inv, Calm
  <2>2. QED BY <2>1 DEF Patient, WaitsForLatest, Waited
<1>2. Inv => RolloutWaits
  BY <1>1 DEF RolloutWaits
<1>3. QED BY <1>2, Invariance, PTL

=============================================================================
