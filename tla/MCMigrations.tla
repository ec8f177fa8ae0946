---------------------------- MODULE MCMigrations ----------------------------
(* Instances of Migrations for TLC: the processes of a deployment.          *)
EXTENDS Migrations, TLC

\* main.go of both services.
ShellJob    == <<[mode |-> "run", set |-> "shell"]>>
ShellServer == <<[mode |-> "wait", set |-> "shell"]>>
TodoJob     == <<[mode |-> "wait", set |-> "shell"], [mode |-> "run", set |-> "todo"]>>
TodoServer  == <<[mode |-> "wait", set |-> "shell"], [mode |-> "wait", set |-> "todo"]>>

BothSets  == {"shell", "todo"}
Deployment == "shellJob" :> ShellJob @@ "shellServer" :> ShellServer
                @@ "todoJob" :> TodoJob @@ "todoServer" :> TodoServer
Everyone  == DOMAIN Deployment

\* Without the shell server, whose plan is the first half of the todo server's.
Three == Everyone \ {"shellServer"}
DeploymentOfThree == [p \in Three |-> Deployment[p]]

Of(sets, value) == [s \in sets |-> value]

OneEach    == Of(BothSets, 1)
NoneEach   == Of(BothSets, 0)
NoTables   == {Of(BothSets, <<>>)}

\* The monolith had applied the whole shell set and nothing of the todo set.  The
\* upgrade begins where a process has just created the shell set's table.
TwoEach    == Of(BothSets, 2)
TwoAndNone == ("shell" :> 2) @@ ("todo" :> 0)
Upgrade    == ("shell" :> <<0>>) @@ ("todo" :> <<>>)
OldTables  == ("shell" :> <<0, 1, 2>>) @@ ("todo" :> <<0, 1>>)
UpToDate   == Of(BothSets, <<0, 1, 2>>)
Rollouts   == {Upgrade, OldTables, UpToDate}

=============================================================================
