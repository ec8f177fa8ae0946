--------------------------- MODULE WorkspacePanel ---------------------------
(***************************************************************************)
(* What the web client lists of the selected workspace, and how it comes to*)
(* be right or wrong: the todos of TodoFeature and the collaborators of    *)
(* App.  Both load the list when a workspace is selected, send changes, and*)
(* edit the list when the answer to a change arrives; TodoFeature loads it *)
(* again on every event as well.                                           *)
(*                                                                         *)
(* A request is sent, served some time later, and its answer arrives later *)
(* still, in any order.  TodoEvents has the ways a stream misses an event; *)
(* here it hears of every event there is.  A todo is its id and whether it *)
(* is done.                                                                *)
(*                                                                         *)
(* The user may also delete the workspace selected, or leave it, and is    *)
(* then shown another; for the todos to leave it is to select another.  The*)
(* user stays signed in: Browser has the sessions.                         *)
(***************************************************************************)
EXTENDS Naturals, FiniteSets, Sequences, SequencesExt

CONSTANTS
    Panels,      \* of "todos" and "shares"
    Workspaces,
    Keys,        \* ids of todos; emails of collaborators
    MaxAsked,    \* bound on the changes sent and not served
    MaxRefetch,  \* bound on the events and refetches not served
    MaxAnswers,  \* bound on the answers under way
    MaxUnderWay, \* bound on all of these when the user acts
    NoKey, NoChange

ASSUME PanelsAssumption == Panels \subseteq {"todos", "shares"}
ASSUME BoundsAssumption == {MaxAsked, MaxRefetch, MaxAnswers, MaxUnderWay} \subseteq Nat
ASSUME NoKeyAssumption == NoKey \notin Keys

VARIABLES
    panel,      \* which of the two; never changes
    rows,       \* the rows in the database
    alive,      \* the workspaces in the database
    born,       \* ids generated for todos
    selected,   \* selectedWorkspaceId
    shown,      \* todoSections, or shares: how often each row is listed
    loading,    \* isWorkspaceLoading; shares are loaded without a sign of it
    busy,       \* isSubmitting, updatingTodoIds, deletingTodoIds, removing...
    load,       \* the load has been sent and not served
    refetches,  \* refetches sent and not served
    events,     \* events on their way from the stream
    asked,      \* changes sent and not served
    answers,    \* answers under way, in the order the requests were served
    appended,   \* rows created here and listed since the list was last loaded
    astray      \* see SettledShowsServer

database == <<rows, alive, born>>
list     == <<shown, loading, appended, astray>>
stream   == <<refetches, events>>
vars     == <<panel, database, selected, busy, list, load, stream, asked, answers>>

Row == [workspace : Workspaces, key : Keys, done : BOOLEAN]

\* "delete" is of the workspace, "leave" the removal of one's own email.  key is
\* NoKey for a todo still to be created; done is what an update asks for.
Change == [op : {"create", "update", "remove", "leave", "delete"},
           workspace : Workspaces, key : Keys \cup {NoKey}, done : BOOLEAN]

Departs(c) == c.op \in {"leave", "delete"}

\* What disables the form and the buttons of a row.
Marks(c) ==
    CASE c.op = "create" -> {<<"create", NoKey>>}
      [] c.op = "update" -> {<<"update", c.key>>}
      [] c.op \in {"remove", "leave"} -> {<<"remove", c.key>>}
      [] c.op = "delete" -> {}

\* The rows a load or refetch has read, or the row a change has left; late: an
\* answer served after it has arrived before it.
Answer == [op : {"load", "refetch", "change", "ignored"}, ok : BOOLEAN,
           rows : SUBSET Row, change : Change \cup {NoChange}, late : BOOLEAN]

\* An answer that will not be looked at.
Ignored == [op |-> "ignored", ok |-> FALSE, rows |-> {}, change |-> NoChange,
            late |-> FALSE]

Contents(w) == {r \in rows : r.workspace = w}

Name(r) == <<r.workspace, r.key>>

\* The list with each row of a set once, and the rows listed.
Once(rs) == [r \in Row |-> IF r \in rs THEN 1 ELSE 0]
Listed   == {r \in Row : shown[r] > 0}

\* The keys of the two tables.
Keyed(rs) ==
    \A r, s \in rs : r.key = s.key /\ (panel = "todos" \/ r.workspace = s.workspace)
                        => r = s

\* The types; and the list counts as loading exactly until the answer to its load.
TypeOK ==
    /\ panel \in Panels
    /\ rows \subseteq Row /\ alive \subseteq Workspaces /\ born \subseteq Keys /\ Keyed(rows)
    /\ selected \in Workspaces
    /\ shown \in [Row -> Nat]
    /\ busy \subseteq {"create", "update", "remove"} \X (Keys \cup {NoKey})
    /\ {refetches, events} \subseteq Nat /\ load \in BOOLEAN
    /\ asked \subseteq Change
    /\ answers \in Seq(Answer)
    /\ appended \subseteq Workspaces \X Keys
    /\ astray \in BOOLEAN
    /\ loading = (load \/ \E i \in 1..Len(answers) : answers[i].op = "load")

-----------------------------------------------------------------------------
(* The user *)

\* Mutant: no isActive in the effects.
CancelledNone(as) == as

\* isActive: an answer to a load or a refetch is ignored once another workspace
\* has been selected.
Cancelled(as) ==
    [i \in 1..Len(as) |-> IF as[i].op = "change" THEN as[i] ELSE Ignored]

\* The effects on workspaceId, of the answers under way: the list is loaded, and the
\* stream opened, anew.
Turned(w, as) ==
    /\ selected' = w
    /\ IF w = selected
       THEN answers' = as /\ UNCHANGED <<loading, load, stream>>
       ELSE /\ answers' = Cancelled(as)
            /\ loading' = TRUE /\ load' = TRUE
            /\ refetches' = 0 /\ events' = 0

\* No row is busy any more; the form still is.
RowsRest(marks) == {m \in marks : m[1] = "create"}

\* The bound on what is under way when the user changes something or goes elsewhere.
Room == Len(answers) + Cardinality(asked) + refetches + events
           + (IF load THEN 1 ELSE 0) < MaxUnderWay

\* The selection of a workspace just created leaves removingCollaboratorEmails alone.
\* The old list stays until the answer; TodoFeature hides it meanwhile.
Select(w) ==
    /\ w # selected /\ Room
    /\ Turned(w, answers)
    /\ busy' = RowsRest(busy) \/ (panel = "shares" /\ busy' = busy)
    /\ UNCHANGED <<panel, database, shown, appended, astray, asked>>

\* Of two changes alike one is under way.
Ask(op, k, done) ==
    LET c == [op |-> op, workspace |-> selected, key |-> k, done |-> done] IN
    /\ Room /\ Cardinality(asked) < MaxAsked /\ c \notin asked
    /\ asked' = asked \cup {c}
    /\ busy' = busy \cup Marks(c)
    /\ UNCHANGED <<panel, database, selected, list, load, stream, answers>>

\* handleSubmitTodo and handleShareWorkspace; the form is there while a list is
\* loading.
Create ==
    /\ <<"create", NoKey>> \notin busy
    /\ \E k \in IF panel = "todos" THEN {NoKey} ELSE Keys : Ask("create", k, FALSE)

\* The buttons of a row shown, of whatever workspace it is.
Rests(r) ==
    /\ <<"remove", r.key>> \notin busy
    /\ panel = "todos"  => ~loading /\ <<"update", r.key>> \notin busy
    /\ panel = "shares" => <<"create", NoKey>> \notin busy

\* handleUpdateTodo.
Update ==
    /\ panel = "todos"
    /\ \E r \in Listed : Rests(r) /\ Ask("update", r.key, ~r.done)

\* handleDeleteTodo; handleRemoveCollaborator, which names the workspace selected.
Delete ==
    \E r \in Listed : Rests(r) /\ Ask("remove", r.key, FALSE)

\* handleRemoveCollaborator, of oneself.
Leave ==
    /\ panel = "shares"
    /\ \E r \in Listed : Rests(r) /\ Ask("leave", r.key, FALSE)

\* handleDeleteWorkspace.
DeleteWorkspace == Ask("delete", NoKey, FALSE)

-----------------------------------------------------------------------------
(* The server: AccountService and WorkspaceService have what it does *)

Respond(op, ok, rs, c) ==
    /\ Len(answers) < MaxAnswers
    /\ answers' = Append(answers, [op |-> op, ok |-> ok, rows |-> rs,
                                   change |-> c, late |-> FALSE])

\* What is asked of a workspace deleted is refused.
ServeLoad ==
    /\ load
    /\ load' = FALSE
    /\ \/ selected \in alive /\ Respond("load", TRUE, Contents(selected), NoChange)
       \/ Respond("load", FALSE, {}, NoChange)
    /\ UNCHANGED <<panel, database, selected, busy, list, stream, asked>>

ServeRefetch ==
    /\ refetches > 0
    /\ refetches' = refetches - 1
    /\ \/ selected \in alive /\ Respond("refetch", TRUE, Contents(selected), NoChange)
       \/ Respond("refetch", FALSE, {}, NoChange)
    /\ UNCHANGED <<panel, database, selected, busy, list, load, events, asked>>

\* What each change makes of the rows, and what it says of a row: a todo gets a
\* new id, a collaborator there already is left alone; a todo gone is an error.  The
\* rows of a workspace go with it.
Changes(c) ==
    LET new(k) == [workspace |-> c.workspace, key |-> k, done |-> FALSE] IN
    CASE c.op = "create" /\ panel = "todos" ->
            {[old |-> {}, new |-> {new(k)}]
                : k \in {k \in Keys \ born : c.workspace \in alive}}
      [] c.op = "create" /\ panel = "shares" ->
            {[old |-> {}, new |-> {new(c.key)}] : w \in {c.workspace} \cap alive}
      [] c.op = "update" ->
            {[old |-> {r}, new |-> {[r EXCEPT !.done = c.done]}]
                : r \in {s \in rows : s.key = c.key}}
      [] c.op = "remove" /\ panel = "todos" ->
            {[old |-> {r}, new |-> {}] : r \in {s \in rows : s.key = c.key}}
      [] c.op = "leave" \/ (c.op = "remove" /\ panel = "shares") ->
            {[old |-> {r \in rows : Name(r) = <<w, c.key>>}, new |-> {}]
                : w \in {c.workspace} \cap alive}
      [] c.op = "delete" ->
            {[old |-> Contents(w), new |-> {}] : w \in {c.workspace} \cap alive}

\* A change of a todo is an event; that of a collaborator is none, and the deletion
\* of a workspace takes its todos along without any.
Publishes(c) == panel = "todos" /\ c.op # "delete"

Commit(c, d) ==
    LET heard == Publishes(c) /\ \E r \in d.old \cup d.new : r.workspace = selected IN
    /\ rows' = (rows \ d.old) \cup d.new
    /\ alive' = IF c.op = "delete" THEN alive \ {c.workspace} ELSE alive
    /\ born' = born \cup {r.key : r \in d.new}
    /\ IF heard THEN events + refetches < MaxRefetch /\ events' = events + 1
                ELSE events' = events

\* Whatever has been done, the answer may be an error or get lost.
ServeChange ==
    \E c \in asked :
        /\ asked' = asked \ {c}
        /\ \/ \E d \in Changes(c) :
                /\ Commit(c, d)
                /\ Respond("change", TRUE, d.new, c) \/ Respond("change", FALSE, {}, c)
           \/ Respond("change", FALSE, {}, c) /\ UNCHANGED <<database, events>>
        /\ UNCHANGED <<panel, selected, busy, list, load, refetches>>

\* The answers under way; those of a set that bring a list have missed something.
Late(js) ==
    [j \in 1..Len(answers) |->
        [answers[j] EXCEPT !.late = @ \/ (j \in js /\ answers[j].op \in {"load", "refetch"})]]

\* What other clients ask; that one of them leaves is the removal of its email.
AskedElsewhere == {c \in Change : c.key \in Keys /\ c.op # "leave" /\ (c.done => c.op = "update")}

\* Other clients do the same, to collaborators and to the workspace itself unheard:
\* what is listed, and what the answers under way have read, is then out of date.
Others ==
    /\ UNCHANGED <<panel, selected, busy, shown, loading, appended, load, refetches, asked>>
    /\ \E c \in AskedElsewhere :
          /\ c.op = "update" => panel = "todos"
          /\ \E d \in Changes(c) : Commit(c, d)
          /\ IF Publishes(c) \/ Contents(selected)' = Contents(selected)
             THEN UNCHANGED <<answers, astray>>
             ELSE answers' = Late(1..Len(answers)) /\ astray' = TRUE

-----------------------------------------------------------------------------
(* What arrives *)

\* Mutant: an event is ignored until the list has been loaded.
OnEventIgnored ==
    /\ events > 0
    /\ events' = events - 1
    /\ refetches' = IF loading THEN refetches ELSE refetches + 1
    /\ UNCHANGED <<panel, database, selected, busy, list, load, asked, answers>>

OnEvent ==
    /\ events > 0
    /\ events' = events - 1
    /\ refetches' = refetches + 1
    /\ UNCHANGED <<panel, database, selected, busy, list, load, asked, answers>>

\* Mutant: a collaborator is appended whoever is listed.
AddsCopy(r) == 1

\* A create adds its row to the list: TodoFeature does not look whether it is
\* there, or of the workspace selected, App whether it is there.
Adds(r) ==
    IF panel = "shares" /\ \E s \in Listed : Name(s) = Name(r) THEN 0 ELSE 1

\* How often a todo is listed, done or not.
Copies(r) == shown[r] + shown[[r EXCEPT !.done = ~r.done]]

\* The list an answer to a change leaves; todos and collaborators go by their key.
Edited(a) ==
    LET k == a.change.key
        row == CHOOSE r \in a.rows : TRUE
    IN
    CASE ~a.ok -> shown
      [] a.ok /\ a.change.op = "create" ->
            [shown EXCEPT ![row] = @ + Adds(row)]
      [] a.ok /\ a.change.op = "update" ->
            [r \in Row |-> IF r.key # k THEN shown[r] ELSE IF r = row THEN Copies(r) ELSE 0]
      [] a.ok /\ a.change.op = "remove" ->
            [r \in Row |-> IF r.key # k THEN shown[r] ELSE 0]

ArriveChange(a) ==
    /\ a.op = "change" /\ ~(a.ok /\ Departs(a.change))
    /\ shown' = Edited(a)
    /\ appended' = IF a.change.op = "create"
                   THEN appended \cup {Name(r) : r \in a.rows} ELSE appended
    /\ busy' = busy \ Marks(a.change)
    /\ UNCHANGED loading

\* Mutant: any answer ends the loading.
LoadedByAny(a) == TRUE

Loaded(a) == a.op = "load"

\* A load that fails empties the list, a refetch that fails leaves it.
ArriveList(a) ==
    /\ a.op \in {"load", "refetch"}
    /\ loading' = (loading /\ ~Loaded(a))
    /\ IF a.ok \/ a.op = "load"
       THEN shown' = Once(a.rows) /\ appended' = {}
       ELSE UNCHANGED <<shown, appended>>
    /\ UNCHANGED busy

Overtaken(i) == {j \in 1..(i - 1) : answers[j].op # "ignored"}

\* The answers that remain; those overtaken are late.
Rest(i) == RemoveAt(Late(Overtaken(i)), i)

\* What takes the list away from the server, and what brings it back.
Misleads(a, i) ==
    LET c == a.change IN
    \/ Overtaken(i) # {}
    \/ a.op # "change" /\ ~a.ok
    \/ a.op = "change" /\ c.workspace # selected /\ ~(c.op = "delete" /\ panel = "todos")
    \/ a.op = "change" /\ ~a.ok /\ ~Publishes(c)

Heals(a) == a.op # "change" /\ ~a.late

Arrive(i) ==
    LET a == answers[i] IN
    /\ ArriveChange(a) \/ ArriveList(a)
    /\ answers' = Rest(i)
    /\ astray' = (Misleads(a, i) \/ (astray /\ ~Heals(a)))
    /\ UNCHANGED <<panel, database, selected, load, stream, asked>>

\* The workspace has been deleted, or left: another, the first of those known when
\* it was asked, is selected, and the collaborators listed are cleared, even if that
\* one is selected already and will not be loaded again.
ArriveDeparture(i) ==
    LET a == answers[i]
        rest == busy \ Marks(a.change)
    IN
    /\ a.op = "change" /\ a.ok /\ Departs(a.change)
    /\ \E f \in Workspaces \ {a.change.workspace} :
          /\ Turned(f, Rest(i))
          /\ busy' = IF IF panel = "todos" THEN f # selected ELSE a.change.op = "delete"
                     THEN RowsRest(rest) ELSE rest
    /\ IF panel = "shares" THEN shown' = Once({}) /\ appended' = {}
                           ELSE UNCHANGED <<shown, appended>>
    /\ astray' = (Misleads(a, i) \/ astray)
    /\ UNCHANGED <<panel, database, asked>>

\* The answer to a load or refetch of a workspace left behind.
ArriveIgnored(i) ==
    /\ answers[i].op = "ignored"
    /\ answers' = RemoveAt(answers, i)
    /\ UNCHANGED <<panel, database, selected, busy, list, load, stream, asked>>

-----------------------------------------------------------------------------
Init ==
    /\ panel \in Panels
    /\ rows \in SUBSET {r \in Row : ~r.done} /\ Keyed(rows)
    /\ alive = Workspaces /\ born = {r.key : r \in rows}
    /\ selected \in Workspaces
    /\ shown = Once({}) /\ appended = {} /\ astray = FALSE
    /\ loading = TRUE /\ load = TRUE
    /\ refetches = 0 /\ events = 0
    /\ busy = {} /\ asked = {} /\ answers = <<>>

Next ==
    \/ \E w \in Workspaces : Select(w)
    \/ Create \/ Update \/ Delete \/ Leave \/ DeleteWorkspace
    \/ ServeLoad \/ ServeRefetch \/ ServeChange \/ Others
    \/ OnEvent
    \/ \E i \in 1..Len(answers) : Arrive(i) \/ ArriveDeparture(i) \/ ArriveIgnored(i)

Spec == Init /\ [][Next]_vars

-----------------------------------------------------------------------------
(* Properties *)

\* Once the list of the selected workspace has been loaded it has a row of another
\* workspace only if this client created it there and its answer came after the
\* load (handleSubmitTodo and handleShareWorkspace append it unlooked at): no load,
\* refetch or event of a workspace left behind gets into it (isActive).
NoForeignRows ==
    ~loading => \A r \in Listed :
                   r.workspace = selected \/ Name(r) \in appended

\* A collaborator is never listed twice, a todo only if this client has created it
\* and not loaded the list since (handleSubmitTodo, whose event may have had the
\* list loaded before its answer arrives), and then twice at most.
ListedOnce ==
    \A r \in Row : Copies(r) <= IF panel = "todos" /\ Name(r) \in appended THEN 2 ELSE 1

\* When no answer, event or load is under way the list is what the database has,
\* unless since it was last loaded
\*  - an answer has overtaken an older one;
\*  - one was for a change sent from another workspace; among them is that to a
\*    deletion or a departure, which empties shares (setShares([])) even if the
\*    workspace it selects is selected already and so not loaded again;
\*  - one was an error, of a load, a refetch, a change of shares or the deletion of
\*    the workspace: that of a change of a todo does no harm, because the event of
\*    what was done all the same has the list loaded again;
\*  - another client has changed the shares, or deleted the workspace with its todos:
\*    there is no event of either.
SettledShowsServer ==
    load \/ refetches + events > 0 \/ answers # <<>> \/ astray
    \/ shown = Once(Contents(selected))

=============================================================================
