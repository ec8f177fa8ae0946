------------------------ MODULE WorkspacePanelProofs ------------------------
(***************************************************************************)
(* Proofs about WorkspacePanel, for any workspaces, keys and bounds.       *)
(*                                                                         *)
(* The argument: the answers under way are a queue.  Its last list that is *)
(* going to be believed, or the list shown if none is under way, is an     *)
(* anchor (Anchored).  When nothing is still to be served, what the        *)
(* database has is that anchor with the changes served after it (Follows): *)
(* for todos there are none, as each one's event has brought another list; *)
(* for shares the last change of a collaborator decides.  A departure from *)
(* the workspace selected will have another list loaded, or mislead.       *)
(***************************************************************************)
EXTENDS WorkspacePanel, SequenceTheorems, TLAPS

USE PanelsAssumption, BoundsAssumption, NoKeyAssumption

IsList(a) == a.op \in {"load", "refetch"}

\* An answer to a create that succeeded.
Created(a) == a.op = "change" /\ a.ok /\ a.change.op = "create"

\* A change that the panel can have asked for.
Sound(c) ==
    /\ c.op = "update" => panel = "todos"
    /\ c.op = "leave" => panel = "shares"
    /\ c.key \in Keys \/ (c.op = "create" /\ panel = "todos") \/ c.op = "delete"

\* What an answer says fits its request.
Fits(a) ==
    /\ a.op = "change" =>
          /\ a.change \in Change /\ Sound(a.change)
          /\ ~a.ok => a.rows = {}
          /\ a.ok /\ a.change.op \in {"create", "update"} =>
                \E r \in Row :
                    /\ a.rows = {r}
                    /\ a.change.op = "create" => r.workspace = a.change.workspace /\ ~r.done
                    /\ \/ a.change.op = "create" /\ panel = "todos"
                       \/ r.key = a.change.key
    /\ IsList(a) =>
          /\ Keyed(a.rows)
          /\ \A r \in a.rows : r.workspace = selected /\ (panel = "shares" => ~r.done)

\* The answers to creates have ids that no todo had before.
Fresh ==
    panel = "todos" =>
        /\ \A r \in rows : r.key \in born
        /\ \A n \in appended : n[2] \in born
        /\ \A i \in 1..Len(answers) : Created(answers[i]) =>
              \A r \in answers[i].rows :
                  /\ r.key \in born
                  /\ \A n \in appended : n[2] # r.key
                  /\ \A j \in 1..Len(answers) : j # i /\ Created(answers[j]) =>
                        \A s \in answers[j].rows : s.key # r.key

\* At most one load is under way.
OneLoad ==
    \A i \in 1..Len(answers) : answers[i].op = "load" =>
        ~load /\ \A j \in 1..Len(answers) : answers[j].op = "load" => j = i

\* A share is not done or open.
SharesPlain ==
    panel = "shares" =>
        (\A r \in rows : ~r.done) /\ (\A r \in Listed : ~r.done) /\ refetches + events = 0

Basics ==
    /\ TypeOK /\ NoForeignRows /\ ListedOnce
    /\ \A c \in asked : Sound(c)
    /\ \A i \in 1..Len(answers) : Fits(answers[i])
    /\ Fresh /\ OneLoad /\ SharesPlain

-----------------------------------------------------------------------------
(* The anchor *)

\* The last list under way, which its arrival would have believed, or (0) the list
\* shown, when none is under way.
Anchored(h) ==
    /\ \A j \in (h + 1)..Len(answers) : ~IsList(answers[j])
    /\ IF h = 0 THEN ~astray
       ELSE IsList(answers[h]) /\ answers[h].ok /\ ~answers[h].late

\* The list it is, or will be, and the answers to changes served after it.
Anchor(h) == IF h = 0 THEN shown ELSE Once(answers[h].rows)
After(h)  == {j \in (h + 1)..Len(answers) : answers[j].op = "change"}

\* A change that leaves the todos of the workspace selected alone.
Harmless(c) ==
    /\ c.op = "create" => c.workspace # selected
    /\ c.op \in {"update", "remove"} => \A r \in Contents(selected) : r.key # c.key

\* Answers to changes that will be believed and leave the workspace selected.
Clean(h) ==
    \A j \in After(h) :
        LET c == answers[j].change IN
        /\ Departs(c) => c.workspace # selected
        /\ panel = "shares" => answers[j].ok /\ c.workspace = selected

Follows(h) ==
    Clean(h) =>
    IF panel = "todos"
    THEN /\ Anchor(h) = Once(Contents(selected))
         /\ \A j \in After(h) : answers[j].ok => Harmless(answers[j].change)
    ELSE /\ \A r \in Row : Anchor(h)[r] > 0 => r.workspace = selected
         /\ \A k \in Keys : \A r \in Row :
               r.key = k /\ (\A j \in After(h) : answers[j].change.key # k) =>
                   Anchor(h)[r] = Once(Contents(selected))[r]
         /\ \A j \in After(h) :
               (\A m \in After(h) : m > j => answers[m].change.key # answers[j].change.key)
               => (answers[j].change.op = "create"
                      <=> \E r \in Contents(selected) : r.key = answers[j].change.key)

Anchors ==
    ~load /\ refetches + events = 0 =>
        \A h \in 0..Len(answers) : Anchored(h) => Follows(h)

\* A list that has missed something has led the shown one astray, and every older one
\* has missed it too.
Overtaking ==
    \A i \in 1..Len(answers) : answers[i].late /\ IsList(answers[i]) =>
        /\ astray
        /\ \A j \in 1..i : IsList(answers[j]) => answers[j].late

Inv == Basics /\ Overtaking /\ Anchors


-----------------------------------------------------------------------------
(* The operators of the module *)

LEMMA AnswerFields ==
    ASSUME NEW a \in Answer
    PROVE  /\ a.op \in {"load", "refetch", "change", "ignored"}
           /\ a.ok \in BOOLEAN /\ a.late \in BOOLEAN
           /\ a.rows \subseteq Row /\ a.change \in Change \cup {NoChange}
BY DEF Answer

\* Removing an element of a sequence.
LEMMA RemoveAtElements ==
    ASSUME NEW S, NEW s \in Seq(S), NEW i \in 1..Len(s)
    PROVE  /\ RemoveAt(s, i) \in Seq(S)
           /\ Len(RemoveAt(s, i)) = Len(s) - 1
           /\ \A j \in 1..(Len(s) - 1) :
                 RemoveAt(s, i)[j] = s[IF j < i THEN j ELSE j + 1]
<1>1. SubSeq(s, 1, i - 1) \in Seq(S) /\ SubSeq(s, i + 1, Len(s)) \in Seq(S)
  BY SubSeqProperties
<1>2. /\ Len(SubSeq(s, 1, i - 1)) = i - 1
      /\ Len(SubSeq(s, i + 1, Len(s))) = Len(s) - i
  BY SubSeqProperties
<1> DEFINE t == SubSeq(s, 1, i - 1) u == SubSeq(s, i + 1, Len(s))
<1>3. /\ \A j \in 1..(i - 1) : t[j] = s[j]
      /\ \A j \in 1..(Len(s) - i) : u[j] = s[i + j]
  <2> DEFINE n == Len(s) m == i + 1
  <2>1. /\ n \in Int /\ m \in Int /\ n - m + 1 = n - i
        /\ \A j \in m..n : s[j] \in S
    OBVIOUS
  <2>3. \A j \in 1..(n - i) : u[j] = s[m + j - 1]
    <3> HIDE DEF n, m
    <3>1. \A j \in 1..(n - m + 1) : SubSeq(s, m, n)[j] = s[m + j - 1]
      BY <2>1, SubSeqProperties
    <3>2. QED BY <2>1, <3>1 DEF n, m
  <2>2. \A j \in 1..(i - 1) : t[j] = s[1 + j - 1]
    BY <1>2, SubSeqProperties
  <2>4. QED BY <2>2, <2>3
<1>4. RemoveAt(s, i) = t \o u
  BY DEF RemoveAt
<1> HIDE DEF t, u
<1>5. /\ t \o u \in Seq(S) /\ Len(t \o u) = Len(s) - 1
      /\ \A j \in 1..(Len(s) - 1) :
            (t \o u)[j] = IF j <= i - 1 THEN t[j] ELSE u[j - (i - 1)]
  <2>1. t \in Seq(S) /\ u \in Seq(S) /\ Len(t) = i - 1 /\ Len(u) = Len(s) - i
    BY <1>1, <1>2 DEF t, u
  <2>2. /\ t \o u \in Seq(S) /\ Len(t \o u) = Len(t) + Len(u)
        /\ \A j \in 1..(Len(t) + Len(u)) :
              (t \o u)[j] = IF j <= Len(t) THEN t[j] ELSE u[j - Len(t)]
    BY <2>1, ConcatProperties
  <2>3. Len(t) + Len(u) = Len(s) - 1
    BY <2>1
  <2>4. QED BY <2>1, <2>2, <2>3
<1>6. \A j \in 1..(Len(s) - 1) : (t \o u)[j] = s[IF j < i THEN j ELSE j + 1]
  BY <1>3, <1>5
<1>7. QED BY <1>4, <1>5, <1>6

\* Where the answers left had been before the i-th arrived.
Before(i, j) == IF j < i THEN j ELSE j + 1

LEMMA BeforeOrder ==
    ASSUME NEW n \in Nat, NEW i \in 1..n, NEW j \in 1..(n - 1), NEW k \in 1..(n - 1)
    PROVE  /\ Before(i, j) \in 1..n /\ Before(i, j) # i
           /\ j < k <=> Before(i, j) < Before(i, k)
           /\ j = k <=> Before(i, j) = Before(i, k)
           /\ Before(i, j) < i <=> j < i
BY DEF Before

LEMMA BeforePrefix ==
    ASSUME NEW n \in Nat, NEW i \in 1..n, NEW j \in 1..(n - 1)
    PROVE  /\ Before(i, j) \in 1..n /\ Before(i, j) # i
           /\ \A k \in 1..j : Before(i, k) \in 1..Before(i, j)
<1>1. Before(i, j) \in 1..n /\ Before(i, j) # i
  BY BeforeOrder
<1>2. ASSUME NEW k \in 1..j PROVE Before(i, k) \in 1..Before(i, j)
  <2>1. Before(i, k) \in 1..n
    <3>1. k \in 1..(n - 1)
      OBVIOUS
    <3>2. QED BY <3>1, BeforeOrder
  <2>2. Before(i, k) <= Before(i, j)
    BY DEF Before
  <2>3. QED BY <1>1, <2>1, <2>2
<1>3. QED BY <1>1, <1>2

LEMMA BeforeAll ==
    ASSUME NEW n \in Nat, NEW i \in 1..n, NEW m \in 1..n, m # i
    PROVE  \E j \in 1..(n - 1) : Before(i, j) = m
<1> DEFINE j == IF m < i THEN m ELSE m - 1
<1>1. j \in 1..(n - 1) /\ Before(i, j) = m
  BY DEF Before
<1>2. QED BY <1>1

\* The answers left are all but the i-th, each once.
Shifts(n, i) ==
    /\ \A j \in 1..(n - 1) : Before(i, j) \in 1..n /\ Before(i, j) # i
    /\ \A j, k \in 1..(n - 1) : j # k => Before(i, j) # Before(i, k)
    /\ \A m \in 1..n : m # i => \E j \in 1..(n - 1) : Before(i, j) = m

LEMMA BeforeShifts ==
    ASSUME NEW n \in Nat, NEW i \in 1..n
    PROVE  Shifts(n, i)
<1>1. ASSUME NEW j \in 1..(n - 1) PROVE Before(i, j) \in 1..n /\ Before(i, j) # i
  BY BeforeOrder
<1>2. ASSUME NEW j \in 1..(n - 1), NEW k \in 1..(n - 1), j # k
      PROVE  Before(i, j) # Before(i, k)
  BY <1>2 DEF Before
<1>3. QED BY <1>1, <1>2, BeforeAll DEF Shifts

\* What is left of a sequence when its i-th element is taken out of it.
LEMMA RemoveAtBefore ==
    ASSUME NEW S, NEW s \in Seq(S), NEW i \in 1..Len(s)
    PROVE  /\ RemoveAt(s, i) \in Seq(S)
           /\ Len(RemoveAt(s, i)) = Len(s) - 1
           /\ \A j \in 1..(Len(s) - 1) : RemoveAt(s, i)[j] = s[Before(i, j)]
<1>1. /\ RemoveAt(s, i) \in Seq(S) /\ Len(RemoveAt(s, i)) = Len(s) - 1
      /\ \A j \in 1..(Len(s) - 1) : RemoveAt(s, i)[j] = s[IF j < i THEN j ELSE j + 1]
  BY RemoveAtElements
<1>2. ASSUME NEW j \in 1..(Len(s) - 1) PROVE RemoveAt(s, i)[j] = s[Before(i, j)]
  BY <1>1 DEF Before
<1>3. QED BY <1>1, <1>2

LEMMA LateAnswers ==
    ASSUME TypeOK, NEW js
    PROVE  /\ Late(js) \in Seq(Answer) /\ Len(Late(js)) = Len(answers)
           /\ \A j \in 1..Len(answers) :
                 /\ Late(js)[j].op = answers[j].op /\ Late(js)[j].ok = answers[j].ok
                 /\ Late(js)[j].rows = answers[j].rows
                 /\ Late(js)[j].change = answers[j].change
                 /\ Late(js)[j].late = (answers[j].late \/ (j \in js /\ IsList(answers[j])))
<1> DEFINE s == Late(js)
<1>1. answers \in Seq(Answer) /\ Len(answers) \in Nat
  BY DEF TypeOK
<1>2. \A j \in 1..Len(answers) :
         /\ s[j] \in Answer
         /\ s[j].op = answers[j].op /\ s[j].ok = answers[j].ok
         /\ s[j].rows = answers[j].rows /\ s[j].change = answers[j].change
         /\ s[j].late = (answers[j].late \/ (j \in js /\ IsList(answers[j])))
  <2>1. SUFFICES ASSUME NEW j \in 1..Len(answers)
                 PROVE  /\ s[j] \in Answer
                        /\ s[j].op = answers[j].op /\ s[j].ok = answers[j].ok
                        /\ s[j].rows = answers[j].rows
                        /\ s[j].change = answers[j].change
                        /\ s[j].late = (answers[j].late \/ (j \in js /\ IsList(answers[j])))
    OBVIOUS
  <2>2. answers[j] \in Answer
    BY <1>1
  <2>3. s[j] = [answers[j] EXCEPT !.late =
                   answers[j].late \/ (j \in js /\ IsList(answers[j]))]
    BY DEF Late, IsList
  <2> HIDE DEF s
  <2>4. QED BY <2>2, <2>3 DEF Answer
<1>3. s \in Seq(Answer) /\ Len(s) = Len(answers)
  <2>1. s = [j \in 1..Len(answers) |-> s[j]]
    BY DEF Late
  <2> HIDE DEF s
  <2>2. QED BY <1>1, <1>2, <2>1, IsASeq
<1>4. QED BY <1>2, <1>3

LEMMA RestLeaves ==
    ASSUME TypeOK, NEW i \in 1..Len(answers)
    PROVE  /\ Rest(i) \in Seq(Answer) /\ Len(Rest(i)) = Len(answers) - 1
           /\ \A j \in 1..(Len(answers) - 1) :
                 /\ Rest(i)[j].op = answers[Before(i, j)].op
                 /\ Rest(i)[j].ok = answers[Before(i, j)].ok
                 /\ Rest(i)[j].rows = answers[Before(i, j)].rows
                 /\ Rest(i)[j].change = answers[Before(i, j)].change
                 /\ Rest(i)[j].late =
                       \/ answers[Before(i, j)].late
                       \/ Before(i, j) \in Overtaken(i) /\ IsList(answers[Before(i, j)])
<1> DEFINE s == Late(Overtaken(i))
<1>1. /\ s \in Seq(Answer) /\ Len(s) = Len(answers) /\ Rest(i) = RemoveAt(s, i)
      /\ \A j \in 1..Len(answers) :
            /\ s[j].op = answers[j].op /\ s[j].ok = answers[j].ok
            /\ s[j].rows = answers[j].rows /\ s[j].change = answers[j].change
            /\ s[j].late = (answers[j].late \/ (j \in Overtaken(i) /\ IsList(answers[j])))
  BY LateAnswers DEF Rest
<1> HIDE DEF s
<1>2. /\ RemoveAt(s, i) \in Seq(Answer) /\ Len(RemoveAt(s, i)) = Len(answers) - 1
      /\ \A j \in 1..(Len(answers) - 1) : RemoveAt(s, i)[j] = s[Before(i, j)]
  BY <1>1, RemoveAtBefore
<1>3. \A j \in 1..(Len(answers) - 1) : Before(i, j) \in 1..Len(answers)
  <2>1. Len(answers) \in Nat
    BY DEF TypeOK
  <2>2. QED BY <2>1, BeforeOrder
<1>4. ASSUME NEW j \in 1..(Len(answers) - 1)
      PROVE  /\ Rest(i)[j].op = answers[Before(i, j)].op
             /\ Rest(i)[j].ok = answers[Before(i, j)].ok
             /\ Rest(i)[j].rows = answers[Before(i, j)].rows
             /\ Rest(i)[j].change = answers[Before(i, j)].change
             /\ Rest(i)[j].late =
                   \/ answers[Before(i, j)].late
                   \/ Before(i, j) \in Overtaken(i) /\ IsList(answers[Before(i, j)])
  <2>1. Rest(i)[j] = s[Before(i, j)] /\ Before(i, j) \in 1..Len(answers)
    BY <1>1, <1>2, <1>3
  <2>2. QED BY <1>1, <2>1
<1>5. QED BY <1>1, <1>2, <1>4

\* The answers after one has arrived.
LEMMA RestNext ==
    ASSUME TypeOK, NEW i \in 1..Len(answers), answers' = Rest(i)
    PROVE  /\ answers' \in Seq(Answer) /\ Len(answers') = Len(answers) - 1
           /\ \A j \in 1..Len(answers') :
                 /\ answers'[j].op = answers[Before(i, j)].op
                 /\ answers'[j].ok = answers[Before(i, j)].ok
                 /\ answers'[j].rows = answers[Before(i, j)].rows
                 /\ answers'[j].change = answers[Before(i, j)].change
                 /\ answers'[j].late =
                       \/ answers[Before(i, j)].late
                       \/ Before(i, j) \in Overtaken(i) /\ IsList(answers[Before(i, j)])
<1>1. /\ Rest(i) \in Seq(Answer) /\ Len(Rest(i)) = Len(answers) - 1
      /\ \A j \in 1..(Len(answers) - 1) :
            /\ Rest(i)[j].op = answers[Before(i, j)].op
            /\ Rest(i)[j].ok = answers[Before(i, j)].ok
            /\ Rest(i)[j].rows = answers[Before(i, j)].rows
            /\ Rest(i)[j].change = answers[Before(i, j)].change
            /\ Rest(i)[j].late =
                  \/ answers[Before(i, j)].late
                  \/ Before(i, j) \in Overtaken(i) /\ IsList(answers[Before(i, j)])
  BY RestLeaves
<1>2. QED BY <1>1

LEMMA ArriveIgnoredLeaves ==
    ASSUME TypeOK, NEW i \in 1..Len(answers), ArriveIgnored(i)
    PROVE  /\ answers' \in Seq(Answer) /\ Len(answers') = Len(answers) - 1
           /\ \A j \in 1..Len(answers') : answers'[j] = answers[Before(i, j)]
<1>1. answers \in Seq(Answer) /\ answers' = RemoveAt(answers, i)
  BY DEF ArriveIgnored, TypeOK
<1>2. /\ RemoveAt(answers, i) \in Seq(Answer)
      /\ Len(RemoveAt(answers, i)) = Len(answers) - 1
      /\ \A j \in 1..(Len(answers) - 1) : RemoveAt(answers, i)[j] = answers[Before(i, j)]
  BY <1>1, RemoveAtBefore
<1>3. QED BY <1>1, <1>2

\* The numbers up to one more.
LEMMA OneMore ==
    ASSUME NEW m \in Nat
    PROVE  1..(m + 1) = 1..m \cup {m + 1} /\ m + 1 \notin 1..m
OBVIOUS

LEMMA AppendLeaves ==
    ASSUME TypeOK, NEW a \in Answer, answers' = Append(answers, a)
    PROVE  /\ answers' \in Seq(Answer) /\ Len(answers') = Len(answers) + 1
           /\ \A j \in 1..Len(answers) : answers'[j] = answers[j]
           /\ answers'[Len(answers) + 1] = a
BY AppendProperties DEF TypeOK

LEMMA CancelledAnswers ==
    ASSUME NEW as \in Seq(Answer)
    PROVE  /\ Cancelled(as) \in Seq(Answer) /\ Len(Cancelled(as)) = Len(as)
           /\ \A j \in 1..Len(as) :
                 Cancelled(as)[j] = IF as[j].op = "change" THEN as[j] ELSE Ignored
<1>1. Ignored \in Answer
  BY DEF Answer, Ignored
<1>2. Cancelled(as) \in Seq(Answer) /\ Len(Cancelled(as)) = Len(as)
  <2>1. Len(as) \in Nat /\ \A j \in 1..Len(as) : as[j] \in Answer
    BY LenProperties
  <2>2. \A j \in 1..Len(as) : Cancelled(as)[j] \in Answer
    BY <1>1, <2>1 DEF Cancelled
  <2>3. Cancelled(as) = [j \in 1..Len(as) |-> Cancelled(as)[j]]
    BY DEF Cancelled
  <2> DEFINE s == Cancelled(as)
             n == Len(as)
  <2> HIDE DEF s, n
  <2>4. n \in Nat /\ s = [j \in 1..n |-> s[j]] /\ \A j \in 1..n : s[j] \in Answer
    BY <2>1, <2>2, <2>3 DEF s, n
  <2>5. s \in Seq(Answer) /\ Len(s) = n
    BY <2>4, IsASeq
  <2>6. QED BY <2>5 DEF s, n
<1>3. QED BY <1>2 DEF Cancelled

LEMMA OnceLists ==
    ASSUME NEW rs \in SUBSET Row
    PROVE  /\ Once(rs) \in [Row -> Nat]
           /\ \A r \in Row : (Once(rs)[r] > 0 <=> r \in rs) /\ Once(rs)[r] <= 1
BY DEF Once

\* The same todo, otherwise done.
Twin(r) == [r EXCEPT !.done = ~r.done]

LEMMA Twins ==
    ASSUME NEW r \in Row
    PROVE  /\ Twin(r) \in Row /\ Twin(r) # r /\ Twin(Twin(r)) = r
           /\ Name(Twin(r)) = Name(r) /\ Twin(r).key = r.key
           /\ \A s \in Row : Name(s) = Name(r) <=> s \in {r, Twin(r)}
<1>1. /\ Twin(r) \in Row /\ Twin(r).key = r.key /\ Twin(r).workspace = r.workspace
      /\ Twin(r).done = ~r.done /\ r.done \in BOOLEAN
  BY DEF Twin, Row
<1>2. Twin(r) # r
  BY <1>1
<1>3. \A s \in Row : s.workspace = r.workspace /\ s.key = r.key /\ s.done = r.done => s = r
  BY DEF Row
<1>4. \A s \in Row : s.workspace = Twin(r).workspace /\ s.key = Twin(r).key
                        /\ s.done = Twin(r).done => s = Twin(r)
  BY <1>1 DEF Row
<1>5. Twin(Twin(r)) = r
  BY <1>1 DEF Twin, Row
<1>6. \A s \in Row : s.done = r.done \/ s.done = Twin(r).done
  BY <1>1 DEF Row
<1>7. Name(Twin(r)) = Name(r)
  BY <1>1 DEF Name
<1>8. \A s \in Row : Name(s) = Name(r) <=> s \in {r, Twin(r)}
  BY <1>1, <1>3, <1>4, <1>6, <1>7 DEF Name
<1>9. QED BY <1>1, <1>2, <1>5, <1>7, <1>8

-----------------------------------------------------------------------------
(* What a change makes of the rows *)

LEMMA ChangeShape ==
    ASSUME TypeOK, NEW c \in Change, panel = "shares" => Sound(c), NEW d \in Changes(c)
    PROVE  /\ d.old \subseteq rows /\ d.new \subseteq Row
           /\ c.op = "create" =>
                 /\ d.old = {}
                 /\ \E r \in Row : /\ d.new = {r} /\ r.workspace = c.workspace /\ ~r.done
                                   /\ panel = "todos" => r.key \notin born
                                   /\ panel = "shares" => r.key = c.key
           /\ c.op = "update" =>
                 \E r \in rows, s \in Row :
                     /\ d.old = {r} /\ d.new = {s} /\ r.key = c.key
                     /\ s.key = r.key /\ s.workspace = r.workspace
           /\ c.op \in {"remove", "leave", "delete"} => d.new = {}
           /\ c.op = "remove" /\ panel = "todos" => \E r \in rows : d.old = {r} /\ r.key = c.key
           /\ c.op = "remove" /\ panel = "shares" =>
                 d.old = {r \in rows : Name(r) = <<c.workspace, c.key>>}
           /\ c.op = "delete" => d.old = Contents(c.workspace)
<1>1. /\ c.op \in {"create", "update", "remove", "leave", "delete"} /\ c.workspace \in Workspaces
      /\ c.done \in BOOLEAN /\ c.key \in Keys \cup {NoKey}
  BY DEF Change
<1>2. panel \in {"todos", "shares"} /\ rows \subseteq Row
  BY PanelsAssumption DEF TypeOK
<1>3. CASE c.op = "create" /\ panel = "todos"
  <2>1. PICK k \in {k \in Keys \ born : c.workspace \in alive} :
           d = [old |-> {}, new |-> {[workspace |-> c.workspace, key |-> k, done |-> FALSE]}]
    BY <1>3 DEF Changes
  <2> DEFINE r == [workspace |-> c.workspace, key |-> k, done |-> FALSE]
  <2>2. r \in Row /\ r.workspace = c.workspace /\ ~r.done /\ r.key = k
    BY <1>1 DEF Row
  <2>3. d.old = {} /\ d.new = {r}
    BY <2>1
  <2> HIDE DEF r
  <2>4. QED BY <1>3, <2>2, <2>3
<1>4. CASE c.op = "create" /\ panel = "shares"
  <2> DEFINE r == [workspace |-> c.workspace, key |-> c.key, done |-> FALSE]
  <2>1. d = [old |-> {}, new |-> {r}]
    BY <1>4 DEF Changes
  <2>2. c.key \in Keys
    BY <1>4 DEF Sound
  <2>3. r \in Row /\ r.workspace = c.workspace /\ ~r.done /\ r.key = c.key
    BY <1>1, <2>2 DEF Row
  <2>4. d.old = {} /\ d.new = {r}
    BY <2>1
  <2> HIDE DEF r
  <2>5. QED BY <1>4, <2>3, <2>4
<1>5. CASE c.op = "update"
  <2>1. PICK r \in rows :
           r.key = c.key /\ d = [old |-> {r}, new |-> {[r EXCEPT !.done = c.done]}]
    BY <1>5 DEF Changes
  <2> DEFINE s == [r EXCEPT !.done = c.done]
  <2>2. s \in Row /\ s.key = r.key /\ s.workspace = r.workspace
    BY <1>1, <1>2 DEF Row
  <2>3. d.old = {r} /\ d.new = {s}
    BY <2>1
  <2> HIDE DEF s
  <2>4. QED BY <1>5, <2>1, <2>2, <2>3
<1>6. CASE c.op = "remove" /\ panel = "todos"
  <2>1. PICK r \in rows : r.key = c.key /\ d = [old |-> {r}, new |-> {}]
    BY <1>6 DEF Changes
  <2>2. d.old = {r} /\ d.new = {}
    BY <2>1
  <2>3. QED BY <1>6, <2>1, <2>2
<1>7. CASE c.op = "leave" \/ (c.op = "remove" /\ panel = "shares")
  <2>1. d = [old |-> {r \in rows : Name(r) = <<c.workspace, c.key>>}, new |-> {}]
    BY <1>7 DEF Changes
  <2>2. d.old = {r \in rows : Name(r) = <<c.workspace, c.key>>} /\ d.new = {}
    BY <2>1
  <2>3. QED BY <1>7, <2>2
<1>8. CASE c.op = "delete"
  <2>1. d = [old |-> Contents(c.workspace), new |-> {}]
    BY <1>8 DEF Changes
  <2>2. d.old = Contents(c.workspace) /\ d.new = {}
    BY <2>1
  <2>3. QED BY <1>8, <2>2 DEF Contents
<1>9. QED BY <1>1, <1>2, <1>3, <1>4, <1>5, <1>6, <1>7, <1>8

\* What holds of the tables alone.
Tables ==
    /\ rows \subseteq Row /\ alive \subseteq Workspaces /\ born \subseteq Keys /\ Keyed(rows)
    /\ panel = "shares" => (\A r \in rows : ~r.done)
    /\ panel = "todos" => (\A r \in rows : r.key \in born)

LEMMA BasicsTables == ASSUME Basics PROVE Tables
BY DEF Basics, TypeOK, Tables, Fresh, SharesPlain

LEMMA CommitTables ==
    ASSUME TypeOK, Tables, NEW c \in Change, panel = "shares" => Sound(c),
           NEW d \in Changes(c), Commit(c, d), panel' = panel
    PROVE  /\ Tables' /\ born \subseteq born' /\ events' \in Nat
           /\ \A r \in d.new : r.key \in born'
           /\ panel = "shares" => events' = events
<1>1. /\ rows' = (rows \ d.old) \cup d.new /\ born' = born \cup {r.key : r \in d.new}
      /\ alive' \subseteq alive
  BY DEF Commit
<1>2. d.new \subseteq Row /\ panel \in {"todos", "shares"} /\ rows \subseteq Row
  BY ChangeShape, PanelsAssumption DEF TypeOK
<1>3. rows' \subseteq Row /\ born' \subseteq Keys
  BY <1>1, <1>2 DEF TypeOK, Row
<1>4. c.op \in {"create", "update", "remove", "leave", "delete"}
  BY DEF Change
<1>5. Keyed(rows)'
  <2>1. SUFFICES ASSUME NEW r \in rows', NEW s \in rows', r.key = s.key,
                        panel = "todos" \/ r.workspace = s.workspace
                 PROVE  r = s
    BY DEF Keyed
  <2>2. CASE c.op = "create" /\ panel = "todos"
    <3>1. PICK n \in Row : d.new = {n} /\ n.key \notin born
      BY <2>2, ChangeShape
    <3>2. \A q \in rows : q.key # n.key
      BY <2>2, <3>1 DEF Tables
    <3>3. QED BY <1>1, <2>1, <3>1, <3>2 DEF Tables, Keyed
  <2>3. CASE c.op = "create" /\ panel = "shares"
    <3>1. PICK n \in Row : d.new = {n} /\ ~n.done
      BY <2>3, ChangeShape
    <3>2. \A q \in rows' : ~q.done
      BY <1>1, <2>3, <3>1 DEF Tables
    <3>3. r \in Row /\ s \in Row /\ r.workspace = s.workspace /\ r.done = s.done
      BY <1>3, <2>1, <2>3, <3>2 DEF Row
    <3>4. QED BY <2>1, <3>3 DEF Row
  <2>4. CASE c.op = "update"
    <3>1. PICK o \in rows, n \in Row : /\ d.old = {o} /\ d.new = {n}
                                       /\ n.key = o.key /\ n.workspace = o.workspace
      BY <2>4, ChangeShape
    <3>2. \A q \in rows \ {o} :
             ~(q.key = n.key /\ (panel = "todos" \/ q.workspace = n.workspace))
      BY <3>1 DEF Tables, Keyed
    <3>3. QED BY <1>1, <2>1, <3>1, <3>2 DEF Tables, Keyed
  <2>5. CASE c.op \in {"remove", "leave", "delete"}
    <3>1. r \in rows /\ s \in rows
      BY <1>1, <2>5, ChangeShape
    <3>2. QED BY <2>1, <3>1 DEF Tables, Keyed
  <2>6. QED BY <1>2, <1>4, <2>2, <2>3, <2>4, <2>5
<1>6. ASSUME panel = "shares" PROVE \A r \in rows' : ~r.done
  <2>1. c.op # "update"
    BY <1>6 DEF Sound
  <2>2. \A r \in d.new : ~r.done
    BY <1>4, <2>1, ChangeShape
  <2>3. QED BY <1>1, <1>6, <2>2 DEF Tables
<1>7. ASSUME panel = "todos" PROVE \A r \in rows' : r.key \in born'
  BY <1>1, <1>7 DEF Tables
<1>8. events' \in Nat /\ (panel = "shares" => events' = events)
  BY DEF Commit, Publishes, TypeOK
<1>9. QED BY <1>1, <1>3, <1>5, <1>6, <1>7, <1>8 DEF Tables

-----------------------------------------------------------------------------
(* Types, foreign rows and rows listed twice *)

LEMMA Typed ==
    ASSUME Basics
    PROVE  /\ panel \in {"todos", "shares"} /\ rows \subseteq Row /\ shown \in [Row -> Nat]
           /\ Len(answers) \in Nat
           /\ \A j \in 1..Len(answers) : answers[j] \in Answer /\ Fits(answers[j])
<1>1. TypeOK /\ \A j \in 1..Len(answers) : Fits(answers[j])
  BY DEF Basics
<1>2. /\ panel \in {"todos", "shares"} /\ rows \subseteq Row /\ shown \in [Row -> Nat]
      /\ answers \in Seq(Answer)
  BY <1>1, PanelsAssumption DEF TypeOK
<1>3. Len(answers) \in Nat /\ \A j \in 1..Len(answers) : answers[j] \in Answer
  BY <1>2, LenProperties
<1>4. QED BY <1>1, <1>2, <1>3

LEMMA BasicsInit == Init => Basics
<1> SUFFICES ASSUME Init PROVE Basics
  OBVIOUS
<1>1. panel \in Panels /\ panel \in {"todos", "shares"}
  BY PanelsAssumption DEF Init
<1>2. TypeOK
  <2>1. rows \subseteq Row /\ born \subseteq Keys /\ alive \subseteq Workspaces
    BY DEF Init, Row
  <2>2. shown \in [Row -> Nat] /\ answers \in Seq(Answer) /\ Len(answers) = 0
    BY OnceLists DEF Init
  <2>3. Keyed(rows) /\ busy = {} /\ asked = {} /\ appended = {} /\ astray = FALSE
        /\ refetches = 0 /\ events = 0 /\ selected \in Workspaces
    BY DEF Init
  <2>4. load = TRUE /\ loading = TRUE
    BY DEF Init
  <2>5. loading = (load \/ \E i \in 1..Len(answers) : answers[i].op = "load")
    BY <2>4
  <2>6. {refetches, events} \subseteq Nat
    BY <2>3
  <2>7. load \in BOOLEAN /\ astray \in BOOLEAN
    BY <2>3, <2>4
  <2>8. /\ busy \subseteq {"create", "update", "remove"} \X (Keys \cup {NoKey})
        /\ asked \subseteq Change /\ appended \subseteq Workspaces \X Keys
    BY <2>3
  <2>9. QED BY <1>1, <2>1, <2>2, <2>3, <2>5, <2>6, <2>7, <2>8 DEF TypeOK
<1>3. \A r \in Row : shown[r] = 0
  BY DEF Init, Once
<1>4. NoForeignRows /\ ListedOnce
  <2>1. \A r \in Row : Copies(r) = 0
    <3>1. SUFFICES ASSUME NEW r \in Row PROVE Copies(r) = 0
      OBVIOUS
    <3>2. Twin(r) \in Row
      BY Twins
    <3>3. QED BY <1>3, <3>2 DEF Copies, Twin
  <2>2. QED BY <1>3, <2>1 DEF Init, NoForeignRows, ListedOnce, Listed
<1>5. Fresh /\ SharesPlain
  BY <1>3 DEF Init, Fresh, SharesPlain, Listed
<1>6. QED BY <1>2, <1>4, <1>5 DEF Init, Basics, OneLoad

\* The answers under way say what they said.
SameSaid ==
    /\ answers' \in Seq(Answer) /\ Len(answers') = Len(answers)
    /\ \A j \in 1..Len(answers) :
          /\ answers'[j].op = answers[j].op /\ answers'[j].ok = answers[j].ok
          /\ answers'[j].rows = answers[j].rows /\ answers'[j].change = answers[j].change

LEMMA SaidStill == ASSUME Basics, answers' = answers PROVE SameSaid
BY DEF Basics, TypeOK, SameSaid

\* A step that leaves the list alone, and what the answers say.
LEMMA Elsewhere ==
    ASSUME Basics, UNCHANGED <<panel, selected, shown, loading, appended, load>>,
           SameSaid, astray' \in BOOLEAN, Tables', born \subseteq born',
           busy' \in SUBSET ({"create", "update", "remove"} \X (Keys \cup {NoKey})),
           refetches' \in Nat, events' \in Nat, panel = "shares" => refetches' + events' = 0,
           asked' \subseteq Change, \A c \in asked' : Sound(c)
    PROVE  Basics'
<1> DEFINE n == Len(answers)
<1>1. /\ answers' \in Seq(Answer) /\ Len(answers') = n
      /\ \A j \in 1..n :
            /\ answers'[j].op = answers[j].op /\ answers'[j].ok = answers[j].ok
            /\ answers'[j].rows = answers[j].rows /\ answers'[j].change = answers[j].change
            /\ Created(answers'[j]) = Created(answers[j])
  BY DEF SameSaid, Created
<1> HIDE DEF n
<1>2. TypeOK'
  <2>1. loading = (load \/ \E i \in 1..n : answers[i].op = "load")
    BY DEF Basics, TypeOK, n
  <2>2. (loading = (load \/ \E i \in 1..Len(answers) : answers[i].op = "load"))'
    BY <1>1, <2>1
  <2>3. QED BY <1>1, <2>2 DEF Basics, TypeOK, Tables
<1>3. NoForeignRows' /\ ListedOnce'
  BY DEF Basics, NoForeignRows, ListedOnce, Listed, Copies
<1>4. (\A c \in asked : Sound(c))'
  BY DEF Basics, Sound
<1>5. ASSUME NEW j \in 1..Len(answers') PROVE Fits(answers[j])'
  <2>1. j \in 1..n /\ Fits(answers[j])
    BY <1>1 DEF Basics, n
  <2>2. /\ answers'[j].op = answers[j].op /\ answers'[j].ok = answers[j].ok
        /\ answers'[j].rows = answers[j].rows /\ answers'[j].change = answers[j].change
    BY <1>1, <2>1
  <2>3. QED BY <2>1, <2>2 DEF Fits, Sound, Keyed, IsList
<1>6. Fresh'
  <2>1. SUFFICES ASSUME panel = "todos" PROVE Fresh'
    BY DEF Fresh
  <2>2. /\ \A m \in appended : m[2] \in born
        /\ \A i \in 1..n : Created(answers[i]) =>
              \A r \in answers[i].rows :
                  /\ r.key \in born /\ \A m \in appended : m[2] # r.key
                  /\ \A j \in 1..n : j # i /\ Created(answers[j]) =>
                        \A q \in answers[j].rows : q.key # r.key
    BY <2>1 DEF Basics, Fresh, n
  <2>3. \A r \in rows' : r.key \in born'
    BY <2>1 DEF Tables
  <2>4. \A i \in 1..n : Created(answers'[i]) =>
           \A r \in answers'[i].rows :
               /\ r.key \in born' /\ \A m \in appended' : m[2] # r.key
               /\ \A j \in 1..n : j # i /\ Created(answers'[j]) =>
                     \A q \in answers'[j].rows : q.key # r.key
    BY <1>1, <2>2
  <2>5. \A m \in appended' : m[2] \in born'
    BY <2>2
  <2>6. QED BY <1>1, <2>3, <2>4, <2>5 DEF Fresh
<1>7. OneLoad'
  BY <1>1 DEF Basics, OneLoad, n
<1>8. SharesPlain'
  BY DEF Basics, SharesPlain, Tables, Listed
<1>9. QED BY <1>2, <1>3, <1>4, <1>5, <1>6, <1>7, <1>8 DEF Basics

LEMMA AskBasics ==
    ASSUME Basics, Create \/ Update \/ Delete \/ Leave \/ DeleteWorkspace
    PROVE  Basics'
<1>1. PICK op \in {"create", "update", "remove", "leave", "delete"}, k \in Keys \cup {NoKey}, done \in BOOLEAN :
         /\ Ask(op, k, done)
         /\ op = "update" => panel = "todos"
         /\ op = "leave" => panel = "shares"
         /\ k \in Keys \/ (op = "create" /\ panel = "todos") \/ op = "delete"
  <2>1. \A r \in Listed : r.key \in Keys /\ (~r.done) \in BOOLEAN
    BY DEF Listed, Row
  <2>2. CASE Create
    BY <2>2, Typed DEF Create
  <2>3. CASE Update
    BY <2>1, <2>3 DEF Update
  <2>4. CASE Delete
    BY <2>1, <2>4 DEF Delete
  <2>5. CASE Leave
    BY <2>1, <2>5 DEF Leave
  <2>6. CASE DeleteWorkspace
    BY <2>6 DEF DeleteWorkspace
  <2>7. QED BY <2>2, <2>3, <2>4, <2>5, <2>6
<1> DEFINE c == [op |-> op, workspace |-> selected, key |-> k, done |-> done]
<1>2. c \in Change /\ Sound(c)
  BY <1>1 DEF Change, Sound, Basics, TypeOK
<1>3. /\ asked' = asked \cup {c} /\ busy' = busy \cup Marks(c)
      /\ UNCHANGED <<panel, database, selected, list, load, stream, answers>>
  BY <1>1 DEF Ask
<1>4. Marks(c) \subseteq {"create", "update", "remove"} \X (Keys \cup {NoKey})
  BY <1>1 DEF Marks
<1> HIDE DEF c
<1>5. /\ asked' \subseteq Change /\ \A b \in asked' : Sound(b)
      /\ busy' \in SUBSET ({"create", "update", "remove"} \X (Keys \cup {NoKey}))
  BY <1>2, <1>3, <1>4 DEF Basics, TypeOK
<1>6. Tables' /\ born' = born
  BY <1>3, BasicsTables DEF Tables, Keyed, database
<1>7. refetches' \in Nat /\ events' \in Nat /\ (panel = "shares" => refetches' + events' = 0)
  BY <1>3 DEF Basics, TypeOK, SharesPlain, stream
<1>8. SameSaid /\ astray' \in BOOLEAN
  BY <1>3, SaidStill DEF Basics, TypeOK, list
<1>9. QED BY <1>3, <1>5, <1>6, <1>7, <1>8, Elsewhere DEF list

\* What another client has done, and who heard of it.
LEMMA OthersCases ==
    ASSUME Basics, Others
    PROVE  /\ UNCHANGED <<panel, selected, busy, shown, loading, appended, load,
                         refetches, asked>>
           /\ \E c \in Change : \E d \in Changes(c) :
                 /\ Sound(c) /\ Commit(c, d)
                 /\ Publishes(c) \/ Contents(selected)' = Contents(selected)
                       \/ (astray' /\ answers' = Late(1..Len(answers)))
           /\ \/ UNCHANGED <<answers, astray>>
              \/ astray' = TRUE /\ answers' = Late(1..Len(answers))
           /\ SameSaid /\ astray' \in BOOLEAN
<1>1. /\ UNCHANGED <<panel, selected, busy, shown, loading, appended, load, refetches, asked>>
      /\ \/ UNCHANGED <<answers, astray>>
         \/ astray' = TRUE /\ answers' = Late(1..Len(answers))
  BY DEF Others
<1>2. PICK c \in AskedElsewhere :
          /\ c.op = "update" => panel = "todos"
          /\ \E d \in Changes(c) : Commit(c, d)
          /\ Publishes(c) \/ Contents(selected)' = Contents(selected)
                \/ (astray' /\ answers' = Late(1..Len(answers)))
  BY DEF Others
<1>3. c \in Change /\ Sound(c)
  BY <1>2 DEF AskedElsewhere, Sound
<1>4. SameSaid
  <2>1. CASE answers' = answers
    BY <2>1, SaidStill
  <2>2. CASE answers' = Late(1..Len(answers))
    BY <2>2, LateAnswers DEF Basics, SameSaid
  <2>3. QED BY <1>1, <2>1, <2>2
<1>5. astray' \in BOOLEAN
  BY <1>1 DEF Basics, TypeOK
<1>6. QED BY <1>1, <1>2, <1>3, <1>4, <1>5

LEMMA OthersBasics ==
    ASSUME Basics, Others
    PROVE  Basics'
<1>1. /\ UNCHANGED <<panel, selected, busy, shown, loading, appended, load, refetches, asked>>
      /\ SameSaid /\ astray' \in BOOLEAN
  BY OthersCases
<1>2. PICK c \in Change : \E d \in Changes(c) : Sound(c) /\ Commit(c, d)
  BY OthersCases
<1>3. PICK d \in Changes(c) : Commit(c, d)
  BY <1>2
<1>4. /\ Tables' /\ born \subseteq born' /\ events' \in Nat
      /\ panel = "shares" => events' = events
  BY <1>1, <1>2, <1>3, BasicsTables, CommitTables DEF Basics
<1>5. /\ busy' \in SUBSET ({"create", "update", "remove"} \X (Keys \cup {NoKey}))
      /\ refetches' \in Nat /\ asked' \subseteq Change
      /\ panel = "shares" => refetches' + events' = 0
      /\ \A b \in asked' : Sound(b)
  BY <1>1, <1>4 DEF Basics, TypeOK, SharesPlain
<1>6. QED BY <1>1, <1>4, <1>5, Elsewhere

LEMMA OnEventBasics ==
    ASSUME Basics, OnEvent
    PROVE  Basics'
<1>1. /\ events > 0 /\ events' = events - 1 /\ refetches' = refetches + 1
      /\ UNCHANGED <<panel, database, selected, busy, list, load, asked, answers>>
  BY DEF OnEvent
<1>2. events \in Nat /\ refetches \in Nat
  BY DEF Basics, TypeOK
<1>3. /\ refetches' \in Nat /\ events' \in Nat
      /\ panel = "shares" => refetches' + events' = 0
  BY <1>1, <1>2 DEF Basics, SharesPlain
<1>4. Tables' /\ born' = born
  BY <1>1, BasicsTables DEF Tables, Keyed, database
<1>5. /\ busy' \in SUBSET ({"create", "update", "remove"} \X (Keys \cup {NoKey}))
      /\ asked' \subseteq Change /\ \A b \in asked' : Sound(b)
  BY <1>1 DEF Basics, TypeOK
<1>6. SameSaid /\ astray' \in BOOLEAN
  BY <1>1, SaidStill DEF Basics, TypeOK, list
<1>7. QED BY <1>1, <1>3, <1>4, <1>5, <1>6, Elsewhere DEF list

\* The answers that are left, or some of them, with the lists among them ignored.
Muted(b) ==
    /\ answers' \in Seq(Answer)
    /\ b \in [1..Len(answers') -> 1..Len(answers)]
    /\ \A j, k \in 1..Len(answers') : j # k => b[j] # b[k]
    /\ \A j \in 1..Len(answers') :
          \/ answers'[j].op = "ignored"
          \/ /\ answers'[j].op = "change" /\ answers[b[j]].op = "change"
             /\ answers'[j].ok = answers[b[j]].ok /\ answers'[j].rows = answers[b[j]].rows
             /\ answers'[j].change = answers[b[j]].change

\* Another workspace is selected.
LEMMA TurnedBasics ==
    ASSUME Basics, NEW b, Muted(b), selected' \in Workspaces, loading' = TRUE, load' = TRUE,
           refetches' = 0, events' = 0, UNCHANGED <<panel, database, asked>>,
           busy' \subseteq busy, astray' \in BOOLEAN,
           UNCHANGED <<shown, appended>> \/ (shown' = Once({}) /\ appended' = {})
    PROVE  Basics'
<1>1. /\ answers' \in Seq(Answer)
      /\ \A j \in 1..Len(answers') : b[j] \in 1..Len(answers)
      /\ \A j, k \in 1..Len(answers') : j # k => b[j] # b[k]
      /\ \A j \in 1..Len(answers') :
            \/ answers'[j].op = "ignored"
            \/ /\ answers'[j].op = "change" /\ answers[b[j]].op = "change"
               /\ answers'[j].ok = answers[b[j]].ok /\ answers'[j].rows = answers[b[j]].rows
               /\ answers'[j].change = answers[b[j]].change
  BY DEF Muted
<1>2. /\ shown' \in [Row -> Nat] /\ \A r \in Row : shown'[r] \in {0, shown[r]}
      /\ appended' \subseteq appended /\ (appended' = appended \/ \A r \in Row : shown'[r] = 0)
      /\ \A r \in Row : shown[r] \in Nat
  BY OnceLists DEF Basics, TypeOK, Once
<1>3. TypeOK'
  <2>1. (loading = (load \/ \E i \in 1..Len(answers) : answers[i].op = "load"))'
    OBVIOUS
  <2>2. Keyed(rows)'
    BY DEF Basics, TypeOK, database, Keyed
  <2>3. QED BY <1>1, <1>2, <2>1, <2>2 DEF Basics, TypeOK, database
<1>4. NoForeignRows'
  BY DEF NoForeignRows
<1>5. ListedOnce'
  <2>1. SUFFICES ASSUME NEW r \in Row
                 PROVE  Copies(r)' <= IF panel = "todos" /\ Name(r) \in appended' THEN 2 ELSE 1
    BY DEF ListedOnce
  <2>2. CASE UNCHANGED <<shown, appended>>
    BY <2>2 DEF Basics, ListedOnce, Copies
  <2>3. CASE \A q \in Row : shown'[q] = 0
    <3>1. Copies(r)' = shown'[r] + shown'[Twin(r)] /\ Twin(r) \in Row
      BY Twins DEF Copies, Twin
    <3>2. QED BY <2>3, <3>1
  <2>4. QED BY <2>2, <2>3 DEF Once
<1>6. ASSUME NEW j \in 1..Len(answers') PROVE Fits(answers[j])'
  <2>1. CASE answers'[j].op = "ignored"
    BY <2>1 DEF Fits, IsList
  <2>2. CASE /\ answers'[j].op = "change" /\ answers[b[j]].op = "change"
             /\ answers'[j].ok = answers[b[j]].ok /\ answers'[j].rows = answers[b[j]].rows
             /\ answers'[j].change = answers[b[j]].change
    <3>1. Fits(answers[b[j]])
      BY <1>1 DEF Basics
    <3>2. QED BY <2>2, <3>1 DEF Fits, Sound, IsList
  <2>3. QED BY <1>1, <2>1, <2>2
<1>7. (\A c \in asked : Sound(c))'
  BY DEF Basics, Sound
<1>8. Fresh'
  <2>1. SUFFICES ASSUME panel = "todos" PROVE Fresh'
    BY DEF Fresh
  <2>2. \A j \in 1..Len(answers') : Created(answers'[j]) =>
           /\ Created(answers[b[j]]) /\ b[j] \in 1..Len(answers)
           /\ answers'[j].rows = answers[b[j]].rows
    BY <1>1 DEF Created
  <2>3. /\ \A r \in rows : r.key \in born
        /\ \A m \in appended : m[2] \in born
        /\ \A i \in 1..Len(answers) : Created(answers[i]) =>
              \A r \in answers[i].rows :
                  /\ r.key \in born /\ \A m \in appended : m[2] # r.key
                  /\ \A j \in 1..Len(answers) : j # i /\ Created(answers[j]) =>
                        \A q \in answers[j].rows : q.key # r.key
    BY <2>1 DEF Basics, Fresh
  <2>4. /\ \A r \in rows' : r.key \in born'
        /\ \A m \in appended' : m[2] \in born'
        /\ born' = born
    BY <1>2, <2>1 DEF Basics, Fresh, database
  <2>5. ASSUME NEW i \in 1..Len(answers'), Created(answers'[i]), NEW r \in answers'[i].rows
        PROVE  /\ r.key \in born' /\ \A m \in appended' : m[2] # r.key
               /\ \A j \in 1..Len(answers') : j # i /\ Created(answers'[j]) =>
                     \A q \in answers'[j].rows : q.key # r.key
    <3>1. /\ r.key \in born /\ \A m \in appended : m[2] # r.key
          /\ \A j \in 1..Len(answers) : j # b[i] /\ Created(answers[j]) =>
                \A q \in answers[j].rows : q.key # r.key
      BY <2>2, <2>3, <2>5
    <3>2. ASSUME NEW j \in 1..Len(answers'), j # i, Created(answers'[j]),
                 NEW q \in answers'[j].rows
          PROVE  q.key # r.key
      <4>1. b[j] # b[i] /\ b[j] \in 1..Len(answers) /\ Created(answers[b[j]])
            /\ q \in answers[b[j]].rows
        BY <1>1, <2>2, <3>2
      <4>2. QED BY <3>1, <4>1
    <3>3. QED BY <1>2, <2>4, <3>1, <3>2
  <2>6. \A i \in 1..Len(answers') : Created(answers'[i]) =>
           \A r \in answers'[i].rows :
               /\ r.key \in born' /\ \A m \in appended' : m[2] # r.key
               /\ \A j \in 1..Len(answers') : j # i /\ Created(answers'[j]) =>
                     \A q \in answers'[j].rows : q.key # r.key
    BY <2>5
  <2>7. \A r \in rows' : r.key \in born'
    BY <2>4
  <2>8. \A m \in appended' : m[2] \in born'
    BY <2>4
  <2>9. QED BY <2>6, <2>7, <2>8 DEF Fresh
<1>9. OneLoad'
  BY <1>1, <1>2 DEF Basics, OneLoad
<1>10. SharesPlain'
  BY <1>1, <1>2 DEF Basics, SharesPlain, Listed, database
<1>11. QED BY <1>3, <1>4, <1>5, <1>6, <1>7, <1>8, <1>9, <1>10 DEF Basics

LEMMA SelectBasics ==
    ASSUME Basics, NEW w \in Workspaces, Select(w)
    PROVE  Basics'
<1>1. /\ selected' = w /\ loading' = TRUE /\ load' = TRUE
      /\ refetches' = 0 /\ events' = 0 /\ answers' = Cancelled(answers)
      /\ UNCHANGED <<panel, database, shown, appended, astray, asked>>
      /\ busy' \subseteq busy
  BY DEF Select, Turned, RowsRest
<1> DEFINE b == [j \in 1..Len(answers') |-> j]
<1>2. /\ answers' \in Seq(Answer) /\ Len(answers') = Len(answers)
      /\ \A j \in 1..Len(answers) :
            answers'[j] = IF answers[j].op = "change" THEN answers[j] ELSE Ignored
  BY <1>1, CancelledAnswers DEF Basics, TypeOK
<1>3. Muted(b)
  BY <1>2 DEF Muted, Ignored
<1>4. astray' \in BOOLEAN
  BY <1>1 DEF Basics, TypeOK
<1> HIDE DEF b
<1>5. QED BY <1>1, <1>3, <1>4, TurnedBasics

LEMMA ArriveIgnoredBasics ==
    ASSUME Basics, NEW i \in 1..Len(answers), ArriveIgnored(i)
    PROVE  Basics'
<1>1. /\ answers[i].op = "ignored"
      /\ UNCHANGED <<panel, database, selected, busy, list, load, stream, asked>>
  BY DEF ArriveIgnored
<1>2. /\ answers' \in Seq(Answer) /\ Len(answers') = Len(answers) - 1
      /\ \A j \in 1..Len(answers') : answers'[j] = answers[Before(i, j)]
  BY ArriveIgnoredLeaves DEF Basics
<1>3. Len(answers) \in Nat
  BY Typed
<1>4. /\ \A j \in 1..Len(answers') : Before(i, j) \in 1..Len(answers)
      /\ \A j, k \in 1..Len(answers') : j # k => Before(i, j) # Before(i, k)
      /\ \A m \in 1..Len(answers) : m # i => \E j \in 1..Len(answers') : Before(i, j) = m
  <2> DEFINE n == Len(answers)
  <2>1. n \in Nat /\ i \in 1..n /\ Len(answers') = n - 1
    BY <1>2, <1>3
  <2> HIDE DEF n
  <2>2. Shifts(n, i)
    BY <2>1, BeforeShifts
  <2>3. QED BY <2>1, <2>2 DEF n, Shifts
<1>6. TypeOK'
  <2>1. (\E m \in 1..Len(answers) : answers[m].op = "load")
           <=> \E j \in 1..Len(answers') : answers'[j].op = "load"
    <3>1. ASSUME NEW m \in 1..Len(answers), answers[m].op = "load"
          PROVE  \E j \in 1..Len(answers') : answers'[j].op = "load"
      <4>1. m # i
        BY <1>1, <3>1
      <4>2. PICK j \in 1..Len(answers') : Before(i, j) = m
        BY <1>4, <4>1
      <4>3. QED BY <1>2, <3>1, <4>2
    <3>2. ASSUME NEW j \in 1..Len(answers'), answers'[j].op = "load"
          PROVE  \E m \in 1..Len(answers) : answers[m].op = "load"
      BY <1>2, <1>4, <3>2
    <3>3. QED BY <3>1, <3>2
  <2>2. (loading = (load \/ \E m \in 1..Len(answers) : answers[m].op = "load"))'
    BY <1>1, <2>1 DEF Basics, TypeOK, list
  <2>3. Keyed(rows)'
    BY <1>1 DEF Basics, TypeOK, Keyed, database
  <2>4. QED BY <1>1, <1>2, <2>2, <2>3 DEF Basics, TypeOK, database, list, stream
<1>7. NoForeignRows' /\ ListedOnce'
  BY <1>1 DEF Basics, NoForeignRows, ListedOnce, Listed, Copies, list
<1>8. /\ (\A c \in asked : Sound(c))'
      /\ (\A j \in 1..Len(answers) : Fits(answers[j]))'
  <2>1. (\A c \in asked : Sound(c))'
    BY <1>1 DEF Basics, Sound
  <2>2. ASSUME NEW j \in 1..Len(answers') PROVE Fits(answers[j])'
    <3>1. answers'[j] = answers[Before(i, j)] /\ Fits(answers[Before(i, j)])
      BY <1>2, <1>4 DEF Basics
    <3>2. QED BY <1>1, <3>1 DEF Fits, Sound, Keyed
  <2>3. QED BY <2>1, <2>2
<1>9. Fresh'
  <2>1. SUFFICES ASSUME panel = "todos", NEW j \in 1..Len(answers'), Created(answers'[j]),
                        NEW r \in answers'[j].rows
                 PROVE  /\ r.key \in born /\ \A n \in appended : n[2] # r.key
                        /\ \A k \in 1..Len(answers') : k # j /\ Created(answers'[k]) =>
                              \A s \in answers'[k].rows : s.key # r.key
    BY <1>1 DEF Basics, Fresh, database, list
  <2>2. Fresh /\ Created(answers[Before(i, j)]) /\ r \in answers[Before(i, j)].rows
    BY <1>2, <2>1 DEF Basics, Created
  <2>3. /\ r.key \in born /\ \A n \in appended : n[2] # r.key
        /\ \A m \in 1..Len(answers) : m # Before(i, j) /\ Created(answers[m]) =>
              \A s \in answers[m].rows : s.key # r.key
    BY <1>4, <2>1, <2>2 DEF Fresh
  <2>4. ASSUME NEW k \in 1..Len(answers'), k # j, Created(answers'[k]),
               NEW s \in answers'[k].rows
        PROVE  s.key # r.key
    <3>1. /\ Before(i, k) \in 1..Len(answers) /\ Before(i, k) # Before(i, j)
          /\ answers'[k] = answers[Before(i, k)]
      BY <1>2, <1>4, <2>1, <2>4
    <3>2. Created(answers[Before(i, k)]) /\ s \in answers[Before(i, k)].rows
      BY <2>4, <3>1 DEF Created
    <3>3. QED BY <2>3, <3>1, <3>2
  <2>5. QED BY <2>3, <2>4
<1>10. OneLoad' /\ SharesPlain'
  <2>1. ASSUME NEW j \in 1..Len(answers'), answers'[j].op = "load"
        PROVE  ~load /\ \A k \in 1..Len(answers') : answers'[k].op = "load" => k = j
    <3>1. /\ ~load
          /\ \A m \in 1..Len(answers) : answers[m].op = "load" => m = Before(i, j)
      BY <1>2, <1>4, <2>1 DEF Basics, OneLoad
    <3>2. ASSUME NEW k \in 1..Len(answers'), answers'[k].op = "load" PROVE k = j
      <4>1. Before(i, k) = Before(i, j)
        BY <1>2, <1>4, <3>1, <3>2
      <4>2. QED BY <1>4, <4>1
    <3>3. QED BY <3>1, <3>2
  <2>2. SharesPlain'
    BY <1>1 DEF Basics, SharesPlain, Listed, database, stream, list
  <2>3. OneLoad'
    BY <1>1, <2>1 DEF OneLoad
  <2>4. QED BY <2>2, <2>3
<1>11. QED BY <1>6, <1>7, <1>8, <1>9, <1>10 DEF Basics

-----------------------------------------------------------------------------
(* Answers served *)

LEMMA RespondBasics ==
    ASSUME Basics, UNCHANGED <<panel, selected, busy, list>>, Tables', born \subseteq born',
           refetches' \in Nat, events' \in Nat, panel = "shares" => refetches' + events' = 0,
           asked' \subseteq asked,
           NEW op \in {"load", "refetch", "change"}, NEW ok \in BOOLEAN,
           NEW rs \in SUBSET Row, NEW c \in Change \cup {NoChange}, Respond(op, ok, rs, c),
           IF op = "load" THEN load /\ ~load' ELSE load' = load, load' \in BOOLEAN,
           Fits([op |-> op, ok |-> ok, rows |-> rs, change |-> c, late |-> FALSE]),
           panel = "todos" /\ op = "change" /\ ok /\ c.op = "create" =>
               \A r \in rs : r.key \in born' \ born /\ \A s \in rs : s.key = r.key
    PROVE  Basics'
<1> DEFINE n == Len(answers)
           a == [op |-> op, ok |-> ok, rows |-> rs, change |-> c, late |-> FALSE]
<1>1. /\ answers' \in Seq(Answer) /\ Len(answers') = n + 1
      /\ \A j \in 1..n : answers'[j] = answers[j]
      /\ answers'[n + 1].op = op /\ answers'[n + 1].ok = ok
      /\ answers'[n + 1].rows = rs /\ answers'[n + 1].change = c
  <2>1. a \in Answer /\ answers' = Append(answers, a) /\ TypeOK
    BY DEF Respond, Answer, Basics
  <2>2. a.op = op /\ a.ok = ok /\ a.rows = rs /\ a.change = c
    OBVIOUS
  <2> HIDE DEF a
  <2>3. /\ answers' \in Seq(Answer) /\ Len(answers') = Len(answers) + 1
        /\ \A j \in 1..Len(answers) : answers'[j] = answers[j]
        /\ answers'[Len(answers) + 1] = a
    BY <2>1, AppendLeaves
  <2>4. QED BY <2>2, <2>3
<1>2. n \in Nat /\ 1..(n + 1) = 1..n \cup {n + 1} /\ n + 1 \notin 1..n
  <2>1. n \in Nat
    BY Typed
  <2> HIDE DEF n
  <2>2. QED BY <2>1, OneMore
<1>3. TypeOK'
  <2>1. loading = (load \/ \E j \in 1..n : answers[j].op = "load")
    BY DEF Basics, TypeOK
  <2>2. (\E j \in 1..(n + 1) : answers'[j].op = "load")
           <=> (op = "load" \/ \E j \in 1..n : answers[j].op = "load")
    BY <1>1, <1>2
  <2>3. (loading = (load \/ \E j \in 1..Len(answers) : answers[j].op = "load"))'
    BY <1>1, <2>1, <2>2 DEF list
  <2>4. /\ Keyed(rows)' /\ rows' \subseteq Row /\ born' \subseteq Keys
        /\ alive' \subseteq Workspaces
    BY DEF Tables
  <2>5. {refetches', events'} \subseteq Nat
    OBVIOUS
  <2>6. QED BY <1>1, <2>3, <2>4, <2>5 DEF Basics, TypeOK, list
<1>4. NoForeignRows' /\ ListedOnce'
  BY DEF Basics, NoForeignRows, ListedOnce, Listed, Copies, list
<1>5. (\A b \in asked : Sound(b))'
  BY DEF Basics, Sound
<1>6. ASSUME NEW j \in 1..Len(answers') PROVE Fits(answers[j])'
  <2>1. CASE j \in 1..n
    <3>1. answers'[j] = answers[j] /\ Fits(answers[j])
      BY <1>1, <2>1 DEF Basics
    <3>2. QED BY <3>1 DEF Fits, Sound, Keyed, IsList
  <2>2. CASE j = n + 1
    <3>1. /\ answers'[j].op = a.op /\ answers'[j].ok = a.ok
          /\ answers'[j].rows = a.rows /\ answers'[j].change = a.change
      BY <1>1, <2>2
    <3>2. Fits(a)
      OBVIOUS
    <3> HIDE DEF a
    <3>3. QED BY <3>1, <3>2 DEF Fits, Sound, Keyed, IsList
  <2>3. QED BY <1>1, <1>2, <2>1, <2>2
<1>7. Fresh'
  <2>1. CASE panel = "todos"
    <3> DEFINE New(r) == r.key \in born' \ born
    <3>1. Fresh
      BY DEF Basics
    <3>2. Created(answers'[n + 1]) => \A r \in answers'[n + 1].rows :
                                          /\ New(r)
                                          /\ \A s \in answers'[n + 1].rows : s.key = r.key
      BY <1>1, <2>1 DEF Created
    <3>3. \A j \in 1..n :
             Created(answers'[j]) => answers'[j] = answers[j] /\ Created(answers[j])
      BY <1>1
    <3>4. \A m \in appended : m[2] \in born
      BY <2>1, <3>1 DEF Fresh
    <3>5. \A j \in 1..n : Created(answers[j]) => \A r \in answers[j].rows : r.key \in born
      BY <2>1, <3>1 DEF Fresh
    <3>6. /\ (\A r \in rows : r.key \in born)' /\ (\A m \in appended : m[2] \in born)'
      BY <2>1, <3>4 DEF Tables, list
    <3>7. ASSUME NEW i \in 1..Len(answers'), Created(answers'[i]), NEW r \in answers'[i].rows
          PROVE  /\ r.key \in born' /\ \A m \in appended' : m[2] # r.key
                 /\ \A j \in 1..Len(answers') : j # i /\ Created(answers'[j]) =>
                       \A s \in answers'[j].rows : s.key # r.key
      <4>1. CASE i = n + 1
        <5>1. r.key \in born' \ born
          BY <3>2, <3>7, <4>1
        <5>2. appended' = appended
          BY DEF list
        <5>3. \A j \in 1..n : Created(answers'[j]) => \A s \in answers'[j].rows : s.key # r.key
          BY <3>3, <3>5, <5>1
        <5>4. QED BY <1>1, <1>2, <3>4, <4>1, <5>1, <5>2, <5>3
      <4>2. CASE i \in 1..n
        <5>1. answers'[i] = answers[i] /\ Created(answers[i]) /\ r \in answers[i].rows
          BY <3>3, <3>7, <4>2
        <5>2. r.key \in born /\ \A m \in appended : m[2] # r.key
          BY <2>1, <3>1, <4>2, <5>1 DEF Fresh
        <5>3. \A j \in 1..n : j # i /\ Created(answers[j]) =>
                 \A s \in answers[j].rows : s.key # r.key
          BY <2>1, <3>1, <4>2, <5>1 DEF Fresh
        <5>4. Created(answers'[n + 1]) => \A s \in answers'[n + 1].rows : s.key # r.key
          BY <3>2, <5>2
        <5>5. appended' = appended
          BY DEF list
        <5>6. \A j \in 1..n : j # i /\ Created(answers'[j]) =>
                 \A s \in answers'[j].rows : s.key # r.key
          BY <3>3, <5>3
        <5>7. \A j \in 1..Len(answers') : j \in 1..n \/ j = n + 1
          BY <1>1, <1>2
        <5>8. r.key \in born'
          BY <1>1, <1>2, <5>2
        <5>9. QED BY <5>2, <5>4, <5>5, <5>6, <5>7, <5>8
      <4>3. QED BY <1>1, <1>2, <3>7, <4>1, <4>2
    <3>8. QED BY <3>6, <3>7 DEF Fresh
  <2>2. QED BY <2>1 DEF Fresh
<1>8. OneLoad'
  <2>1. OneLoad
    BY DEF Basics
  <2>2. CASE op = "load"
    <3>1. load /\ ~load'
      BY <2>2
    <3>2. \A j \in 1..n : answers'[j].op # "load"
      BY <1>1, <2>1, <3>1 DEF OneLoad
    <3>3. QED BY <1>1, <1>2, <3>1, <3>2 DEF OneLoad
  <2>3. CASE op # "load"
    <3>1. load' = load
      BY <2>3
    <3>2. ASSUME NEW j \in 1..Len(answers'), answers'[j].op = "load"
          PROVE  j \in 1..n /\ answers[j].op = "load"
      BY <1>1, <1>2, <2>3, <3>2
    <3>3. QED BY <2>1, <3>1, <3>2 DEF OneLoad
  <2>4. QED BY <2>2, <2>3
<1>9. SharesPlain'
  BY DEF Basics, SharesPlain, Tables, Listed, list
<1>10. QED BY <1>3, <1>4, <1>5, <1>6, <1>7, <1>8, <1>9 DEF Basics

\* What a load or refetch has read fits.
LEMMA ReadFits ==
    ASSUME Basics, NEW op \in {"load", "refetch"}, NEW ok \in BOOLEAN,
           NEW rs, rs \in {{}, Contents(selected)}
    PROVE  Fits([op |-> op, ok |-> ok, rows |-> rs, change |-> NoChange, late |-> FALSE])
<1>1. rs \subseteq rows /\ \A r \in rs : r.workspace = selected
  BY DEF Contents
<1>2. Keyed(rs) /\ (panel = "shares" => \A r \in rs : ~r.done)
  BY <1>1 DEF Basics, TypeOK, Keyed, SharesPlain
<1>3. QED BY <1>1, <1>2 DEF Fits, IsList

LEMMA ServeLoadBasics ==
    ASSUME Basics, ServeLoad
    PROVE  Basics'
<1>1. /\ load /\ load' = FALSE
      /\ UNCHANGED <<panel, database, selected, busy, list, stream, asked>>
  BY DEF ServeLoad
<1>2. PICK ok \in BOOLEAN, rs \in {{}, Contents(selected)} : Respond("load", ok, rs, NoChange)
  BY DEF ServeLoad
<1>3. Tables' /\ born' = born /\ rs \in SUBSET Row
  BY <1>1, BasicsTables, Typed DEF Tables, Keyed, database, Contents
<1>4. refetches' \in Nat /\ events' \in Nat /\ (panel = "shares" => refetches' + events' = 0)
  BY <1>1 DEF Basics, TypeOK, SharesPlain, stream
<1>5. Fits([op |-> "load", ok |-> ok, rows |-> rs, change |-> NoChange, late |-> FALSE])
  BY ReadFits
<1>6. QED BY <1>1, <1>2, <1>3, <1>4, <1>5, RespondBasics

LEMMA ServeRefetchBasics ==
    ASSUME Basics, ServeRefetch
    PROVE  Basics'
<1>1. /\ refetches > 0 /\ refetches' = refetches - 1
      /\ UNCHANGED <<panel, database, selected, busy, list, load, events, asked>>
  BY DEF ServeRefetch
<1>2. PICK ok \in BOOLEAN, rs \in {{}, Contents(selected)} :
         Respond("refetch", ok, rs, NoChange)
  BY DEF ServeRefetch
<1>3. Tables' /\ born' = born /\ rs \in SUBSET Row
  BY <1>1, BasicsTables, Typed DEF Tables, Keyed, database, Contents
<1>4. /\ refetches' \in Nat /\ events' \in Nat /\ load' \in BOOLEAN
      /\ panel = "shares" => refetches' + events' = 0
  BY <1>1 DEF Basics, TypeOK, SharesPlain
<1>5. Fits([op |-> "refetch", ok |-> ok, rows |-> rs, change |-> NoChange, late |-> FALSE])
  BY ReadFits
<1>6. QED BY <1>1, <1>2, <1>3, <1>4, <1>5, RespondBasics

\* What a change of this panel has come to.
LEMMA ServeChangeCases ==
    ASSUME Basics, ServeChange
    PROVE  \E c \in asked, ok \in BOOLEAN, rs \in SUBSET Row :
               /\ asked' = asked \ {c} /\ c \in Change /\ Sound(c)
               /\ Respond("change", ok, rs, c)
               /\ \/ \E d \in Changes(c) : Commit(c, d) /\ (ok => rs = d.new)
                  \/ ~ok /\ UNCHANGED <<database, events>>
               /\ ~ok => rs = {}
<1>1. PICK c \in asked :
         /\ asked' = asked \ {c}
         /\ \/ \E d \in Changes(c) :
                 /\ Commit(c, d)
                 /\ Respond("change", TRUE, d.new, c) \/ Respond("change", FALSE, {}, c)
            \/ Respond("change", FALSE, {}, c) /\ UNCHANGED <<database, events>>
  BY DEF ServeChange
<1>2. c \in Change /\ Sound(c)
  BY DEF Basics, TypeOK
<1>3. \A d \in Changes(c) : d.new \in SUBSET Row
  BY <1>2, ChangeShape DEF Basics
<1>4. CASE \E d \in Changes(c) : Commit(c, d) /\ Respond("change", TRUE, d.new, c)
  BY <1>1, <1>2, <1>3, <1>4
<1>5. CASE \E d \in Changes(c) : Commit(c, d) /\ Respond("change", FALSE, {}, c)
  <2>1. \E d \in Changes(c) : Commit(c, d) /\ (FALSE => {} = d.new)
    BY <1>5
  <2>2. Respond("change", FALSE, {}, c) /\ {} \in SUBSET Row /\ FALSE \in BOOLEAN
    BY <1>5
  <2>3. QED BY <1>1, <1>2, <2>1, <2>2
<1>6. CASE Respond("change", FALSE, {}, c) /\ UNCHANGED <<database, events>>
  <2>1. ~FALSE /\ UNCHANGED <<database, events>>
    BY <1>6
  <2>2. Respond("change", FALSE, {}, c) /\ {} \in SUBSET Row /\ FALSE \in BOOLEAN
    BY <1>6
  <2>3. QED BY <1>1, <1>2, <2>1, <2>2
<1>7. QED BY <1>1, <1>4, <1>5, <1>6

LEMMA ServeChangeBasics ==
    ASSUME Basics, ServeChange
    PROVE  Basics'
<1>1. UNCHANGED <<panel, selected, busy, list, load, refetches>>
  BY DEF ServeChange
<1>2. PICK c \in asked, ok \in BOOLEAN, rs \in SUBSET Row :
         /\ asked' = asked \ {c} /\ c \in Change /\ Sound(c)
         /\ Respond("change", ok, rs, c)
         /\ \/ \E d \in Changes(c) : Commit(c, d) /\ (ok => rs = d.new)
            \/ ~ok /\ UNCHANGED <<database, events>>
         /\ ~ok => rs = {}
  BY ServeChangeCases
<1> DEFINE a == [op |-> "change", ok |-> ok, rows |-> rs, change |-> c, late |-> FALSE]
<1>3. refetches' \in Nat /\ load' \in BOOLEAN
  BY <1>1 DEF Basics, TypeOK
<1>4. CASE ~ok /\ UNCHANGED <<database, events>>
  <2>1. Tables' /\ born' = born
    BY <1>1, <1>4, BasicsTables DEF Tables, Keyed, database
  <2>2. events' \in Nat /\ (panel = "shares" => refetches' + events' = 0)
    BY <1>1, <1>4 DEF Basics, TypeOK, SharesPlain
  <2>3. Fits(a)
    BY <1>2, <1>4 DEF Fits, IsList
  <2>4. QED BY <1>1, <1>2, <1>3, <1>4, <2>1, <2>2, <2>3, RespondBasics
<1>5. ASSUME NEW d \in Changes(c), Commit(c, d), ok => rs = d.new
      PROVE  Basics'
  <2>1. /\ Tables' /\ born \subseteq born' /\ events' \in Nat
        /\ \A r \in d.new : r.key \in born'
        /\ panel = "shares" => events' = events
    BY <1>1, <1>2, <1>5, BasicsTables, CommitTables DEF Basics
  <2>2. panel = "shares" => refetches' + events' = 0
    BY <1>1, <2>1 DEF Basics, SharesPlain
  <2>3. c.op = "create" /\ ok =>
           \E r \in Row : /\ rs = {r} /\ r.workspace = c.workspace /\ ~r.done
                          /\ panel = "todos" => r.key \in born' \ born
                          /\ panel = "shares" => r.key = c.key
    BY <1>2, <1>5, <2>1, ChangeShape DEF Basics
  <2>4. c.op = "update" /\ ok => \E r \in Row : rs = {r} /\ r.key = c.key
    BY <1>2, <1>5, ChangeShape DEF Basics
  <2>5. Fits(a)
    BY <1>2, <2>3, <2>4, Typed DEF Fits, IsList
  <2>6. panel = "todos" /\ ok /\ c.op = "create" =>
           \A r \in rs : r.key \in born' \ born /\ \A s \in rs : s.key = r.key
    BY <2>3
  <2> HIDE DEF a
  <2>7. QED BY <1>1, <1>2, <1>3, <2>1, <2>2, <2>5, <2>6, RespondBasics DEF a
<1>6. QED BY <1>2, <1>4, <1>5

-----------------------------------------------------------------------------
(* Answers that arrive *)

LEMMA Copied ==
    ASSUME TypeOK, NEW r \in Row
    PROVE  Copies(r) = shown[r] + shown[Twin(r)] /\ shown[r] \in Nat /\ shown[Twin(r)] \in Nat
BY Twins DEF Copies, Twin, TypeOK

LEMMA EditedList ==
    ASSUME Basics, NEW i \in 1..Len(answers), answers[i].op = "change",
           ~(answers[i].ok /\ Departs(answers[i].change))
    PROVE  LET a == answers[i]
               k == a.change.key
               next == Edited(a)
           IN
           /\ next \in [Row -> Nat]
           /\ \/ ~a.ok /\ next = shown
              \/ /\ a.ok /\ a.change.op = "create"
                 /\ \E row \in Row :
                       /\ a.rows = {row}
                       /\ row.workspace = a.change.workspace /\ ~row.done
                       /\ panel = "shares" => row.key = k
                       /\ \A r \in Row :
                             next[r] = IF r = row THEN shown[r] + Adds(row) ELSE shown[r]
              \/ /\ a.ok /\ a.change.op = "update" /\ panel = "todos"
                 /\ \E row \in Row :
                       /\ a.rows = {row} /\ row.key = k
                       /\ \A r \in Row :
                             next[r] = IF r.key # k THEN shown[r]
                                       ELSE IF r = row THEN Copies(r) ELSE 0
              \/ /\ a.ok /\ a.change.op = "remove"
                 /\ \A r \in Row : next[r] = IF r.key # k THEN shown[r] ELSE 0
<1> DEFINE a == answers[i]
           k == a.change.key
           next == Edited(a)
           row == CHOOSE r \in a.rows : TRUE
<1>1. /\ a \in Answer /\ Fits(a) /\ a.ok \in BOOLEAN
      /\ shown \in [Row -> Nat] /\ panel \in {"todos", "shares"}
  BY Typed, AnswerFields
<1>2. /\ a.change \in Change /\ Sound(a.change)
      /\ a.ok => a.change.op \in {"create", "update", "remove"}
  BY <1>1 DEF Fits, Change, Departs
<1>3. CASE ~a.ok
  <2>1. next = shown
    BY <1>3 DEF Edited
  <2>2. QED BY <1>1, <1>3, <2>1
<1>4. CASE a.ok /\ a.change.op = "create"
  <2>1. PICK r \in Row : /\ a.rows = {r} /\ r.workspace = a.change.workspace /\ ~r.done
                         /\ panel = "shares" => r.key = k
    BY <1>1, <1>4 DEF Fits
  <2>2. row = r
    BY <2>1
  <2>3. next = [shown EXCEPT ![row] = @ + Adds(row)]
    BY <1>4 DEF Edited
  <2>4. Adds(r) \in Nat
    BY DEF Adds
  <2> HIDE DEF row, next, a
  <2>5. next = [shown EXCEPT ![r] = shown[r] + Adds(r)]
    BY <2>2, <2>3
  <2>6. /\ next \in [Row -> Nat]
        /\ \A q \in Row : next[q] = IF q = r THEN shown[q] + Adds(r) ELSE shown[q]
    BY <1>1, <2>4, <2>5
  <2>7. QED BY <1>4, <2>1, <2>6 DEF a, next
<1>5. CASE a.ok /\ a.change.op = "update"
  <2>1. PICK r \in Row : a.rows = {r} /\ r.key = k
    BY <1>1, <1>5 DEF Fits
  <2>2. row = r
    BY <2>1
  <2>3. next = [q \in Row |-> IF q.key # k THEN shown[q] ELSE IF q = row THEN Copies(q) ELSE 0]
    BY <1>5 DEF Edited
  <2>4. Copies(r) \in Nat
    BY Copied DEF Basics
  <2>5. panel = "todos"
    BY <1>2, <1>5 DEF Sound
  <2> HIDE DEF row, next, a
  <2>6. /\ next \in [Row -> Nat]
        /\ \A q \in Row : next[q] = IF q.key # k THEN shown[q]
                                    ELSE IF q = r THEN Copies(q) ELSE 0
    BY <1>1, <2>2, <2>3, <2>4
  <2>7. QED BY <1>5, <2>1, <2>5, <2>6 DEF a, next
<1>6. CASE a.ok /\ a.change.op = "remove"
  <2>1. next = [q \in Row |-> IF q.key # k THEN shown[q] ELSE 0]
    BY <1>6 DEF Edited
  <2> HIDE DEF next, a
  <2>2. /\ next \in [Row -> Nat]
        /\ \A q \in Row : next[q] = IF q.key # k THEN shown[q] ELSE 0
    BY <1>1, <2>1
  <2>3. QED BY <1>6, <2>2 DEF a, next
<1>7. QED BY <1>1, <1>2, <1>3, <1>4, <1>5, <1>6

\* An update that succeeded leaves its row in place of those with its key.
LEMMA EditedByUpdate ==
    ASSUME Basics, NEW i \in 1..Len(answers), answers[i].op = "change",
           answers[i].ok, answers[i].change.op = "update"
    PROVE  \E row \in Row : \A r \in Row :
              Edited(answers[i])[r] = IF r.key # answers[i].change.key THEN shown[r]
                                      ELSE IF r = row THEN Copies(r) ELSE 0
<1> DEFINE a == answers[i]
           next == Edited(a)
           Updated == \E row \in Row : \A r \in Row :
                         next[r] = IF r.key # a.change.key THEN shown[r]
                                   ELSE IF r = row THEN Copies(r) ELSE 0
<1>1. \/ ~a.ok
      \/ a.ok /\ a.change.op = "create"
      \/ Updated
      \/ a.ok /\ a.change.op = "remove"
  BY EditedList DEF Departs
<1> HIDE DEF Updated
<1>2. Updated
  BY <1>1
<1>3. QED BY <1>2 DEF Updated

\* A change of the collaborators adds one row or removes those with its key.
LEMMA EditedByOthers ==
    ASSUME Basics, NEW i \in 1..Len(answers), answers[i].op = "change",
           answers[i].ok, ~Departs(answers[i].change), panel = "shares"
    PROVE  LET a == answers[i] IN
           /\ a.change.op \in {"create", "remove"}
           /\ a.change.op = "create" =>
                 \E row \in Row :
                     /\ row.workspace = a.change.workspace /\ ~row.done
                     /\ row.key = a.change.key
                     /\ \A r \in Row :
                           Edited(a)[r] = IF r = row THEN shown[r] + Adds(row) ELSE shown[r]
           /\ a.change.op = "remove" =>
                 \A r \in Row : Edited(a)[r] = IF r.key # a.change.key THEN shown[r] ELSE 0
<1> DEFINE a == answers[i]
           next == Edited(a)
           Created1 == \E row \in Row :
                          /\ row.workspace = a.change.workspace /\ ~row.done
                          /\ row.key = a.change.key
                          /\ \A r \in Row :
                                next[r] = IF r = row THEN shown[r] + Adds(row) ELSE shown[r]
           Removed1 == \A r \in Row : next[r] = IF r.key # a.change.key THEN shown[r] ELSE 0
<1>1. \/ a.change.op = "create" /\ Created1
      \/ a.change.op = "remove" /\ Removed1
  BY EditedList
<1> HIDE DEF Created1, Removed1
<1>2. /\ a.change.op \in {"create", "remove"}
      /\ a.change.op = "create" => Created1
      /\ a.change.op = "remove" => Removed1
  BY <1>1
<1>3. QED BY <1>2 DEF Created1, Removed1

\* The rows an edited list has were listed before, but for one created.
LEMMA EditedRows ==
    ASSUME Basics, NEW i \in 1..Len(answers), answers[i].op = "change",
           ~(answers[i].ok /\ Departs(answers[i].change)),
           NEW r \in Row, Edited(answers[i])[r] > 0
    PROVE  \/ r \in Listed
           \/ panel = "todos" /\ \E s \in Listed : Name(s) = Name(r)
           \/ Created(answers[i]) /\ r \in answers[i].rows
<1> DEFINE a == answers[i]
<1>1. shown \in [Row -> Nat]
  BY Typed
<1>2. CASE shown[r] > 0
  BY <1>2 DEF Listed
<1>3. CASE shown[r] = 0
  <2>1. CASE a.ok /\ a.change.op = "create"
    <3>1. a.rows = {r}
      BY <1>3, <2>1, EditedList
    <3>2. QED BY <2>1, <3>1 DEF Created
  <2>2. CASE a.ok /\ a.change.op = "update"
    <3> DEFINE next == Edited(a)
    <3>1. PICK row \in Row :
             next[r] = IF r.key # a.change.key THEN shown[r]
                       ELSE IF r = row THEN Copies(r) ELSE 0
      BY <2>2, EditedList
    <3>2. next[r] > 0
      OBVIOUS
    <3> HIDE DEF next
    <3>3. next[r] = Copies(r)
      BY <1>3, <3>2, <3>1
    <3>4. Twin(r) \in Listed
      BY <1>3, <3>2, <3>3, Copied, Twins DEF Basics, Listed
    <3>5. panel = "todos"
      BY <2>2, EditedList
    <3>6. QED BY <3>4, <3>5, Twins
  <2>3. CASE ~(a.ok /\ a.change.op \in {"create", "update"})
    <3>1. Edited(a)[r] \in {shown[r], 0}
      BY <2>3, EditedList
    <3>2. QED BY <1>3, <3>1
  <2>4. QED BY <2>1, <2>2, <2>3
<1>4. QED BY <1>1, <1>2, <1>3

LEMMA ArriveChangeBasics ==
    ASSUME Basics, NEW i \in 1..Len(answers), ArriveChange(answers[i]),
           UNCHANGED <<panel, selected>>
    PROVE  /\ shown' \in [Row -> Nat] /\ NoForeignRows' /\ ListedOnce'
           /\ panel = "shares" => \A r \in Listed' : ~r.done
           /\ loading' = loading
           /\ busy' \subseteq busy /\ appended' \subseteq Workspaces \X Keys
           /\ \A n \in appended' :
                 \/ n \in appended
                 \/ Created(answers[i]) /\ \E r \in answers[i].rows : n = Name(r)
<1> DEFINE a == answers[i]
<1>1. /\ a.op = "change" /\ ~(a.ok /\ Departs(a.change))
      /\ shown' = Edited(a) /\ busy' = busy \ Marks(a.change)
      /\ appended' = IF a.change.op = "create"
                     THEN appended \cup {Name(r) : r \in a.rows} ELSE appended
      /\ loading' = loading
  BY DEF ArriveChange
<1>2. shown' \in [Row -> Nat]
  BY <1>1, EditedList
<1>3. /\ a \in Answer /\ a.rows \subseteq Row /\ Fits(a)
      /\ \A r \in Row : Name(r) \in Workspaces \X Keys
  BY Typed, AnswerFields DEF Name, Row
<1>4. appended' \subseteq Workspaces \X Keys
  BY <1>1, <1>3 DEF Basics, TypeOK
<1>5. \A n \in appended' :
         n \in appended \/ (Created(a) /\ \E r \in a.rows : n = Name(r))
  <2>1. SUFFICES ASSUME NEW n \in appended', n \notin appended
                 PROVE  Created(a) /\ \E r \in a.rows : n = Name(r)
    OBVIOUS
  <2>2. a.change.op = "create" /\ \E r \in a.rows : n = Name(r)
    BY <1>1, <2>1
  <2>3. CASE a.ok
    BY <1>1, <2>2, <2>3 DEF Created
  <2>4. CASE ~a.ok
    BY <1>1, <1>3, <2>2, <2>4 DEF Fits
  <2>5. QED BY <2>2, <2>3, <2>4
<1>6. appended \subseteq appended' /\ (Created(a) => \A r \in a.rows : Name(r) \in appended')
  BY <1>1 DEF Created
<1>7. NoForeignRows'
  <2>1. SUFFICES ASSUME ~loading', NEW r \in Row, shown'[r] > 0
                 PROVE  r.workspace = selected \/ Name(r) \in appended'
    BY DEF NoForeignRows, Listed
  <2>2. CASE Created(a) /\ r \in a.rows
    BY <1>6, <2>2
  <2>3. ASSUME NEW s \in Listed, Name(s) = Name(r)
        PROVE  r.workspace = selected \/ Name(r) \in appended'
    <3>1. s.workspace = selected \/ Name(s) \in appended
      BY <1>1, <2>1, <2>3 DEF Basics, NoForeignRows
    <3>2. s.workspace = r.workspace
      BY <2>3 DEF Name
    <3>3. QED BY <1>6, <2>3, <3>1, <3>2
  <2>4. QED BY <1>1, <2>1, <2>2, <2>3, EditedRows
<1>8. ListedOnce'
  <2>1. SUFFICES ASSUME NEW r \in Row
                 PROVE  Copies(r)' <= IF panel = "todos" /\ Name(r) \in appended' THEN 2 ELSE 1
    BY DEF ListedOnce
  <2> DEFINE t == Twin(r)
  <2>2. /\ t \in Row /\ t # r /\ Twin(t) = r /\ Name(t) = Name(r) /\ t.key = r.key
        /\ Copies(r) = shown[r] + shown[t] /\ shown[r] \in Nat /\ shown[t] \in Nat
        /\ \A s \in Row : Name(s) = Name(r) <=> s \in {r, t}
    BY Twins, Copied DEF Basics
  <2>3. Copies(r)' = shown'[r] + shown'[t]
    BY DEF Copies, Twin
  <2>4. shown'[r] \in Nat /\ shown'[t] \in Nat
    BY <1>2, <2>2
  <2>5. Copies(r) <= IF panel = "todos" /\ Name(r) \in appended THEN 2 ELSE 1
    BY DEF Basics, ListedOnce
  <2> HIDE DEF t
  <2>5a. shown'[r] + shown'[t] <= shown[r] + shown[t] =>
            Copies(r)' <= IF panel = "todos" /\ Name(r) \in appended' THEN 2 ELSE 1
    <3>1. Name(r) \in appended => Name(r) \in appended'
      BY <1>6
    <3>2. shown'[r] + shown'[t] <= shown[r] + shown[t] => Copies(r)' <= Copies(r)
      BY <2>2, <2>3
    <3>3. Copies(r) \in Nat /\ Copies(r)' \in Nat
      <4>1. Copies(r) \in Nat
        BY <2>2
      <4>2. Copies(r)' \in Nat
        BY <2>3, <2>4
      <4>3. QED BY <4>1, <4>2
    <3>4. QED BY <2>5, <3>1, <3>2, <3>3
  <2>6. CASE ~a.ok
    <3>1. shown' = shown
      BY <1>1, <2>6, EditedList
    <3>2. QED BY <1>6, <2>2, <2>3, <2>5, <3>1
  <2>7. CASE a.ok /\ a.change.op = "create"
    <3>1. PICK row \in Row :
             /\ a.rows = {row}
             /\ \A q \in Row : shown'[q] = IF q = row THEN shown[q] + Adds(row) ELSE shown[q]
      BY <1>1, <2>7, EditedList
    <3>2. Created(a)
      BY <1>1, <2>7 DEF Created
    <3>3. CASE row \notin {r, t}
      <4>1. shown'[r] = shown[r] /\ shown'[t] = shown[t]
        BY <2>2, <3>1, <3>3
      <4>2. QED BY <2>2, <2>5a, <4>1
    <3>4. CASE row \in {r, t} /\ panel = "todos"
      <4>1. Name(r) \in appended'
        BY <1>6, <2>2, <3>1, <3>2, <3>4
      <4>2. \A n \in appended : n[2] # row.key
        BY <3>1, <3>2, <3>4 DEF Basics, Fresh
      <4>3. Name(r) \notin appended
        BY <2>2, <3>4, <4>2 DEF Name
      <4>4. Copies(r) <= 1 /\ Adds(row) = 1
        BY <2>5, <3>4, <4>3 DEF Adds
      <4>5. \/ shown'[r] = shown[r] + 1 /\ shown'[t] = shown[t]
            \/ shown'[t] = shown[t] + 1 /\ shown'[r] = shown[r]
        <5>1. t # r
          BY <2>2
        <5>2. QED BY <2>2, <3>1, <3>4, <4>4, <5>1
      <4>6. shown'[r] + shown'[t] = shown[r] + shown[t] + 1
        <5>1. shown[r] \in Nat /\ shown[t] \in Nat
          BY <2>2
        <5>2. QED BY <4>5, <5>1
      <4>7. QED BY <2>2, <2>3, <3>4, <4>1, <4>4, <4>6
    <3>5. CASE row \in {r, t} /\ panel = "shares"
      <4>1. CASE \E s \in Listed : Name(s) = Name(row)
        <5>1. Adds(row) = 0
          BY <3>5, <4>1 DEF Adds
        <5>2. shown'[r] = shown[r] /\ shown'[t] = shown[t]
          BY <2>2, <3>1, <5>1
        <5>3. QED BY <1>6, <2>2, <2>3, <2>5, <3>5, <5>2
      <4>2. CASE ~\E s \in Listed : Name(s) = Name(row)
        <5>1. Adds(row) = 1
          BY <3>5, <4>2 DEF Adds
        <5>2. r \notin Listed /\ t \notin Listed
          BY <2>2, <3>5, <4>2
        <5>3. shown[r] = 0 /\ shown[t] = 0
          BY <2>2, <5>2 DEF Listed
        <5>4. shown'[r] + shown'[t] = 1
          BY <2>2, <3>1, <3>5, <5>1, <5>3
        <5>5. QED BY <2>3, <5>4
      <4>3. QED BY <4>1, <4>2
    <3>6. QED BY <3>3, <3>4, <3>5, Typed
  <2>8. CASE a.ok /\ a.change.op = "update"
    <3>1. PICK row \in Row :
             \A q \in Row : shown'[q] = IF q.key # a.change.key THEN shown[q]
                                        ELSE IF q = row THEN Copies(q) ELSE 0
      BY <1>1, <2>8, EditedByUpdate
    <3>2. Copies(t) = shown[r] + shown[t]
      BY <2>2, Copied DEF Basics
    <3>3. shown'[r] + shown'[t] <= shown[r] + shown[t]
      <4>1. CASE r.key # a.change.key
        <5>1. shown'[r] = shown[r] /\ shown'[t] = shown[t]
          BY <2>2, <3>1, <4>1
        <5>2. QED BY <2>2, <5>1
      <4>2. CASE r.key = a.change.key
        <5>1. /\ shown'[r] = IF r = row THEN Copies(r) ELSE 0
              /\ shown'[t] = IF t = row THEN Copies(t) ELSE 0
          BY <2>2, <3>1, <4>2
        <5>2. QED BY <2>2, <3>2, <5>1
      <4>3. QED BY <4>1, <4>2
    <3>4. QED BY <2>5a, <3>3
  <2>9. CASE a.ok /\ a.change.op = "remove"
    <3>1. \A q \in Row : shown'[q] = IF q.key # a.change.key THEN shown[q] ELSE 0
      BY <1>1, <2>9, EditedList
    <3>2. shown'[r] + shown'[t] <= shown[r] + shown[t]
      BY <2>2, <3>1
    <3>3. QED BY <2>5a, <3>2
  <2>10. QED BY <1>1, <2>6, <2>7, <2>8, <2>9, EditedList
<1>9. ASSUME panel = "shares", NEW r \in Listed' PROVE ~r.done
  <2>1. r \in Row /\ Edited(a)[r] > 0
    BY <1>1, <1>9 DEF Listed
  <2>2. r \in Listed \/ (Created(a) /\ r \in a.rows)
    BY <1>1, <1>9, <2>1, EditedRows
  <2>3. Created(a) /\ r \in a.rows => ~r.done
    BY <1>3 DEF Fits, Created
  <2>4. QED BY <1>9, <2>2, <2>3 DEF Basics, SharesPlain
<1>10. QED BY <1>1, <1>2, <1>4, <1>5, <1>7, <1>8, <1>9

LEMMA ArriveListBasics ==
    ASSUME Basics, NEW i \in 1..Len(answers), ArriveList(answers[i]),
           UNCHANGED <<panel, selected>>
    PROVE  /\ shown' \in [Row -> Nat] /\ NoForeignRows' /\ ListedOnce'
           /\ panel = "shares" => \A r \in Listed' : ~r.done
           /\ loading' = (loading /\ answers[i].op # "load")
           /\ busy' \subseteq busy /\ appended' \subseteq appended
<1> DEFINE a == answers[i]
<1>1. /\ a.op \in {"load", "refetch"} /\ busy' = busy
      /\ loading' = (loading /\ a.op # "load")
      /\ \/ shown' = Once(a.rows) /\ appended' = {}
         \/ a.op # "load" /\ UNCHANGED <<shown, appended>>
  BY DEF ArriveList, Loaded
<1>2. a.rows \in SUBSET Row /\ Fits(a) /\ IsList(a)
  BY <1>1, Typed, AnswerFields DEF IsList
<1>3. CASE shown' = Once(a.rows) /\ appended' = {}
  <2>1. /\ shown' \in [Row -> Nat]
        /\ \A r \in Row : (shown'[r] > 0 <=> r \in a.rows) /\ shown'[r] <= 1
    BY <1>2, <1>3, OnceLists
  <2>2. NoForeignRows'
    BY <1>2, <2>1 DEF NoForeignRows, Listed, Fits
  <2>3. ListedOnce'
    <3>1. SUFFICES ASSUME NEW r \in Row PROVE Copies(r)' <= 1
      BY <1>3 DEF ListedOnce
    <3> DEFINE t == Twin(r)
    <3>2. t \in Row /\ t # r /\ t.key = r.key /\ Name(t) = Name(r)
      BY Twins
    <3>3. Copies(r)' = shown'[r] + shown'[t]
      BY DEF Copies, Twin
    <3> HIDE DEF t
    <3>4. ~(r \in a.rows /\ t \in a.rows)
      <4>1. t.workspace = r.workspace
        BY <3>2 DEF Name
      <4>2. QED BY <1>2, <3>2, <4>1 DEF Fits, Keyed
    <3>5. shown'[r] \in Nat /\ shown'[t] \in Nat
      BY <2>1, <3>2
    <3>6. QED BY <2>1, <3>2, <3>3, <3>4, <3>5
  <2>4. panel = "shares" => \A r \in Listed' : ~r.done
    BY <1>2, <2>1 DEF Listed, Fits
  <2>5. QED BY <1>1, <1>3, <2>1, <2>2, <2>3, <2>4
<1>4. CASE a.op # "load" /\ UNCHANGED <<shown, appended>>
  <2>1. loading' = loading
    BY <1>1, <1>4 DEF Basics, TypeOK
  <2>2. NoForeignRows' /\ ListedOnce'
    BY <1>4, <2>1 DEF Basics, NoForeignRows, ListedOnce, Listed, Copies
  <2>3. panel = "shares" => \A r \in Listed' : ~r.done
    BY <1>4 DEF Basics, SharesPlain, Listed
  <2>4. QED BY <1>1, <1>4, <2>2, <2>3, Typed
<1>5. QED BY <1>1, <1>3, <1>4

\* An answer has been taken out, and the list is in order.
LEMMA RestBasics ==
    ASSUME Basics, NEW i \in 1..Len(answers), answers' = Rest(i),
           UNCHANGED <<panel, database, selected, load, stream, asked>>, astray' \in BOOLEAN,
           shown' \in [Row -> Nat], NoForeignRows', ListedOnce',
           panel = "shares" => \A r \in Listed' : ~r.done,
           busy' \subseteq busy, appended' \subseteq Workspaces \X Keys,
           \A m \in appended' :
               m \in appended \/ (Created(answers[i]) /\ \E r \in answers[i].rows : m = Name(r)),
           loading' = (loading /\ answers[i].op # "load")
    PROVE  Basics'
<1> DEFINE n == Len(answers)
           a == answers[i]
<1>1. UNCHANGED <<panel, database, selected, load, stream, asked>> /\ astray' \in BOOLEAN
  OBVIOUS
<1>2. /\ n \in Nat /\ Len(answers') = n - 1 /\ answers' \in Seq(Answer)
      /\ \A j \in 1..Len(answers') :
            /\ answers'[j].op = answers[Before(i, j)].op
            /\ answers'[j].ok = answers[Before(i, j)].ok
            /\ answers'[j].rows = answers[Before(i, j)].rows
            /\ answers'[j].change = answers[Before(i, j)].change
  <2>1. TypeOK /\ n \in Nat
    BY Typed DEF Basics
  <2>2. QED BY <2>1, RestNext
<1>3. /\ \A j \in 1..Len(answers') : Before(i, j) \in 1..n /\ Before(i, j) # i
      /\ \A j, k \in 1..Len(answers') : j # k => Before(i, j) # Before(i, k)
      /\ \A m \in 1..n : m # i => \E j \in 1..Len(answers') : Before(i, j) = m
  <2>1. n \in Nat /\ i \in 1..n /\ Len(answers') = n - 1
    BY <1>2
  <2> HIDE DEF n
  <2>2. Shifts(n, i)
    BY <2>1, BeforeShifts
  <2>3. QED BY <2>1, <2>2 DEF Shifts
<1>5. /\ shown' \in [Row -> Nat] /\ NoForeignRows' /\ ListedOnce'
      /\ panel = "shares" => \A r \in Listed' : ~r.done
      /\ busy' \subseteq busy /\ appended' \subseteq Workspaces \X Keys
      /\ \A m \in appended' :
            m \in appended \/ (Created(a) /\ \E r \in a.rows : m = Name(r))
      /\ loading' = (loading /\ a.op # "load")
  OBVIOUS
<1>6. TypeOK'
  <2>1. (\E j \in 1..Len(answers') : answers'[j].op = "load")
           <=> \E m \in 1..n : m # i /\ answers[m].op = "load"
    <3>1. ASSUME NEW m \in 1..n, m # i, answers[m].op = "load"
          PROVE  \E j \in 1..Len(answers') : answers'[j].op = "load"
      <4>1. PICK j \in 1..Len(answers') : Before(i, j) = m
        BY <1>3, <3>1
      <4>2. QED BY <1>2, <3>1, <4>1
    <3>2. ASSUME NEW j \in 1..Len(answers'), answers'[j].op = "load"
          PROVE  \E m \in 1..n : m # i /\ answers[m].op = "load"
      <4>1. Before(i, j) \in 1..n /\ Before(i, j) # i
        BY <1>3
      <4>2. answers[Before(i, j)].op = "load"
        BY <1>2, <3>2
      <4>3. QED BY <4>1, <4>2
    <3>3. QED BY <3>1, <3>2
  <2>2. (load \/ \E m \in 1..n : m # i /\ answers[m].op = "load")
           <=> (loading /\ a.op # "load")
    <3>1. loading = (load \/ \E m \in 1..n : answers[m].op = "load")
      BY DEF Basics, TypeOK
    <3>2. CASE a.op = "load"
      <4>1. ~load /\ \A m \in 1..n : answers[m].op = "load" => m = i
        BY <3>2 DEF Basics, OneLoad
      <4>2. QED BY <3>2, <4>1
    <3>3. CASE a.op # "load"
      <4>1. (\E m \in 1..n : answers[m].op = "load")
               <=> \E m \in 1..n : m # i /\ answers[m].op = "load"
        BY <3>3
      <4>2. QED BY <3>1, <3>3, <4>1
    <3>4. QED BY <3>2, <3>3
  <2>3. (loading = (load \/ \E j \in 1..Len(answers) : answers[j].op = "load"))'
    BY <1>1, <1>5, <2>1, <2>2
  <2>4. Keyed(rows)'
    BY <1>1 DEF Basics, TypeOK, Keyed, database
  <2>5. QED BY <1>1, <1>2, <1>5, <2>3, <2>4 DEF Basics, TypeOK, database, stream
<1>7. (\A c \in asked : Sound(c))'
  BY <1>1 DEF Basics, Sound
<1>8. ASSUME NEW j \in 1..Len(answers') PROVE Fits(answers[j])'
  <2>1. Fits(answers[Before(i, j)])
    BY <1>3 DEF Basics
  <2>2. /\ answers'[j].op = answers[Before(i, j)].op
        /\ answers'[j].ok = answers[Before(i, j)].ok
        /\ answers'[j].rows = answers[Before(i, j)].rows
        /\ answers'[j].change = answers[Before(i, j)].change
    BY <1>2
  <2>3. panel' = panel /\ selected' = selected
    BY <1>1
  <2>4. QED BY <2>1, <2>2, <2>3 DEF Fits, Sound, Keyed, IsList
<1>9. Fresh'
  <2>1. SUFFICES ASSUME panel = "todos" PROVE Fresh'
    BY <1>1 DEF Fresh
  <2>2. Fresh /\ rows' = rows /\ born' = born
    BY <1>1 DEF Basics, database
  <2>3. \A m \in appended' : m[2] \in born
    BY <1>5, <2>1, <2>2 DEF Fresh, Name
  <2>4. ASSUME NEW j \in 1..Len(answers'), Created(answers'[j]), NEW r \in answers'[j].rows
        PROVE  /\ r.key \in born /\ \A m \in appended' : m[2] # r.key
               /\ \A k \in 1..Len(answers') : k # j /\ Created(answers'[k]) =>
                     \A s \in answers'[k].rows : s.key # r.key
    <3> DEFINE b == answers[Before(i, j)]
    <3>1. Created(b) /\ r \in b.rows /\ Before(i, j) \in 1..n /\ Before(i, j) # i
      BY <1>2, <1>3, <2>4 DEF Created
    <3>2. /\ r.key \in born /\ \A m \in appended : m[2] # r.key
          /\ \A k \in 1..n : k # Before(i, j) /\ Created(answers[k]) =>
                \A s \in answers[k].rows : s.key # r.key
      BY <2>1, <2>2, <3>1 DEF Fresh
    <3>3. \A m \in appended' : m[2] # r.key
      <4>1. SUFFICES ASSUME NEW m \in appended', m \notin appended PROVE m[2] # r.key
        BY <3>2
      <4>2. PICK q \in a.rows : Created(a) /\ m = Name(q)
        BY <1>5, <4>1
      <4>3. q.key # r.key
        BY <3>1, <3>2, <4>2
      <4>4. QED BY <4>2, <4>3 DEF Name
    <3>4. ASSUME NEW k \in 1..Len(answers'), k # j, Created(answers'[k]),
                 NEW s \in answers'[k].rows
          PROVE  s.key # r.key
      <4>1. /\ Before(i, k) \in 1..n /\ Before(i, k) # Before(i, j)
            /\ Created(answers[Before(i, k)]) /\ s \in answers[Before(i, k)].rows
        <5>1. Before(i, k) \in 1..n /\ Before(i, k) # Before(i, j)
          BY <1>3, <3>4
        <5>2. /\ answers'[k].op = answers[Before(i, k)].op
              /\ answers'[k].ok = answers[Before(i, k)].ok
              /\ answers'[k].rows = answers[Before(i, k)].rows
              /\ answers'[k].change = answers[Before(i, k)].change
          BY <1>2
        <5>3. QED BY <3>4, <5>1, <5>2 DEF Created
      <4>2. QED BY <3>2, <4>1
    <3>5. QED BY <3>2, <3>3, <3>4
  <2>5. \A r \in rows' : r.key \in born'
    BY <2>1, <2>2 DEF Fresh
  <2>6. \A m \in appended' : m[2] \in born'
    BY <2>2, <2>3
  <2>7. QED BY <2>2, <2>4, <2>5, <2>6 DEF Fresh
<1>10. OneLoad'
  <2>1. SUFFICES ASSUME NEW j \in 1..Len(answers'), answers'[j].op = "load"
                 PROVE  ~load /\ \A k \in 1..Len(answers') : answers'[k].op = "load" => k = j
    BY <1>1 DEF OneLoad
  <2>2. /\ ~load
        /\ \A m \in 1..n : answers[m].op = "load" => m = Before(i, j)
    BY <1>2, <1>3, <2>1 DEF Basics, OneLoad
  <2>3. ASSUME NEW k \in 1..Len(answers'), answers'[k].op = "load" PROVE k = j
    <3>1. Before(i, k) = Before(i, j)
      <4>1. Before(i, k) \in 1..n /\ answers[Before(i, k)].op = "load"
        BY <1>2, <1>3, <2>3
      <4>2. QED BY <2>2, <4>1
    <3>2. QED BY <1>3, <3>1
  <2>4. QED BY <2>2, <2>3
<1>11. SharesPlain'
  BY <1>1, <1>5 DEF Basics, SharesPlain, database, stream
<1>12. QED BY <1>5, <1>6, <1>7, <1>8, <1>9, <1>10, <1>11 DEF Basics

LEMMA ArriveBasics ==
    ASSUME Basics, NEW i \in 1..Len(answers), Arrive(i)
    PROVE  Basics'
<1> DEFINE a == answers[i]
<1>1. /\ UNCHANGED <<panel, database, selected, load, stream, asked>>
      /\ ArriveChange(a) \/ ArriveList(a)
      /\ astray' \in BOOLEAN /\ answers' = Rest(i)
  BY DEF Arrive
<1>2. /\ shown' \in [Row -> Nat] /\ NoForeignRows' /\ ListedOnce'
      /\ panel = "shares" => \A r \in Listed' : ~r.done
      /\ busy' \subseteq busy /\ appended' \subseteq Workspaces \X Keys
      /\ \A m \in appended' :
            m \in appended \/ (Created(a) /\ \E r \in a.rows : m = Name(r))
      /\ loading' = (loading /\ a.op # "load")
  <2>1. CASE ArriveChange(a)
    <3>1. a.op = "change" /\ loading \in BOOLEAN
      BY <2>1 DEF ArriveChange, Basics, TypeOK
    <3>2. QED BY <1>1, <2>1, <3>1, ArriveChangeBasics
  <2>2. CASE ArriveList(a)
    BY <1>1, <2>2, ArriveListBasics DEF Basics, TypeOK
  <2>3. QED BY <1>1, <2>1, <2>2
<1>3. QED BY <1>1, <1>2, RestBasics

LEMMA DepartureBasics ==
    ASSUME Basics, NEW i \in 1..Len(answers), ArriveDeparture(i)
    PROVE  Basics'
<1> DEFINE a == answers[i]
<1>1. /\ a.op = "change" /\ UNCHANGED <<panel, database, asked>>
      /\ busy' \subseteq busy /\ astray' \in BOOLEAN
      /\ UNCHANGED <<shown, appended>> \/ (shown' = Once({}) /\ appended' = {})
      /\ \E f \in Workspaces : Turned(f, Rest(i))
  BY DEF ArriveDeparture, RowsRest, Basics, TypeOK
<1>2. PICK f \in Workspaces : Turned(f, Rest(i))
  BY <1>1
<1>3. CASE f = selected
  <2>1. answers' = Rest(i) /\ UNCHANGED <<selected, loading, load, stream>>
    BY <1>2, <1>3 DEF Turned
  <2>2. /\ shown' \in [Row -> Nat] /\ appended' \subseteq appended
        /\ panel = "shares" => \A r \in Listed' : ~r.done
    BY <1>1, OnceLists DEF Basics, TypeOK, SharesPlain, Listed
  <2>3. NoForeignRows' /\ ListedOnce'
    <3>1. CASE UNCHANGED <<shown, appended>>
      BY <2>1, <1>1, <3>1 DEF Basics, NoForeignRows, ListedOnce, Listed, Copies
    <3>2. CASE shown' = Once({})
      <4>1. \A r \in Row : shown'[r] = 0
        BY <3>2 DEF Once
      <4>2. \A r \in Row : Copies(r)' = 0
        <5>1. SUFFICES ASSUME NEW r \in Row PROVE Copies(r)' = 0
          OBVIOUS
        <5>2. Copies(r)' = shown'[r] + shown'[Twin(r)] /\ Twin(r) \in Row
          BY Twins DEF Copies, Twin
        <5>3. QED BY <4>1, <5>2
      <4>3. QED BY <4>1, <4>2 DEF NoForeignRows, ListedOnce, Listed
    <3>3. QED BY <1>1, <3>1, <3>2
  <2>4. appended' \subseteq Workspaces \X Keys /\ loading' = (loading /\ a.op # "load")
    BY <1>1, <2>1, <2>2 DEF Basics, TypeOK
  <2>5. QED BY <1>1, <2>1, <2>2, <2>3, <2>4, RestBasics
<1>4. CASE f # selected
  <2>1. /\ selected' = f /\ loading' = TRUE /\ load' = TRUE /\ refetches' = 0 /\ events' = 0
        /\ answers' = Cancelled(Rest(i))
    BY <1>2, <1>4 DEF Turned
  <2> DEFINE n == Len(answers)
             b == [j \in 1..Len(answers') |-> Before(i, j)]
  <2>2. /\ n \in Nat /\ answers' \in Seq(Answer) /\ Len(answers') = n - 1
        /\ \A j \in 1..(n - 1) :
              answers'[j] = IF Rest(i)[j].op = "change" THEN Rest(i)[j] ELSE Ignored
    BY <2>1, Typed, RestLeaves, CancelledAnswers DEF Basics
  <2>3. \A j \in 1..(n - 1) :
           /\ Rest(i)[j].op = answers[Before(i, j)].op /\ Rest(i)[j].ok = answers[Before(i, j)].ok
           /\ Rest(i)[j].rows = answers[Before(i, j)].rows
           /\ Rest(i)[j].change = answers[Before(i, j)].change
    BY RestLeaves DEF Basics
  <2>4. /\ \A j \in 1..(n - 1) : Before(i, j) \in 1..n
        /\ \A j, k \in 1..(n - 1) : j # k => Before(i, j) # Before(i, k)
    <3> HIDE DEF n
    <3>1. n \in Nat /\ i \in 1..n
      BY <2>2 DEF n
    <3>2. QED BY <3>1, BeforeShifts DEF Shifts
  <2>5. Muted(b)
    <3>1. /\ b \in [1..Len(answers') -> 1..Len(answers)]
          /\ \A j, k \in 1..Len(answers') : j # k => b[j] # b[k]
      BY <2>2, <2>4
    <3>2. ASSUME NEW j \in 1..Len(answers')
          PROVE  \/ answers'[j].op = "ignored"
                 \/ /\ answers'[j].op = "change" /\ answers[b[j]].op = "change"
                    /\ answers'[j].ok = answers[b[j]].ok
                    /\ answers'[j].rows = answers[b[j]].rows
                    /\ answers'[j].change = answers[b[j]].change
      <4>1. j \in 1..(n - 1) /\ b[j] = Before(i, j)
        BY <2>2
      <4> HIDE DEF b
      <4>2. QED BY <2>2, <2>3, <4>1 DEF Ignored
    <3> HIDE DEF b
    <3>3. QED BY <2>2, <3>1, <3>2 DEF Muted
  <2> HIDE DEF b
  <2>6. QED BY <1>1, <2>1, <2>5, TurnedBasics
<1>5. QED BY <1>3, <1>4

LEMMA BasicsNext ==
    ASSUME Basics, [Next]_vars
    PROVE  Basics'
<1>1. CASE \E w \in Workspaces : Select(w)
  BY <1>1, SelectBasics
<1>2. CASE Create \/ Update \/ Delete \/ Leave \/ DeleteWorkspace
  BY <1>2, AskBasics
<1>3. CASE ServeLoad
  BY <1>3, ServeLoadBasics
<1>4. CASE ServeRefetch
  BY <1>4, ServeRefetchBasics
<1>5. CASE ServeChange
  BY <1>5, ServeChangeBasics
<1>6. CASE Others
  BY <1>6, OthersBasics
<1>7. CASE OnEvent
  BY <1>7, OnEventBasics
<1>8. CASE \E i \in 1..Len(answers) : Arrive(i) \/ ArriveDeparture(i) \/ ArriveIgnored(i)
  BY <1>8, ArriveBasics, DepartureBasics, ArriveIgnoredBasics
<1>9. CASE UNCHANGED vars
  <2>1. /\ UNCHANGED <<panel, selected, list, load, answers>> /\ UNCHANGED <<busy, asked>>
        /\ UNCHANGED <<rows, alive, born, refetches, events>>
    BY <1>9 DEF vars, database, stream
  <2>2. Tables' /\ born' = born
    BY <2>1, BasicsTables DEF Tables, Keyed
  <2>3. /\ refetches' \in Nat /\ events' \in Nat
        /\ panel = "shares" => refetches' + events' = 0
        /\ busy' \in SUBSET ({"create", "update", "remove"} \X (Keys \cup {NoKey}))
        /\ asked' \subseteq Change /\ \A c \in asked' : Sound(c)
    BY <2>1 DEF Basics, TypeOK, SharesPlain
  <2>4. SameSaid /\ astray' \in BOOLEAN
    BY <2>1, SaidStill DEF Basics, TypeOK, list
  <2>5. QED BY <2>1, <2>2, <2>3, <2>4, Elsewhere DEF list
<1>10. QED BY <1>1, <1>2, <1>3, <1>4, <1>5, <1>6, <1>7, <1>8, <1>9 DEF Next

-----------------------------------------------------------------------------
(* Answers overtaken *)

\* Once another workspace is selected there is no list to believe.
LEMMA NoListLate ==
    ASSUME NEW as \in Seq(Answer), answers' = Cancelled(as)
    PROVE  Overtaking' /\ \A j \in 1..Len(answers') : ~IsList(answers'[j])
<1>1. /\ Len(answers') = Len(as)
      /\ \A j \in 1..Len(as) : answers'[j] = IF as[j].op = "change" THEN as[j] ELSE Ignored
  BY CancelledAnswers
<1>2. \A j \in 1..Len(answers') : ~IsList(answers'[j])
  <2>1. Ignored.op = "ignored"
    BY DEF Ignored
  <2>2. SUFFICES ASSUME NEW j \in 1..Len(answers') PROVE ~IsList(answers'[j])
    OBVIOUS
  <2>3. answers'[j].op = "change" \/ answers'[j].op = "ignored"
    BY <1>1, <2>1
  <2>4. QED BY <2>3 DEF IsList
<1>3. QED BY <1>2 DEF Overtaking

\* An answer served is the newest, and not late.
LEMMA ServedOvertaking ==
    ASSUME Basics, Overtaking, NEW op \in {"load", "refetch", "change"}, NEW ok \in BOOLEAN,
           NEW rs \in SUBSET Row,
           NEW c \in Change \cup {NoChange}, Respond(op, ok, rs, c), astray' = astray
    PROVE  Overtaking'
<1> DEFINE n == Len(answers)
           a == [op |-> op, ok |-> ok, rows |-> rs, change |-> c, late |-> FALSE]
<1>1. a \in Answer /\ answers' = Append(answers, a) /\ TypeOK /\ n \in Nat
  BY Typed DEF Respond, Answer, Basics
<1>2. a.late = FALSE
  OBVIOUS
<1> HIDE DEF a
<1>3. /\ Len(answers') = n + 1 /\ \A j \in 1..n : answers'[j] = answers[j]
      /\ ~answers'[n + 1].late
  BY <1>1, <1>2, AppendLeaves
<1>4. ASSUME NEW i \in 1..Len(answers'), answers'[i].late, IsList(answers'[i])
      PROVE  astray' /\ \A j \in 1..i : IsList(answers'[j]) => answers'[j].late
  <2>1. i \in 1..n
    BY <1>1, <1>3, <1>4
  <2>2. answers[i].late /\ IsList(answers[i])
    BY <1>3, <1>4, <2>1
  <2>3. astray /\ \A j \in 1..i : IsList(answers[j]) => answers[j].late
    BY <2>1, <2>2 DEF Overtaking
  <2>4. \A j \in 1..i : j \in 1..n
    BY <1>1, <2>1
  <2>5. QED BY <1>3, <2>3, <2>4
<1>5. QED BY <1>4 DEF Overtaking

\* An answer that arrives makes the lists it has overtaken late.
LEMMA RestOvertaking ==
    ASSUME Basics, Overtaking, NEW i \in 1..Len(answers), answers' = Rest(i),
           Overtaken(i) # {} => astray',
           astray => astray' \/ (IsList(answers[i]) /\ ~answers[i].late)
    PROVE  Overtaking'
<1> DEFINE n == Len(answers)
<1>1. n \in Nat /\ i \in 1..n
  BY Typed
<1>2. /\ Len(answers') = n - 1
      /\ \A j \in 1..(n - 1) :
            /\ answers'[j].op = answers[Before(i, j)].op
            /\ answers'[j].late =
                  \/ answers[Before(i, j)].late
                  \/ Before(i, j) \in Overtaken(i) /\ IsList(answers[Before(i, j)])
  BY RestLeaves DEF Basics
<1> HIDE DEF n
<1>3. \A j \in 1..(n - 1) : /\ Before(i, j) \in 1..n /\ Before(i, j) # i
                             /\ \A k \in 1..j : Before(i, k) \in 1..Before(i, j)
  BY <1>1, BeforePrefix
<1>4. SUFFICES ASSUME NEW j \in 1..(n - 1), answers'[j].late, IsList(answers'[j])
               PROVE  astray' /\ \A k \in 1..j : IsList(answers'[k]) => answers'[k].late
  BY <1>2 DEF Overtaking
<1> DEFINE m == Before(i, j)
<1>5. /\ m \in 1..n /\ m # i /\ IsList(answers[m])
      /\ answers[m].late \/ m \in Overtaken(i)
  BY <1>2, <1>3, <1>4 DEF IsList
<1>6. \A k \in 1..j : k \in 1..(n - 1) /\ Before(i, k) \in 1..m
  <2>1. \A k \in 1..j : k \in 1..(n - 1)
    BY <1>1, <1>4
  <2>2. QED BY <1>3, <1>4, <2>1
<1> HIDE DEF m
<1>7. CASE m \in Overtaken(i)
  <2>1. astray'
    BY <1>7
  <2>2. \A p \in 1..m : IsList(answers[p]) => p \in Overtaken(i)
    BY <1>1, <1>5, <1>7 DEF Overtaken, IsList, n
  <2>3. ASSUME NEW k \in 1..j, IsList(answers'[k]) PROVE answers'[k].late
    <3>1. k \in 1..(n - 1) /\ Before(i, k) \in 1..m
      BY <1>6
    <3>2. IsList(answers[Before(i, k)])
      BY <1>2, <2>3, <3>1 DEF IsList
    <3>3. QED BY <1>2, <2>2, <3>1, <3>2
  <2>4. QED BY <2>1, <2>3
<1>8. CASE answers[m].late
  <2>1. astray /\ \A p \in 1..m : IsList(answers[p]) => answers[p].late
    BY <1>5, <1>8 DEF Overtaking, n
  <2>2. astray'
    <3>1. CASE i < m
      <4>1. IsList(answers[i]) => answers[i].late
        BY <1>1, <1>5, <2>1, <3>1
      <4>2. QED BY <2>1, <4>1
    <3>2. CASE m < i
      <4>1. m \in Overtaken(i)
        BY <1>1, <1>5, <3>2 DEF Overtaken, IsList, n
      <4>2. QED BY <4>1
    <3>3. QED BY <1>1, <1>5, <3>1, <3>2
  <2>3. ASSUME NEW k \in 1..j, IsList(answers'[k]) PROVE answers'[k].late
    <3>1. k \in 1..(n - 1) /\ Before(i, k) \in 1..m
      BY <1>6
    <3>2. IsList(answers[Before(i, k)])
      BY <1>2, <2>3, <3>1 DEF IsList
    <3>3. QED BY <1>2, <2>1, <3>1, <3>2
  <2>4. QED BY <2>2, <2>3
<1>9. QED BY <1>5, <1>7, <1>8

LEMMA OvertakingNext ==
    ASSUME Basics, Overtaking, [Next]_vars
    PROVE  Overtaking'
<1> DEFINE n == Len(answers)
<1>1. n \in Nat /\ answers \in Seq(Answer)
  BY DEF Basics, TypeOK
<1>2. CASE UNCHANGED <<answers, astray>>
  BY <1>2 DEF Overtaking
<1>3. CASE \E w \in Workspaces : Select(w)
  <2>1. answers' = Cancelled(answers)
    BY <1>3 DEF Select, Turned
  <2>2. QED BY <1>1, <2>1, NoListLate
<1>4. ASSUME ServeLoad \/ ServeRefetch PROVE Overtaking'
  <2>1. Contents(selected) \in SUBSET Row /\ {} \in SUBSET Row
    BY Typed DEF Contents
  <2>2. astray' = astray
    BY <1>4 DEF ServeLoad, ServeRefetch, list
  <2>3. CASE ServeLoad
    BY ServedOvertaking, <2>1, <2>2, <2>3 DEF ServeLoad
  <2>4. CASE ServeRefetch
    BY ServedOvertaking, <2>1, <2>2, <2>4 DEF ServeRefetch
  <2>5. QED BY <1>4, <2>3, <2>4
<1>5. ASSUME ServeChange PROVE Overtaking'
  <2>1. \E c \in asked, ok \in BOOLEAN, rs \in SUBSET Row :
           c \in Change /\ Respond("change", ok, rs, c)
    BY <1>5, ServeChangeCases
  <2>2. astray' = astray
    BY <1>5 DEF ServeChange, list
  <2>3. QED BY ServedOvertaking, <2>1, <2>2
<1>6. ASSUME Others PROVE Overtaking'
  <2>1. CASE UNCHANGED <<answers, astray>>
    BY <2>1 DEF Overtaking
  <2>2. CASE astray' = TRUE /\ answers' = Late(1..Len(answers))
    <3>1. /\ Len(answers') = n
          /\ \A j \in 1..n : /\ answers'[j].op = answers[j].op
                              /\ answers'[j].late = (answers[j].late \/ IsList(answers[j]))
      BY <2>2, LateAnswers DEF Basics
    <3>2. \A j \in 1..n : IsList(answers'[j]) => answers'[j].late
      BY <3>1 DEF IsList
    <3>3. QED BY <1>1, <2>2, <3>1, <3>2 DEF Overtaking
  <2>3. QED BY <1>6, <2>1, <2>2, OthersCases
<1>7. ASSUME NEW i \in 1..n, ArriveIgnored(i) PROVE Overtaking'
  <2>1. /\ Len(answers') = n - 1
        /\ \A j \in 1..Len(answers') : answers'[j] = answers[Before(i, j)]
    BY <1>7, ArriveIgnoredLeaves DEF Basics
  <2>2. astray' = astray
    BY <1>7 DEF ArriveIgnored, list
  <2>3. \A j \in 1..Len(answers') : /\ Before(i, j) \in 1..n
                                    /\ \A k \in 1..j : Before(i, k) \in 1..Before(i, j)
    BY <1>1, <2>1, BeforePrefix
  <2>4. SUFFICES ASSUME NEW j \in 1..Len(answers'), answers'[j].late, IsList(answers'[j])
                 PROVE  astray' /\ \A k \in 1..j : IsList(answers'[k]) => answers'[k].late
    BY DEF Overtaking
  <2>5. astray /\ \A m \in 1..Before(i, j) : IsList(answers[m]) => answers[m].late
    BY <2>1, <2>3, <2>4 DEF Overtaking
  <2>6. \A k \in 1..j : k \in 1..Len(answers')
    BY <1>1, <2>1
  <2>7. QED BY <2>1, <2>2, <2>3, <2>5, <2>6
<1>8. ASSUME NEW i \in 1..n, Arrive(i) PROVE Overtaking'
  <2>1. /\ answers' = Rest(i)
        /\ astray' = (Misleads(answers[i], i) \/ (astray /\ ~Heals(answers[i])))
        /\ answers[i].op \in {"load", "refetch", "change"}
    BY <1>8 DEF Arrive, ArriveChange, ArriveList
  <2>2. Overtaken(i) # {} => astray'
    BY <2>1 DEF Misleads
  <2>3. astray => astray' \/ (IsList(answers[i]) /\ ~answers[i].late)
    BY <2>1 DEF Heals, IsList
  <2>4. QED BY <2>1, <2>2, <2>3, RestOvertaking
<1>9. ASSUME NEW i \in 1..n, ArriveDeparture(i) PROVE Overtaking'
  <2>1. /\ astray' = (Misleads(answers[i], i) \/ astray)
        /\ \E f \in Workspaces : Turned(f, Rest(i))
    BY <1>9 DEF ArriveDeparture
  <2>2. CASE answers' = Rest(i)
    <3>1. Overtaken(i) # {} => astray'
      BY <2>1 DEF Misleads
    <3>2. QED BY <2>1, <2>2, <3>1, RestOvertaking
  <2>3. CASE answers' = Cancelled(Rest(i))
    BY <2>3, RestLeaves, NoListLate DEF Basics
  <2>4. QED BY <2>1, <2>2, <2>3 DEF Turned
<1>10. Create \/ Update \/ Delete \/ Leave \/ DeleteWorkspace \/ OnEvent
          => UNCHANGED <<answers, astray>>
  BY DEF Create, Update, Delete, Leave, DeleteWorkspace, Ask, OnEvent, list
<1>11. UNCHANGED vars => UNCHANGED <<answers, astray>>
  BY DEF vars, list
<1>12. QED BY <1>2, <1>3, <1>4, <1>5, <1>6, <1>7, <1>8, <1>9, <1>10, <1>11 DEF Next

-----------------------------------------------------------------------------
(* What the database has follows from the anchor *)

Quiet == ~load /\ refetches + events = 0

\* The same answers after the same anchor, and the same rows of the workspace.
LEMMA FollowsStill ==
    ASSUME UNCHANGED <<panel, selected>>, Contents(selected)' = Contents(selected),
           NEW h \in Nat, Follows(h),
           Anchor(h)' = Anchor(h), After(h)' = After(h),
           \A j \in After(h) : answers'[j] = answers[j]
    PROVE  Follows(h)'
<1>1. Clean(h)' = Clean(h)
  BY DEF Clean
<1>2. SUFFICES ASSUME Clean(h)' PROVE Follows(h)'
  BY DEF Follows
<1>3. CASE panel = "todos"
  BY <1>1, <1>2, <1>3 DEF Follows, Harmless
<1>4. CASE panel # "todos"
  BY <1>1, <1>2, <1>4 DEF Follows
<1>5. QED BY <1>3, <1>4

\* The answers, the list and the rows of the workspace as they were.
LEMMA AnchorsStill ==
    ASSUME Anchors, UNCHANGED <<panel, selected, shown, astray, answers>>,
           Contents(selected)' = Contents(selected), Quiet' => Quiet
    PROVE  Anchors'
<1>1. SUFFICES ASSUME Quiet', NEW h \in 0..Len(answers), Anchored(h)'
               PROVE  Follows(h)'
  BY DEF Anchors, Quiet
<1>2. Anchored(h) /\ Quiet
  BY <1>1 DEF Anchored
<1>3. Follows(h)
  BY <1>2 DEF Anchors, Quiet
<1>4. /\ Anchor(h)' = Anchor(h) /\ After(h)' = After(h)
      /\ \A j \in After(h) : answers'[j] = answers[j]
  BY DEF Anchor, After
<1>5. QED BY <1>3, <1>4, FollowsStill

LEMMA ContentsOf ==
    ASSUME NEW w \in Workspaces
    PROVE  \A r : r \in Contents(w) <=> r \in rows /\ r.workspace = w
BY DEF Contents

\* A change nobody has heard of is of another workspace.
LEMMA Unheard ==
    ASSUME Basics, panel = "todos", NEW c \in Change, NEW d \in Changes(c), Commit(c, d),
           c.op = "delete" => c.workspace # selected,
           UNCHANGED <<panel, selected>>, events' = events
    PROVE  /\ \A r \in d.old \cup d.new : r.workspace # selected
           /\ Contents(selected)' = Contents(selected)
<1>1. events \in Nat
  BY DEF Basics, TypeOK
<1>2. \A r \in d.old \cup d.new : r.workspace # selected
  <2>1. CASE c.op # "delete"
    BY <1>1, <2>1 DEF Commit, Publishes
  <2>2. CASE c.op = "delete"
    <3>1. d.old = Contents(c.workspace) /\ d.new = {}
      BY <2>2, ChangeShape DEF Basics
    <3>2. QED BY <2>2, <3>1 DEF Contents
  <2>3. QED BY <2>1, <2>2
<1>3. rows' = (rows \ d.old) \cup d.new
  BY DEF Commit
<1>4. QED BY <1>2, <1>3 DEF Contents

LEMMA OthersAnchors ==
    ASSUME Basics, Anchors, Others
    PROVE  Anchors'
<1>1. /\ UNCHANGED <<panel, selected, shown, load, refetches>>
      /\ \/ UNCHANGED <<answers, astray>>
         \/ astray' = TRUE /\ answers' = Late(1..Len(answers))
  BY OthersCases
<1>2. PICK c \in Change : \E d \in Changes(c) :
          /\ Sound(c) /\ Commit(c, d)
          /\ Publishes(c) \/ Contents(selected)' = Contents(selected)
                \/ (astray' /\ answers' = Late(1..Len(answers)))
  BY OthersCases
<1>3. PICK d \in Changes(c) :
          /\ Sound(c) /\ Commit(c, d)
          /\ Publishes(c) \/ Contents(selected)' = Contents(selected)
                \/ (astray' /\ answers' = Late(1..Len(answers)))
  BY <1>2
<1>4. events' \in {events, events + 1} /\ events \in Nat /\ refetches \in Nat
  BY <1>3 DEF Commit, Basics, TypeOK
<1>5. CASE astray' = TRUE /\ answers' = Late(1..Len(answers))
  <2>1. /\ Len(answers') = Len(answers)
        /\ \A j \in 1..Len(answers) :
              /\ answers'[j].op = answers[j].op
              /\ answers'[j].late = (answers[j].late \/ IsList(answers[j]))
    BY <1>5, LateAnswers DEF Basics
  <2>2. \A j \in 1..Len(answers') : IsList(answers'[j]) => answers'[j].late
    BY <2>1 DEF IsList
  <2>3. \A h \in 0..Len(answers') : ~Anchored(h)'
    <3>1. Len(answers') \in Nat
      BY <2>1, Typed
    <3>2. SUFFICES ASSUME NEW h \in 0..Len(answers') PROVE ~Anchored(h)'
      OBVIOUS
    <3>3. CASE h = 0
      BY <1>5, <3>3 DEF Anchored
    <3>4. CASE h # 0
      BY <2>2, <3>1, <3>4 DEF Anchored
    <3>5. QED BY <3>3, <3>4
  <2>4. QED BY <2>3 DEF Anchors
<1>6. CASE UNCHANGED <<answers, astray>> /\ events' = events
  <2>1. ASSUME Contents(selected)' = Contents(selected) PROVE Anchors'
    BY <1>1, <1>6, <2>1, AnchorsStill DEF Quiet
  <2>2. Publishes(c) => Contents(selected)' = Contents(selected)
    BY <1>1, <1>3, <1>6, Unheard DEF Publishes
  <2>3. astray' /\ answers' = Late(1..Len(answers)) => Anchors'
    BY <1>5, OthersCases
  <2>4. QED BY <1>3, <2>1, <2>2, <2>3
<1>7. CASE events' = events + 1
  BY <1>1, <1>4, <1>7 DEF Anchors
<1>8. QED BY <1>1, <1>4, <1>5, <1>6, <1>7

LEMMA ReadAnchors ==
    ASSUME Basics, ServeLoad \/ ServeRefetch
    PROVE  Anchors'
<1> DEFINE n == Len(answers)
<1>1. UNCHANGED <<panel, database, selected, list>>
  BY DEF ServeLoad, ServeRefetch
<1>2. PICK op \in {"load", "refetch"}, ok \in BOOLEAN, rs \in SUBSET Row :
         Respond(op, ok, rs, NoChange) /\ (ok => rs = Contents(selected))
  <2>1. Contents(selected) \in SUBSET Row /\ {} \in SUBSET Row
    BY Typed DEF Contents
  <2>2. \/ \E op \in {"load", "refetch"} : Respond(op, TRUE, Contents(selected), NoChange)
        \/ \E op \in {"load", "refetch"} : Respond(op, FALSE, {}, NoChange)
    BY DEF ServeLoad, ServeRefetch
  <2>3. QED BY <2>1, <2>2
<1> DEFINE a == [op |-> op, ok |-> ok, rows |-> rs, change |-> NoChange, late |-> FALSE]
<1>3. a \in Answer /\ answers' = Append(answers, a) /\ TypeOK /\ n \in Nat
  BY <1>2, Typed DEF Respond, Answer, Basics
<1>4. IsList(a) /\ (a.ok => a.rows = Contents(selected))
  BY <1>2 DEF IsList
<1> HIDE DEF a
<1>5. Len(answers') = n + 1 /\ answers'[n + 1] = a
  BY <1>3, AppendLeaves
<1>6. SUFFICES ASSUME NEW h \in 0..Len(answers'), Anchored(h)' PROVE Follows(h)'
  BY DEF Anchors
<1>7. h = n + 1
  BY <1>3, <1>4, <1>5, <1>6 DEF Anchored
<1>8. Anchor(h)' = Once(Contents(selected)) /\ After(h)' = {}
  <2>1. a.ok /\ h # 0
    BY <1>3, <1>5, <1>6, <1>7 DEF Anchored
  <2>2. Anchor(h)' = Once(answers'[h].rows)
    BY <2>1 DEF Anchor, Once
  <2>3. After(h)' = {}
    BY <1>3, <1>5, <1>7 DEF After
  <2>4. QED BY <1>4, <1>5, <1>7, <2>1, <2>2, <2>3
<1>9. Contents(selected)' = Contents(selected) /\ Contents(selected) \in SUBSET Row
  BY <1>1, Typed DEF Contents, database
<1>10. \A r \in Row : Once(Contents(selected))[r] > 0 => r.workspace = selected
  BY <1>9, OnceLists DEF Contents
<1>11. Once(Contents(selected))' = Once(Contents(selected))
  BY <1>9 DEF Once
<1>12. QED BY <1>1, <1>8, <1>9, <1>10, <1>11 DEF Follows

\* A change of another key leaves the rows of this one.
LEMMA OtherKeys ==
    ASSUME Basics, NEW c \in Change, Sound(c), NEW d \in Changes(c), Commit(c, d),
           ~Departs(c), panel = "shares", UNCHANGED <<panel, selected>>
    PROVE  /\ \A r : r.key # c.key => (r \in Contents(selected)' <=> r \in Contents(selected))
           /\ c.workspace = selected =>
                 (c.op = "create" <=> \E r \in Contents(selected)' : r.key = c.key)
<1>1. rows' = (rows \ d.old) \cup d.new /\ rows \subseteq Row
  BY Typed DEF Commit
<1>2. c.op \in {"create", "remove"}
  BY DEF Change, Sound, Departs
<1>3. CASE c.op = "create"
  <2>1. PICK r \in Row : d.old = {} /\ d.new = {r} /\ r.workspace = c.workspace /\ r.key = c.key
    BY <1>3, ChangeShape DEF Basics
  <2>2. c.workspace = selected => r \in Contents(selected)'
    BY <1>1, <2>1 DEF Contents
  <2>3. QED BY <1>1, <1>3, <2>1, <2>2 DEF Contents
<1>4. CASE c.op = "remove"
  <2>1. d.new = {} /\ d.old = {r \in rows : Name(r) = <<c.workspace, c.key>>}
    BY <1>4, ChangeShape DEF Basics
  <2>2. \A r \in d.old : r.key = c.key
    BY <2>1 DEF Name
  <2>3. c.workspace = selected => \A r \in Contents(selected)' : r.key # c.key
    BY <1>1, <2>1 DEF Contents, Name
  <2>4. QED BY <1>1, <1>4, <2>1, <2>2, <2>3 DEF Contents
<1>5. QED BY <1>2, <1>3, <1>4

LEMMA ServeChangeAnchors ==
    ASSUME Basics, Anchors, ServeChange
    PROVE  Anchors'
<1> DEFINE n == Len(answers)
<1>1. UNCHANGED <<panel, selected, list, load, refetches>>
  BY DEF ServeChange
<1>2. PICK c \in asked, ok \in BOOLEAN, rs \in SUBSET Row :
         /\ asked' = asked \ {c} /\ c \in Change /\ Sound(c)
         /\ Respond("change", ok, rs, c)
         /\ \/ \E d \in Changes(c) : Commit(c, d) /\ (ok => rs = d.new)
            \/ ~ok /\ UNCHANGED <<database, events>>
  BY ServeChangeCases
<1> DEFINE a == [op |-> "change", ok |-> ok, rows |-> rs, change |-> c, late |-> FALSE]
<1>3. a \in Answer /\ answers' = Append(answers, a) /\ TypeOK /\ n \in Nat
  BY <1>2, Typed DEF Respond, Answer, Basics
<1>4. a.op = "change" /\ a.ok = ok /\ a.change = c
  OBVIOUS
<1> HIDE DEF a
<1>5. /\ Len(answers') = n + 1 /\ answers'[n + 1] = a
      /\ \A j \in 1..n : answers'[j] = answers[j]
  BY <1>3, AppendLeaves
<1>6. SUFFICES ASSUME Quiet', NEW h \in 0..Len(answers'), Anchored(h)' PROVE Follows(h)'
  BY DEF Anchors, Quiet
<1>7. h \in 0..n /\ Anchored(h)
  <2>1. h # n + 1
    BY <1>3, <1>4, <1>5, <1>6 DEF Anchored, IsList
  <2>2. h \in 0..n
    BY <1>3, <1>5, <2>1
  <2>3. \A j \in (h + 1)..n : ~IsList(answers[j])
    <3>1. SUFFICES ASSUME NEW j \in (h + 1)..n PROVE ~IsList(answers[j])
      OBVIOUS
    <3>2. j \in (h + 1)..Len(answers') /\ answers'[j] = answers[j]
      BY <1>3, <1>5, <2>2
    <3>3. QED BY <1>6, <3>2 DEF Anchored, IsList
  <2>4. h # 0 => answers'[h] = answers[h]
    BY <1>5, <2>2
  <2>5. QED BY <1>1, <1>6, <2>2, <2>3, <2>4 DEF Anchored, IsList, list
<1>8. /\ events' \in {events, events + 1} /\ events \in Nat /\ refetches \in Nat
  BY <1>2 DEF Commit, Basics, TypeOK
<1>9. Quiet /\ events' = events
  <2>1. ~load' /\ refetches' + events' = 0 /\ refetches' = refetches /\ load' = load
    BY <1>1, <1>6 DEF Quiet
  <2>2. refetches + events' = 0
    BY <2>1
  <2>3. events' # events + 1
    <3>1. \A e, f \in Nat : f + (e + 1) # 0
      OBVIOUS
    <3>2. events' = events + 1 => refetches + (events + 1) = 0
      BY <2>2
    <3>3. QED BY <1>8, <3>1, <3>2
  <2>4. events' = events
    BY <1>8, <2>3
  <2>5. QED BY <2>1, <2>2, <2>4 DEF Quiet
<1>10. Follows(h)
  BY <1>7, <1>9 DEF Anchors, Quiet
<1>11. /\ Anchor(h)' = Anchor(h) /\ After(h)' = After(h) \cup {n + 1}
       /\ n + 1 \notin After(h)
       /\ \A j \in After(h) : answers'[j] = answers[j] /\ n + 1 > j
  <2>1. Anchor(h)' = Anchor(h)
    BY <1>1, <1>5, <1>7 DEF Anchor, list
  <2>2. \A j : j \in After(h)' <=> j \in After(h) \/ j = n + 1
    BY <1>3, <1>4, <1>5, <1>7 DEF After
  <2>3. QED BY <1>3, <1>5, <2>1, <2>2 DEF After
<1>12. CASE panel = "todos"
  <2>0. SUFFICES ASSUME Clean(h)' PROVE Follows(h)'
    BY DEF Follows
  <2>0a. Clean(h) /\ (Departs(c) => c.workspace # selected)
    <3>1. \A j \in After(h) : answers'[j] = answers[j] /\ j \in After(h)'
      BY <1>11
    <3>2. n + 1 \in After(h)' /\ answers'[n + 1].change = c
      BY <1>4, <1>5, <1>11
    <3>3. QED BY <1>1, <2>0, <3>1, <3>2 DEF Clean
  <2>1. /\ Contents(selected)' = Contents(selected)
        /\ ok => Harmless(c)
    <3>1. CASE ~ok /\ UNCHANGED <<database, events>>
      BY <1>1, <3>1 DEF Contents, database
    <3>2. ASSUME NEW d \in Changes(c), Commit(c, d)
          PROVE  Contents(selected)' = Contents(selected) /\ Harmless(c)
      <4>1. /\ \A r \in d.old \cup d.new : r.workspace # selected
            /\ Contents(selected)' = Contents(selected)
        BY <1>1, <1>2, <1>9, <1>12, <2>0a, <3>2, Unheard DEF Departs
      <4>2. CASE c.op \notin {"update", "remove"}
        BY <1>2, <1>3, <1>12, <4>1, <4>2, ChangeShape DEF Harmless
      <4>3. CASE c.op \in {"update", "remove"}
        <5>1. PICK r \in rows : r.key = c.key /\ r \in d.old
          BY <1>2, <1>3, <1>12, <3>2, <4>3, ChangeShape DEF Change
        <5>2. \A q \in rows : q.key = c.key => q = r
          BY <1>3, <1>12, <5>1 DEF TypeOK, Keyed
        <5>3. QED BY <4>1, <4>3, <5>1, <5>2 DEF Harmless, Contents
      <4>4. QED BY <4>1, <4>2, <4>3
    <3>3. QED BY <1>2, <3>1, <3>2
  <2>2. /\ Anchor(h) = Once(Contents(selected))
        /\ \A j \in After(h) : answers[j].ok => Harmless(answers[j].change)
    BY <1>10, <1>12, <2>0a DEF Follows
  <2>3. (Anchor(h) = Once(Contents(selected)))'
    BY <1>11, <2>1, <2>2 DEF Once
  <2>4. ASSUME NEW j \in After(h)', answers'[j].ok PROVE Harmless(answers[j].change)'
    <3>1. CASE j \in After(h)
      <4>1. answers'[j] = answers[j] /\ Harmless(answers[j].change)
        BY <1>11, <2>2, <2>4, <3>1
      <4>2. QED BY <1>1, <2>1, <4>1 DEF Harmless
    <3>2. CASE j = n + 1
      <4>1. ok /\ answers'[j].change = c
        BY <1>4, <1>5, <2>4, <3>2
      <4>2. QED BY <1>1, <2>1, <4>1 DEF Harmless
    <3>3. QED BY <1>11, <2>4, <3>1, <3>2
  <2>5. QED BY <1>1, <1>12, <2>3, <2>4 DEF Follows
<1>13. CASE panel = "shares"
  <2>1. SUFFICES ASSUME Clean(h)' PROVE Follows(h)'
    BY <1>1, <1>13 DEF Follows
  <2>2. Clean(h)
    BY <1>1, <1>11, <2>1 DEF Clean
  <2>3. ok /\ c.workspace = selected /\ ~Departs(c)
    BY <1>1, <1>4, <1>5, <1>11, <1>13, <2>1 DEF Clean
  <2>4. PICK d \in Changes(c) : Commit(c, d)
    BY <1>2, <2>3
  <2>5. /\ \A r : r.key # c.key => (r \in Contents(selected)' <=> r \in Contents(selected))
        /\ c.op = "create" <=> \E r \in Contents(selected)' : r.key = c.key
    BY <1>1, <1>2, <1>13, <2>3, <2>4, OtherKeys
  <2>6. /\ \A r \in Row : Anchor(h)[r] > 0 => r.workspace = selected
        /\ \A k \in Keys : \A r \in Row :
              r.key = k /\ (\A j \in After(h) : answers[j].change.key # k) =>
                  Anchor(h)[r] = Once(Contents(selected))[r]
        /\ \A j \in After(h) :
              (\A m \in After(h) : m > j => answers[m].change.key # answers[j].change.key)
              => (answers[j].change.op = "create"
                     <=> \E r \in Contents(selected) : r.key = answers[j].change.key)
    BY <1>10, <1>13, <2>2 DEF Follows
  <2>7. answers'[n + 1].change = c
    BY <1>4, <1>5
  <2>8. \A r \in Row : Anchor(h)'[r] > 0 => r.workspace = selected
    BY <1>11, <2>6
  <2>9. ASSUME NEW k \in Keys, NEW r \in Row, r.key = k,
               \A j \in After(h)' : answers'[j].change.key # k
        PROVE  Anchor(h)'[r] = Once(Contents(selected))'[r]
    <3>1. k # c.key /\ \A j \in After(h) : answers[j].change.key # k
      BY <1>11, <2>7, <2>9
    <3>2. Anchor(h)[r] = Once(Contents(selected))[r]
      BY <2>6, <2>9, <3>1
    <3>3. r \in Contents(selected)' <=> r \in Contents(selected)
      BY <2>5, <2>9, <3>1
    <3>4. QED BY <1>11, <3>2, <3>3 DEF Once
  <2>10. ASSUME NEW j \in After(h)',
                \A m \in After(h)' : m > j => answers'[m].change.key # answers'[j].change.key
         PROVE  answers'[j].change.op = "create"
                   <=> \E r \in Contents(selected)' : r.key = answers'[j].change.key
    <3>1. CASE j = n + 1
      BY <2>5, <2>7, <3>1
    <3>2. CASE j \in After(h)
      <4>1. answers'[j] = answers[j] /\ c.key # answers[j].change.key
        BY <1>11, <2>7, <2>10, <3>2
      <4>2. \A m \in After(h) : m > j => answers[m].change.key # answers[j].change.key
        BY <1>11, <2>10, <3>2
      <4>3. answers[j].change.op = "create"
               <=> \E r \in Contents(selected) : r.key = answers[j].change.key
        BY <2>6, <3>2, <4>2
      <4>4. QED BY <2>5, <4>1, <4>3
    <3>3. QED BY <1>11, <2>10, <3>1, <3>2
  <2>11. QED BY <1>1, <1>13, <2>8, <2>9, <2>10 DEF Follows
<1>14. QED BY <1>12, <1>13, Typed

\* An answer gone that was not one of the changes after the anchor.
LEMMA FollowsShifted ==
    ASSUME NEW i \in 1..Len(answers), Len(answers) \in Nat,
           Len(answers') = Len(answers) - 1,
           UNCHANGED <<panel, rows, selected>>,
           \A j \in 1..Len(answers') : /\ answers'[j].op = answers[Before(i, j)].op
                                       /\ answers'[j].ok = answers[Before(i, j)].ok
                                       /\ answers'[j].change = answers[Before(i, j)].change,
           NEW g \in Nat, NEW h \in Nat, Follows(h), Anchor(g)' = Anchor(h),
           \A j \in 1..Len(answers') :
               answers'[j].op = "change" => (j > g <=> Before(i, j) > h),
           i \notin After(h)
    PROVE  Follows(g)'
<1> DEFINE n == Len(answers)
<1>1. /\ \A j \in 1..(n - 1) : Before(i, j) \in 1..n
      /\ \A j, k \in 1..(n - 1) : j < k <=> Before(i, j) < Before(i, k)
      /\ \A m \in 1..n : m # i => \E j \in 1..(n - 1) : Before(i, j) = m
  <2>1. /\ \A j \in 1..(n - 1) : Before(i, j) \in 1..n
        /\ \A j, k \in 1..(n - 1) : j < k <=> Before(i, j) < Before(i, k)
    BY DEF Before
  <2>2. QED BY <2>1, BeforeAll
<1>2. \A j : j \in After(g)' <=> j \in 1..(n - 1) /\ Before(i, j) \in After(h)
  <2>1. \A j : j \in After(g)' <=> j \in 1..(n - 1) /\ j > g /\ answers'[j].op = "change"
    BY DEF After
  <2>2. \A m : m \in After(h) <=> m \in 1..n /\ m > h /\ answers[m].op = "change"
    BY DEF After
  <2>3. ASSUME NEW j \in 1..(n - 1) PROVE j \in After(g)' <=> Before(i, j) \in After(h)
    <3>1. Before(i, j) \in 1..n /\ answers'[j].op = answers[Before(i, j)].op
      BY <1>1
    <3>2. answers'[j].op = "change" => (j > g <=> Before(i, j) > h)
      OBVIOUS
    <3>3. QED BY <2>1, <2>2, <3>1, <3>2
  <2>4. QED BY <2>1, <2>3
<1>3. \A m \in After(h) : \E j \in After(g)' : Before(i, j) = m
  <2>1. SUFFICES ASSUME NEW m \in After(h) PROVE \E j \in After(g)' : Before(i, j) = m
    OBVIOUS
  <2>2. m \in 1..n /\ m # i
    BY <2>1 DEF After
  <2>3. PICK j \in 1..(n - 1) : Before(i, j) = m
    BY <1>1, <2>2
  <2>4. QED BY <1>2, <2>1, <2>3
<1>4. \A j \in After(g)' : /\ j \in 1..(n - 1) /\ Before(i, j) \in After(h)
                           /\ answers'[j].ok = answers[Before(i, j)].ok
                           /\ answers'[j].change = answers[Before(i, j)].change
  BY <1>2
<1>5. Contents(selected)' = Contents(selected)
  BY DEF Contents
<1>5a. SUFFICES ASSUME Clean(g)' PROVE Follows(g)'
  BY DEF Follows
<1>5b. Clean(h)
  <2>1. ASSUME NEW m \in After(h)
        PROVE  /\ Departs(answers[m].change) => answers[m].change.workspace # selected
               /\ panel = "shares" => answers[m].ok /\ answers[m].change.workspace = selected
    <3>1. PICK j \in After(g)' : Before(i, j) = m
      BY <1>3
    <3>2. /\ Departs(answers'[j].change) => answers'[j].change.workspace # selected
          /\ panel = "shares" => answers'[j].ok /\ answers'[j].change.workspace = selected
      BY <1>5a DEF Clean
    <3>3. answers'[j].ok = answers[m].ok /\ answers'[j].change = answers[m].change
      BY <1>4, <3>1
    <3>4. QED BY <3>2, <3>3
  <2>2. QED BY <2>1 DEF Clean
<1>6. CASE panel = "todos"
  <2>1. /\ Anchor(h) = Once(Contents(selected))
        /\ \A j \in After(h) : answers[j].ok => Harmless(answers[j].change)
    BY <1>5b, <1>6 DEF Follows
  <2>2. (Anchor(g) = Once(Contents(selected)))'
    BY <1>5, <2>1 DEF Once
  <2>3. ASSUME NEW j \in After(g)', answers'[j].ok PROVE Harmless(answers[j].change)'
    <3>1. Harmless(answers[Before(i, j)].change)
      BY <1>4, <2>1, <2>3
    <3>2. answers'[j].change = answers[Before(i, j)].change
      BY <1>4, <2>3
    <3>3. QED BY <1>5, <3>1, <3>2 DEF Harmless
  <2>4. QED BY <1>6, <2>2, <2>3 DEF Follows
<1>7. CASE panel # "todos"
  <2>3. /\ \A r \in Row : Anchor(h)[r] > 0 => r.workspace = selected
        /\ \A k \in Keys : \A r \in Row :
              r.key = k /\ (\A j \in After(h) : answers[j].change.key # k) =>
                  Anchor(h)[r] = Once(Contents(selected))[r]
        /\ \A j \in After(h) :
              (\A m \in After(h) : m > j => answers[m].change.key # answers[j].change.key)
              => (answers[j].change.op = "create"
                     <=> \E r \in Contents(selected) : r.key = answers[j].change.key)
    BY <1>5b, <1>7 DEF Follows
  <2>4. Once(Contents(selected))' = Once(Contents(selected))
    BY <1>5 DEF Once
  <2>5. ASSUME NEW k \in Keys, NEW r \in Row, r.key = k,
               \A j \in After(g)' : answers'[j].change.key # k
        PROVE  Anchor(g)'[r] = Once(Contents(selected))'[r]
    <3>1. ASSUME NEW m \in After(h) PROVE answers[m].change.key # k
      <4>1. PICK j \in After(g)' : Before(i, j) = m
        BY <1>3
      <4>2. answers'[j].change = answers[m].change
        BY <1>4, <4>1
      <4>3. QED BY <2>5, <4>2
    <3>2. QED BY <2>3, <2>4, <2>5, <3>1
  <2>6. ASSUME NEW j \in After(g)',
               \A m \in After(g)' : m > j => answers'[m].change.key # answers'[j].change.key
        PROVE  answers'[j].change.op = "create"
                  <=> \E r \in Contents(selected)' : r.key = answers'[j].change.key
    <3> DEFINE p == Before(i, j)
    <3>1. p \in After(h) /\ answers'[j].change = answers[p].change /\ j \in 1..(n - 1)
      BY <1>4, <2>6
    <3>2. ASSUME NEW m \in After(h), m > p PROVE answers[m].change.key # answers[p].change.key
      <4>1. PICK k \in After(g)' : Before(i, k) = m
        BY <1>3
      <4>2. k \in 1..(n - 1) /\ answers'[k].change = answers[m].change
        BY <1>4, <4>1
      <4>3. k > j
        BY <1>1, <3>1, <3>2, <4>1, <4>2
      <4>4. QED BY <2>6, <3>1, <4>2, <4>3
    <3> HIDE DEF p
    <3>3. answers[p].change.op = "create"
             <=> \E r \in Contents(selected) : r.key = answers[p].change.key
      BY <2>3, <3>1, <3>2
    <3>4. QED BY <1>5, <3>1, <3>3
  <2>7. \A r \in Row : Anchor(g)'[r] > 0 => r.workspace = selected
    BY <2>3
  <2>8. QED BY <1>7, <2>5, <2>6, <2>7 DEF Follows
<1>8. QED BY <1>6, <1>7

LEMMA ArriveIgnoredAnchors ==
    ASSUME Basics, Anchors, NEW i \in 1..Len(answers), ArriveIgnored(i)
    PROVE  Anchors'
<1> DEFINE n == Len(answers)
<1>1. /\ n \in Nat /\ Len(answers') = n - 1
      /\ \A j \in 1..Len(answers') : answers'[j] = answers[Before(i, j)]
  BY Typed, ArriveIgnoredLeaves DEF Basics
<1>2. /\ UNCHANGED <<panel, rows, selected, shown, astray>>
      /\ answers[i].op = "ignored" /\ Quiet' = Quiet
  BY DEF ArriveIgnored, database, list, stream, Quiet
<1>3. SUFFICES ASSUME Quiet', NEW g \in 0..Len(answers'), Anchored(g)' PROVE Follows(g)'
  BY DEF Anchors, Quiet
<1> DEFINE h == IF g = 0 THEN 0 ELSE Before(i, g)
<1>4. /\ h \in 0..n /\ (h = 0 <=> g = 0) /\ (g # 0 => answers'[g] = answers[h])
      /\ \A j \in 1..Len(answers') : (j > g <=> Before(i, j) > h) /\ Before(i, j) \in 1..n
  BY <1>1 DEF Before
<1>5. \A j \in (h + 1)..n : ~IsList(answers[j])
  <2>1. SUFFICES ASSUME NEW m \in (h + 1)..n, m # i PROVE ~IsList(answers[m])
    BY <1>2 DEF IsList
  <2>2. PICK j \in 1..(n - 1) : Before(i, j) = m
    <3>1. m \in 1..n
      BY <1>1, <1>4, <2>1
    <3>2. n \in Nat /\ i \in 1..n
      BY <1>1
    <3> HIDE DEF n
    <3>3. QED BY <2>1, <3>1, <3>2, BeforeAll
  <2>3. j \in (g + 1)..Len(answers') /\ answers'[j] = answers[m]
    BY <1>1, <1>4, <2>1, <2>2
  <2>4. QED BY <1>3, <2>3 DEF Anchored, IsList
<1> HIDE DEF h
<1>6. Anchored(h)
  BY <1>2, <1>3, <1>4, <1>5 DEF Anchored, IsList
<1>7. Follows(h)
  BY <1>2, <1>3, <1>4, <1>6 DEF Anchors, Quiet
<1>8. Anchor(g)' = Anchor(h) /\ i \notin After(h) /\ h \in Nat /\ g \in Nat
  BY <1>1, <1>2, <1>4 DEF Anchor, After, Once
<1>9. QED BY <1>1, <1>2, <1>4, <1>7, <1>8, FollowsShifted

\* The first of the answers left was a change after the list shown.
LEMMA FirstArrives ==
    ASSUME Basics, ListedOnce', NEW i \in 1..Len(answers), ArriveChange(answers[i]),
           Len(answers') = Len(answers) - 1,
           UNCHANGED <<panel, rows, selected>>,
           \A j \in 1..Len(answers') : /\ answers'[j].op = answers[Before(i, j)].op
                                       /\ answers'[j].ok = answers[Before(i, j)].ok
                                       /\ answers'[j].change = answers[Before(i, j)].change,
           Overtaken(i) = {}, ~Misleads(answers[i], i), Follows(0)
    PROVE  Follows(0)'
<1> DEFINE n == Len(answers)
           a == answers[i]
           k == a.change.key
<1>1. /\ a.op = "change" /\ shown' = Edited(a) /\ n \in Nat
      /\ ~(a.ok /\ Departs(a.change))
      /\ shown \in [Row -> Nat] /\ shown' \in [Row -> Nat]
      /\ panel \in {"todos", "shares"} /\ a \in Answer /\ Fits(a)
  BY Typed, EditedList DEF ArriveChange
<1>2. a.change.workspace = selected /\ (a.ok \/ panel = "todos") /\ ~Departs(a.change)
  <2>1. /\ a.change.workspace = selected \/ (a.change.op = "delete" /\ panel = "todos")
        /\ a.ok \/ Publishes(a.change)
    BY <1>1 DEF Misleads
  <2>2. a.change.op = "leave" => panel = "shares"
    BY <1>1 DEF Fits, Sound
  <2>3. QED BY <1>1, <2>1, <2>2 DEF Publishes, Departs
<1>3. /\ \A j \in 1..(n - 1) : Before(i, j) \in 1..n
      /\ \A j, m \in 1..(n - 1) : j < m <=> Before(i, j) < Before(i, m)
      /\ \A m \in 1..n : m # i => \E j \in 1..(n - 1) : Before(i, j) = m
  <2>1. /\ \A j \in 1..(n - 1) : Before(i, j) \in 1..n
        /\ \A j, m \in 1..(n - 1) : j < m <=> Before(i, j) < Before(i, m)
    BY <1>1 DEF Before
  <2>2. QED BY <1>1, <2>1, BeforeAll
<1>4. /\ \A j \in After(0)' : /\ j \in 1..(n - 1) /\ Before(i, j) \in After(0)
                              /\ answers'[j].ok = answers[Before(i, j)].ok
                              /\ answers'[j].change = answers[Before(i, j)].change
      /\ \A m \in After(0) : m # i => \E j \in After(0)' : Before(i, j) = m
  <2>1. \A m : m \in After(0) <=> m \in 1..n /\ answers[m].op = "change"
    BY <1>1 DEF After
  <2>2. \A j : j \in After(0)' <=> j \in 1..(n - 1) /\ answers'[j].op = "change"
    BY <1>1 DEF After
  <2>3. ASSUME NEW j \in After(0)'
        PROVE  /\ j \in 1..(n - 1) /\ Before(i, j) \in After(0)
               /\ answers'[j].ok = answers[Before(i, j)].ok
               /\ answers'[j].change = answers[Before(i, j)].change
    <3>1. j \in 1..(n - 1) /\ answers'[j].op = "change"
      BY <2>2
    <3>2. /\ Before(i, j) \in 1..n /\ answers'[j].op = answers[Before(i, j)].op
          /\ answers'[j].ok = answers[Before(i, j)].ok
          /\ answers'[j].change = answers[Before(i, j)].change
      BY <1>3, <3>1
    <3>3. QED BY <2>1, <3>1, <3>2
  <2>4. ASSUME NEW m \in After(0), m # i PROVE \E j \in After(0)' : Before(i, j) = m
    <3>1. PICK j \in 1..(n - 1) : Before(i, j) = m
      BY <1>3, <2>1, <2>4
    <3>2. answers'[j].op = "change"
      BY <1>1, <2>1, <2>4, <3>1
    <3>3. QED BY <2>2, <3>1, <3>2
  <2>5. QED BY <2>3, <2>4
<1>5. i \in After(0) /\ \A m \in After(0) : m # i => m > i
  <2>1. i \in After(0)
    BY <1>1 DEF After
  <2>2. ASSUME NEW m \in After(0), m # i PROVE m > i
    <3>1. m \in 1..n /\ answers[m].op = "change"
      BY DEF After
    <3>2. ~(m \in 1..(i - 1))
      BY <3>1 DEF Overtaken
    <3>3. QED BY <2>2, <3>1, <3>2
  <2>3. QED BY <2>1, <2>2
<1>6. Anchor(0) = shown /\ Anchor(0)' = shown'
  BY DEF Anchor
<1>7. /\ Once(Contents(selected))' = Once(Contents(selected))
      /\ Contents(selected)' = Contents(selected)
  BY DEF Once, Contents
<1>7a. SUFFICES ASSUME Clean(0)' PROVE Follows(0)'
  BY DEF Follows
<1>7b. Clean(0)
  <2>1. ASSUME NEW m \in After(0)
        PROVE  /\ Departs(answers[m].change) => answers[m].change.workspace # selected
               /\ panel = "shares" => answers[m].ok /\ answers[m].change.workspace = selected
    <3>1. CASE m = i
      BY <1>1, <1>2, <3>1
    <3>2. CASE m # i
      <4>1. PICK j \in After(0)' : Before(i, j) = m
        BY <1>4, <3>2
      <4>2. /\ Departs(answers'[j].change) => answers'[j].change.workspace # selected
            /\ panel = "shares" => answers'[j].ok /\ answers'[j].change.workspace = selected
        BY <1>7a DEF Clean
      <4>3. answers'[j].ok = answers[m].ok /\ answers'[j].change = answers[m].change
        BY <1>4, <4>1
      <4>4. QED BY <4>2, <4>3
    <3>3. QED BY <3>1, <3>2
  <2>2. QED BY <2>1 DEF Clean
<1>8. CASE panel = "todos"
  <2>1. /\ shown = Once(Contents(selected))
        /\ \A j \in After(0) : answers[j].ok => Harmless(answers[j].change)
    BY <1>6, <1>7b, <1>8 DEF Follows
  <2>2. shown' = shown
    <3>1. CASE ~a.ok
      BY <1>1, <3>1, EditedList
    <3>2. CASE a.ok
      <4>0. a.change.op \in {"create", "update", "remove"}
        BY <1>1, <1>2 DEF Fits, Change, Departs
      <4>1. a.change.op # "create" /\ \A r \in Contents(selected) : r.key # k
        <5>1. Harmless(a.change)
          BY <1>5, <2>1, <3>2
        <5>2. QED BY <1>2, <4>0, <5>1 DEF Harmless
      <4>2. \A r \in Row : r.key = k => shown[r] = 0
        BY <2>1, <4>1 DEF Once
      <4>3. \A r \in Row : r.key = k => Copies(r) = 0
        <5>1. SUFFICES ASSUME NEW r \in Row, r.key = k PROVE Copies(r) = 0
          OBVIOUS
        <5>2. Twin(r) \in Row /\ Twin(r).key = k
          BY <5>1, Twins
        <5>3. QED BY <4>2, <5>1, <5>2, Copied DEF Basics
      <4>4. \A r \in Row : shown'[r] = shown[r]
        <5>1. CASE a.change.op = "update"
          <6>1. PICK row \in Row :
                   \A r \in Row : shown'[r] = IF r.key # k THEN shown[r]
                                              ELSE IF r = row THEN Copies(r) ELSE 0
            <7>1. shown' = Edited(a) /\ a.op = "change"
              BY <1>1
            <7>2. QED BY <3>2, <5>1, <7>1, EditedByUpdate
          <6>2. QED BY <4>2, <4>3, <6>1
        <5>2. CASE a.change.op = "remove"
          <6>1. \A r \in Row : shown'[r] = IF r.key # k THEN shown[r] ELSE 0
            BY <1>1, <3>2, <5>2, EditedList
          <6>2. QED BY <4>2, <6>1
        <5>3. QED BY <1>1, <3>2, <4>1, <5>1, <5>2, EditedList
      <4>5. QED BY <1>1, <4>4
    <3>3. QED BY <3>1, <3>2
  <2>3. ASSUME NEW j \in After(0)', answers'[j].ok PROVE Harmless(answers[j].change)'
    <3>1. Harmless(answers[Before(i, j)].change)
      BY <1>4, <2>1, <2>3
    <3>2. answers'[j].change = answers[Before(i, j)].change
      BY <1>4, <2>3
    <3>3. QED BY <1>7, <3>1, <3>2 DEF Harmless
  <2>4. (Anchor(0) = Once(Contents(selected)))'
    BY <1>6, <1>7, <2>1, <2>2
  <2>5. QED BY <1>8, <2>3, <2>4 DEF Follows
<1>9. CASE panel = "shares"
  <2>2. a.ok
    BY <1>2, <1>9
  <2>4. /\ \A r \in Row : shown[r] > 0 => r.workspace = selected
        /\ \A q \in Keys : \A r \in Row :
              r.key = q /\ (\A j \in After(0) : answers[j].change.key # q) =>
                  shown[r] = Once(Contents(selected))[r]
        /\ \A j \in After(0) :
              (\A m \in After(0) : m > j => answers[m].change.key # answers[j].change.key)
              => (answers[j].change.op = "create"
                     <=> \E r \in Contents(selected) : r.key = answers[j].change.key)
    BY <1>6, <1>7b, <1>9 DEF Follows
  <2>5. /\ a.change.op \in {"create", "remove"}
        /\ a.change.op = "create" =>
              \E row \in Row :
                  /\ row.workspace = selected /\ ~row.done /\ row.key = k
                  /\ \A r \in Row :
                        shown'[r] = IF r = row THEN shown[r] + Adds(row) ELSE shown[r]
        /\ a.change.op = "remove" =>
              \A r \in Row : shown'[r] = IF r.key # k THEN shown[r] ELSE 0
    <3>1. /\ a.op = "change" /\ ~Departs(a.change) /\ shown' = Edited(a)
          /\ a.change.workspace = selected /\ a.change.key = k
      BY <1>1, <1>2, <1>9
    <3>2. /\ a.change.op \in {"create", "remove"}
          /\ a.change.op = "create" =>
                \E row \in Row :
                    /\ row.workspace = a.change.workspace /\ ~row.done
                    /\ row.key = a.change.key
                    /\ \A r \in Row :
                          Edited(a)[r] = IF r = row THEN shown[r] + Adds(row) ELSE shown[r]
          /\ a.change.op = "remove" =>
                \A r \in Row : Edited(a)[r] = IF r.key # a.change.key THEN shown[r] ELSE 0
      BY <1>9, <2>2, <3>1, EditedByOthers
    <3> HIDE DEF a, k
    <3>3. QED BY <3>1, <3>2
  <2>6. \A r \in Row : r.key # k => shown'[r] = shown[r]
    BY <2>5
  <2>7. ASSUME NEW r \in Row, shown'[r] > 0 PROVE r.workspace = selected
    <3>1. CASE shown[r] > 0
      BY <2>4, <3>1
    <3>2. CASE shown[r] = 0
      <4>1. CASE a.change.op = "create"
        <5>1. PICK row \in Row :
                 /\ row.workspace = selected
                 /\ shown'[r] = IF r = row THEN shown[r] + Adds(row) ELSE shown[r]
          BY <2>5, <4>1
        <5>2. QED BY <2>7, <3>2, <5>1
      <4>2. CASE a.change.op = "remove"
        BY <2>5, <2>7, <3>2, <4>2
      <4>3. QED BY <2>5, <4>1, <4>2
    <3>3. QED BY <1>1, <3>1, <3>2
  <2>8. ASSUME NEW q \in Keys, NEW r \in Row, r.key = q,
               \A j \in After(0)' : answers'[j].change.key # q
        PROVE  shown'[r] = Once(Contents(selected))[r]
    <3>1. \A m \in After(0) : m # i => answers[m].change.key # q
      BY <1>4, <2>8
    <3>2. CASE q # k
      <4>1. answers[i].change.key # q
        BY <3>2
      <4>2. \A m \in After(0) : answers[m].change.key # q
        BY <3>1, <4>1
      <4>3. shown[r] = Once(Contents(selected))[r]
        BY <2>4, <2>8, <4>2
      <4>4. QED BY <2>6, <2>8, <3>2, <4>3
    <3>3. CASE q = k
      <4>1. a.change.op = "create" <=> \E s \in Contents(selected) : s.key = k
        <5>1. \A m \in After(0) : m > i => answers[m].change.key # k
          <6>1. \A m \in After(0) : m > i => m # i
            OBVIOUS
          <6>2. QED BY <3>1, <3>3, <6>1
        <5>2. QED BY <1>5, <2>4, <5>1
      <4>2. CASE a.change.op = "remove"
        BY <2>5, <2>8, <3>3, <4>1, <4>2 DEF Once
      <4>3. CASE a.change.op = "create"
        <5>1. PICK row \in Row :
                 /\ row.workspace = selected /\ ~row.done /\ row.key = k
                 /\ \A s \in Row :
                       shown'[s] = IF s = row THEN shown[s] + Adds(row) ELSE shown[s]
          BY <2>5, <4>3
        <5>2. \A s \in Row : s.workspace = selected /\ ~s.done /\ s.key = k => s = row
          BY <5>1 DEF Row
        <5>3. Contents(selected) \subseteq Row /\ \A s \in Contents(selected) : ~s.done
          BY <1>9, Typed DEF Contents, Basics, SharesPlain
        <5>4. row \in Contents(selected)
          BY <4>1, <4>3, <5>2, <5>3 DEF Contents
        <5>5. \A s \in Listed : s \in Row /\ ~s.done
          BY <1>9 DEF Basics, SharesPlain, Listed
        <5>6. shown'[row] > 0
          <6>1. CASE \E s \in Listed : Name(s) = Name(row)
            <7>1. row \in Listed
              BY <5>1, <5>2, <5>5, <6>1 DEF Name
            <7>2. shown[row] > 0 /\ Adds(row) \in {0, 1}
              BY <7>1 DEF Listed, Adds
            <7>3. QED BY <1>1, <5>1, <7>2
          <6>2. CASE ~\E s \in Listed : Name(s) = Name(row)
            <7>1. Adds(row) = 1
              BY <6>2 DEF Adds
            <7>2. QED BY <1>1, <5>1, <7>1
          <6>3. QED BY <6>1, <6>2
        <5>7. shown'[row] <= 1
          <6>1. Copies(row)' <= 1
            BY <1>9 DEF ListedOnce
          <6>2. Copies(row)' = shown'[row] + shown'[Twin(row)] /\ Twin(row) \in Row
            BY Twins DEF Copies, Twin
          <6>3. shown'[row] \in Nat /\ shown'[Twin(row)] \in Nat
            BY <1>1, <6>2
          <6>4. QED BY <6>1, <6>2, <6>3
        <5>8. shown'[row] = 1
          BY <1>1, <5>6, <5>7
        <5>9. CASE r = row
          BY <5>4, <5>8, <5>9 DEF Once
        <5>10. CASE r # row
          <6>1. shown'[r] = shown[r]
            BY <5>1, <5>10
          <6>2. ~(r.workspace = selected /\ ~r.done)
            BY <2>8, <3>3, <5>2, <5>10
          <6>3. r \notin Listed /\ r \notin Contents(selected)
            BY <2>4, <5>3, <5>5, <6>2 DEF Listed, Contents
          <6>4. shown[r] = 0
            BY <1>1, <6>3 DEF Listed
          <6>5. QED BY <6>1, <6>3, <6>4 DEF Once
        <5>11. QED BY <5>9, <5>10
      <4>4. QED BY <2>5, <4>2, <4>3
    <3>4. QED BY <3>2, <3>3
  <2>9. ASSUME NEW j \in After(0)',
               \A m \in After(0)' : m > j => answers'[m].change.key # answers'[j].change.key
        PROVE  answers'[j].change.op = "create"
                  <=> \E r \in Contents(selected)' : r.key = answers'[j].change.key
    <3> DEFINE p == Before(i, j)
    <3>1. p \in After(0) /\ answers'[j].change = answers[p].change /\ j \in 1..(n - 1) /\ p # i
      BY <1>1, <1>4, <2>9 DEF Before
    <3>2. p > i
      BY <1>5, <3>1
    <3>3. ASSUME NEW m \in After(0), m > p PROVE answers[m].change.key # answers[p].change.key
      <4>1. m # i
        BY <3>2, <3>3 DEF After, Before
      <4>2. PICK l \in After(0)' : Before(i, l) = m
        BY <1>4, <4>1
      <4>3. l \in 1..(n - 1) /\ answers'[l].change = answers[m].change
        BY <1>4, <4>2
      <4>4. l > j
        BY <1>3, <3>1, <3>3, <4>2, <4>3
      <4>5. QED BY <2>9, <3>1, <4>3, <4>4
    <3> HIDE DEF p
    <3>4. QED BY <1>7, <2>4, <3>1, <3>3
  <2>10. QED BY <1>6, <1>7, <1>9, <2>7, <2>8, <2>9 DEF Follows
<1>10. QED BY <1>1, <1>8, <1>9

\* The first of the answers left was the deletion of another workspace.
LEMMA FirstDeparts ==
    ASSUME Basics, NEW i \in 1..Len(answers), answers[i].op = "change",
           Departs(answers[i].change), answers[i].change.workspace # selected,
           panel = "todos", UNCHANGED <<panel, rows, selected, shown>>,
           Len(answers') = Len(answers) - 1,
           \A j \in 1..Len(answers') : /\ answers'[j].op = answers[Before(i, j)].op
                                       /\ answers'[j].ok = answers[Before(i, j)].ok
                                       /\ answers'[j].change = answers[Before(i, j)].change,
           Follows(0)
    PROVE  Follows(0)'
<1> DEFINE n == Len(answers)
<1>1. n \in Nat /\ i \in 1..n /\ Len(answers') = n - 1
  BY Typed
<1>2. /\ \A m : m \in After(0) <=> m \in 1..n /\ answers[m].op = "change"
      /\ \A j : j \in After(0)' <=> j \in 1..(n - 1) /\ answers'[j].op = "change"
  BY <1>1 DEF After
<1> HIDE DEF n
<1>3. /\ \A j \in 1..(n - 1) : Before(i, j) \in 1..n
      /\ \A m \in 1..n : m # i => \E j \in 1..(n - 1) : Before(i, j) = m
  BY <1>1, BeforeShifts DEF Shifts
<1>4. \A j \in After(0)' : /\ Before(i, j) \in After(0)
                           /\ answers'[j].ok = answers[Before(i, j)].ok
                           /\ answers'[j].change = answers[Before(i, j)].change
  <2>1. SUFFICES ASSUME NEW j \in After(0)'
                 PROVE  /\ Before(i, j) \in After(0)
                        /\ answers'[j].ok = answers[Before(i, j)].ok
                        /\ answers'[j].change = answers[Before(i, j)].change
    OBVIOUS
  <2>2. j \in 1..(n - 1) /\ answers'[j].op = "change"
    BY <1>2, <2>1
  <2>3. /\ Before(i, j) \in 1..n /\ answers'[j].op = answers[Before(i, j)].op
        /\ answers'[j].ok = answers[Before(i, j)].ok
        /\ answers'[j].change = answers[Before(i, j)].change
    BY <1>1, <1>3, <2>2
  <2>4. QED BY <1>2, <2>2, <2>3
<1>5. \A m \in After(0) : m # i => \E j \in After(0)' : Before(i, j) = m
  <2>1. SUFFICES ASSUME NEW m \in After(0), m # i
                 PROVE  \E j \in After(0)' : Before(i, j) = m
    OBVIOUS
  <2>2. m \in 1..n /\ answers[m].op = "change"
    BY <1>2, <2>1
  <2>3. PICK j \in 1..(n - 1) : Before(i, j) = m
    BY <1>3, <2>1, <2>2
  <2>4. answers'[j].op = "change"
    BY <1>1, <2>2, <2>3
  <2>5. QED BY <1>2, <2>3, <2>4
<1>6. SUFFICES ASSUME Clean(0)' PROVE Follows(0)'
  BY DEF Follows
<1>7. Clean(0)
  <2>1. ASSUME NEW m \in After(0), Departs(answers[m].change)
        PROVE  answers[m].change.workspace # selected
    <3>1. CASE m = i
      BY <3>1
    <3>2. CASE m # i
      <4>1. PICK j \in After(0)' : Before(i, j) = m
        BY <1>5, <3>2
      <4>2. Departs(answers'[j].change) => answers'[j].change.workspace # selected
        BY <1>6 DEF Clean
      <4>3. answers'[j].change = answers[m].change
        BY <1>4, <4>1
      <4>4. QED BY <2>1, <4>2, <4>3
    <3>3. QED BY <3>1, <3>2
  <2>2. QED BY <2>1 DEF Clean
<1>8. /\ Anchor(0) = Once(Contents(selected))
      /\ \A j \in After(0) : answers[j].ok => Harmless(answers[j].change)
  BY <1>7 DEF Follows
<1>9. Contents(selected)' = Contents(selected)
  BY DEF Contents
<1>10. (Anchor(0) = Once(Contents(selected)))'
  BY <1>8, <1>9 DEF Anchor, Once
<1>11. ASSUME NEW j \in After(0)', answers'[j].ok PROVE Harmless(answers[j].change)'
  <2>1. Harmless(answers[Before(i, j)].change)
    BY <1>4, <1>8, <1>11
  <2>2. answers'[j].change = answers[Before(i, j)].change
    BY <1>4
  <2>3. QED BY <1>9, <2>1, <2>2 DEF Harmless
<1>12. QED BY <1>10, <1>11 DEF Follows

LEMMA ArriveAnchors ==
    ASSUME Basics, Basics', Overtaking, Anchors, NEW i \in 1..Len(answers),
           Arrive(i) \/ (ArriveDeparture(i) /\ UNCHANGED selected)
    PROVE  Anchors'
<1> DEFINE n == Len(answers)
           a == answers[i]
<1>1. /\ n \in Nat /\ Len(answers') = n - 1 /\ a \in Answer
      /\ \A j \in 1..Len(answers') :
            /\ answers'[j].op = answers[Before(i, j)].op
            /\ answers'[j].ok = answers[Before(i, j)].ok
            /\ answers'[j].rows = answers[Before(i, j)].rows
            /\ answers'[j].change = answers[Before(i, j)].change
            /\ answers'[j].late =
                  \/ answers[Before(i, j)].late
                  \/ Before(i, j) \in Overtaken(i) /\ IsList(answers[Before(i, j)])
  <2>1. answers' = Rest(i)
    BY DEF Arrive, ArriveDeparture, Turned
  <2>2. TypeOK /\ n \in Nat /\ a \in Answer
    BY Typed DEF Basics
  <2>3. QED BY <2>1, <2>2, RestNext
<1>2. /\ UNCHANGED <<panel, rows, selected>> /\ Quiet' = Quiet
      /\ ArriveChange(a) \/ ArriveList(a) \/ ArriveDeparture(i)
      /\ astray' = (Misleads(a, i) \/ (astray /\ ~Heals(a)))
  <2>1. ArriveDeparture(i) => ~Heals(a)
    BY DEF ArriveDeparture, Heals
  <2>2. QED BY <2>1 DEF Arrive, ArriveDeparture, Turned, database, stream, Quiet
<1>3. SUFFICES ASSUME Quiet', NEW g \in 0..Len(answers'), Anchored(g)' PROVE Follows(g)'
  BY DEF Anchors, Quiet
<1>4. /\ \A j \in 1..(n - 1) : Before(i, j) \in 1..n /\ Before(i, j) # i
      /\ \A j, m \in 1..(n - 1) : j < m <=> Before(i, j) < Before(i, m)
      /\ \A m \in 1..n : m # i => \E j \in 1..(n - 1) : Before(i, j) = m
  <2>1. /\ \A j \in 1..(n - 1) : Before(i, j) \in 1..n /\ Before(i, j) # i
        /\ \A j, m \in 1..(n - 1) : j < m <=> Before(i, j) < Before(i, m)
    BY <1>1 DEF Before
  <2>2. QED BY <1>1, <2>1, BeforeAll
<1>5. CASE g # 0
  <2> DEFINE h == Before(i, g)
  <2>1. h \in 1..n /\ h # i /\ g \in 1..(n - 1)
    <3>1. g \in 0..(n - 1)
      BY <1>1, <1>3
    <3>2. g \in 1..(n - 1)
      BY <1>1, <1>5, <3>1
    <3>3. QED BY <1>4, <3>2
  <2>2. IsList(answers[h]) /\ answers[h].ok /\ ~answers[h].late /\ h \notin Overtaken(i)
    <3>1. IsList(answers'[g]) /\ answers'[g].ok /\ ~answers'[g].late
      BY <1>3, <1>5 DEF Anchored, IsList
    <3>2. QED BY <1>1, <2>1, <3>1 DEF IsList
  <2>3. h > i
    BY <1>1, <2>1, <2>2 DEF Overtaken, IsList
  <2>4. \A j \in (h + 1)..n : ~IsList(answers[j])
    <3>1. SUFFICES ASSUME NEW m \in (h + 1)..n PROVE ~IsList(answers[m])
      OBVIOUS
    <3>2. m \in 1..n /\ m # i /\ m > h
      BY <1>1, <2>1, <2>3, <3>1
    <3>3. PICK j \in 1..(n - 1) : Before(i, j) = m
      BY <1>4, <3>2
    <3>4. j > g
      BY <1>4, <2>1, <3>2, <3>3
    <3>5. j \in (g + 1)..Len(answers') /\ answers'[j].op = answers[m].op
      <4>1. j \in 1..Len(answers') /\ g \in Nat
        BY <1>1, <2>1, <3>3
      <4>2. answers'[j].op = answers[m].op
        BY <1>1, <3>3, <4>1
      <4>3. QED BY <3>4, <4>1, <4>2
    <3>6. QED BY <1>3, <3>5 DEF Anchored, IsList
  <2>5. /\ \A j \in 1..Len(answers') : j > g <=> Before(i, j) > h
        /\ answers'[g].rows = answers[h].rows
    BY <1>1, <1>4, <2>1
  <2> HIDE DEF h
  <2>6. h # 0 /\ h \in 0..n /\ Anchored(h)
    BY <1>1, <2>1, <2>2, <2>4 DEF Anchored
  <2>7. Follows(h)
    BY <1>2, <1>3, <2>6 DEF Anchors, Quiet
  <2>8. Anchor(g)' = Anchor(h)
    BY <1>5, <2>5, <2>6 DEF Anchor, Once
  <2>9. i \notin After(h) /\ h \in Nat /\ g \in Nat
    BY <1>1, <2>1, <2>3 DEF After
  <2>10. QED BY <1>1, <1>2, <2>5, <2>7, <2>8, <2>9, FollowsShifted
<1>6. CASE g = 0
  <2>1. ~astray' /\ \A j \in 1..(n - 1) : ~IsList(answers'[j])
    BY <1>1, <1>3, <1>6 DEF Anchored, IsList
  <2>2. ~Misleads(a, i) /\ (~astray \/ Heals(a)) /\ Overtaken(i) = {}
    BY <1>2, <2>1 DEF Misleads
  <2>3. \A m \in 1..n : m # i => ~IsList(answers[m])
    <3>1. SUFFICES ASSUME NEW m \in 1..n, m # i PROVE ~IsList(answers[m])
      OBVIOUS
    <3>2. PICK j \in 1..(n - 1) : Before(i, j) = m
      BY <1>4, <3>1
    <3>3. QED BY <1>1, <2>1, <3>2 DEF IsList
  <2>4. CASE ArriveChange(a)
    <3>1. ~IsList(a) /\ ~Heals(a)
      BY <2>4 DEF ArriveChange, IsList, Heals
    <3>2. Anchored(0)
      BY <1>1, <2>2, <2>3, <3>1 DEF Anchored
    <3>3. Follows(0)
      BY <1>1, <1>2, <1>3, <3>2 DEF Anchors, Quiet
    <3>4. ListedOnce'
      BY DEF Basics
    <3>5. QED BY <1>1, <1>2, <1>6, <2>2, <2>4, <3>3, <3>4, FirstArrives
  <2>5. CASE ArriveList(a)
    <3>1. a.op \in {"load", "refetch"} /\ a.ok
      BY <2>2, <2>5 DEF ArriveList, Misleads
    <3>2. shown' = Once(a.rows)
      BY <2>5, <3>1 DEF ArriveList
    <3>3. ~a.late
      <4>1. a.late => astray
        BY <3>1 DEF Overtaking, IsList
      <4>2. QED BY <2>2, <4>1 DEF Heals
    <3>4. i # 0 /\ i \in 0..n /\ i \in Nat /\ Anchored(i)
      <4>1. \A j \in (i + 1)..n : ~IsList(answers[j])
        <5>1. \A j \in (i + 1)..n : j \in 1..n /\ j # i
          BY <1>1
        <5>2. QED BY <2>3, <5>1
      <4>2. QED BY <1>1, <3>1, <3>3, <4>1 DEF Anchored, IsList
    <3>5. Follows(i)
      BY <1>2, <1>3, <3>4 DEF Anchors, Quiet
    <3>6. Anchor(0)' = Anchor(i) /\ i \notin After(i)
      BY <1>1, <3>2, <3>4 DEF Anchor, After
    <3>7. ASSUME NEW j \in 1..Len(answers'), answers'[j].op = "change"
          PROVE  j > 0 <=> Before(i, j) > i
      <4>1. answers[Before(i, j)].op = "change" /\ Before(i, j) \in 1..n
        BY <1>1, <1>4, <3>7
      <4>2. Before(i, j) \notin 1..(i - 1)
        BY <2>2, <4>1 DEF Overtaken
      <4>3. j \in 1..(n - 1) /\ i \in 1..n /\ n \in Nat
        BY <1>1, <3>7
      <4>4. Before(i, j) # i
        BY <1>4, <4>3
      <4>5. QED BY <4>1, <4>2, <4>3, <4>4
    <3>8. QED BY <1>1, <1>2, <1>6, <3>4, <3>5, <3>6, <3>7, FollowsShifted
  <2>6. CASE ArriveDeparture(i)
    <3>1. a.op = "change" /\ Departs(a.change) /\ a.ok
      BY <2>6 DEF ArriveDeparture
    <3>2. ~IsList(a) /\ ~Heals(a)
      BY <3>1 DEF IsList, Heals
    <3>3. a.change.workspace # selected
      BY <1>2, <2>6 DEF ArriveDeparture, Turned
    <3>4. panel = "todos"
      BY <2>2, <3>1, <3>3 DEF Misleads
    <3>5. shown' = shown
      BY <2>6, <3>4 DEF ArriveDeparture
    <3>6. Anchored(0)
      BY <1>1, <2>2, <2>3, <3>2 DEF Anchored
    <3>7. Follows(0)
      BY <1>1, <1>2, <1>3, <3>6 DEF Anchors, Quiet
    <3>8. QED BY <1>1, <1>2, <1>6, <3>1, <3>3, <3>4, <3>5, <3>7, FirstDeparts
  <2>7. QED BY <1>2, <2>4, <2>5, <2>6
<1>7. QED BY <1>5, <1>6

-----------------------------------------------------------------------------
LEMMA InvInit == Init => Inv
<1> SUFFICES ASSUME Init PROVE Inv
  OBVIOUS
<1>1. Overtaking /\ Anchors
  BY DEF Init, Overtaking, Anchors
<1>2. QED BY <1>1, BasicsInit DEF Inv

LEMMA InvNext == Inv /\ [Next]_vars => Inv'
<1> SUFFICES ASSUME Inv, [Next]_vars PROVE Inv'
  OBVIOUS
<1>1. Basics /\ Overtaking /\ Anchors
  BY DEF Inv
<1>2. Basics' /\ Overtaking'
  BY <1>1, BasicsNext, OvertakingNext
<1>3. Anchors'
  <2>1. CASE \E w \in Workspaces : Select(w)
    BY <2>1 DEF Select, Turned, Anchors
  <2>2. CASE Create \/ Update \/ Delete \/ Leave \/ DeleteWorkspace
    <3>1. UNCHANGED <<panel, database, selected, list, load, stream, answers>>
      BY <2>2 DEF Create, Update, Delete, Leave, DeleteWorkspace, Ask
    <3>2. Contents(selected)' = Contents(selected) /\ Quiet' = Quiet
      BY <3>1 DEF Contents, database, stream, Quiet
    <3>3. QED BY <1>1, <3>1, <3>2, AnchorsStill DEF list
  <2>3. CASE ServeLoad \/ ServeRefetch
    BY <1>1, <2>3, ReadAnchors
  <2>4. CASE ServeChange
    BY <1>1, <2>4, ServeChangeAnchors
  <2>5. CASE Others
    BY <1>1, <2>5, OthersAnchors
  <2>6. CASE OnEvent
    <3>1. UNCHANGED <<panel, database, selected, list, load, answers>>
      BY <2>6 DEF OnEvent
    <3>2. Contents(selected)' = Contents(selected)
      BY <3>1 DEF Contents, database
    <3>3. refetches' + events' = refetches + events
      BY <1>1, <2>6 DEF OnEvent, Basics, TypeOK
    <3>4. QED BY <1>1, <3>1, <3>2, <3>3, AnchorsStill DEF list, Quiet
  <2>7. ASSUME NEW i \in 1..Len(answers), Arrive(i) PROVE Anchors'
    BY <1>1, <1>2, <2>7, ArriveAnchors
  <2>8. ASSUME NEW i \in 1..Len(answers), ArriveIgnored(i) PROVE Anchors'
    BY <1>1, <2>8, ArriveIgnoredAnchors
  <2>8a. ASSUME NEW i \in 1..Len(answers), ArriveDeparture(i) PROVE Anchors'
    <3>1. CASE selected' = selected
      BY <1>1, <1>2, <2>8a, <3>1, ArriveAnchors
    <3>2. CASE selected' # selected
      BY <2>8a, <3>2 DEF ArriveDeparture, Turned, Anchors
    <3>3. QED BY <3>1, <3>2
  <2>9. CASE UNCHANGED vars
    <3>1. UNCHANGED <<panel, database, selected, list, load, stream, answers>>
      BY <2>9 DEF vars
    <3>2. Contents(selected)' = Contents(selected) /\ Quiet' = Quiet
      BY <3>1 DEF Contents, database, stream, Quiet
    <3>3. QED BY <1>1, <3>1, <3>2, AnchorsStill DEF list
  <2>10. QED BY <2>1, <2>2, <2>3, <2>4, <2>5, <2>6, <2>7, <2>8, <2>8a, <2>9 DEF Next
<1>4. QED BY <1>2, <1>3 DEF Inv

LEMMA Invariance == Spec => []Inv
BY InvInit, InvNext, PTL DEF Spec

\* The types; and the list counts as loading exactly until the answer to its load
\* has arrived.
THEOREM Types == Spec => []TypeOK
<1>1. Inv => TypeOK
  BY DEF Inv, Basics
<1>2. QED BY <1>1, Invariance, PTL

\* However requests and selections interleave, once the list of the selected
\* workspace has been loaded it has no row of another workspace but those this
\* client created there after leaving it (isActive in both effects).
THEOREM KeepsForeignRowsOut == Spec => []NoForeignRows
<1>1. Inv => NoForeignRows
  BY DEF Inv, Basics
<1>2. QED BY <1>1, Invariance, PTL

\* However the answers are reordered, a collaborator is listed once and a todo twice
\* at most, and then only if this client has created it and not loaded the list since.
THEOREM ListsOnce == Spec => []ListedOnce
<1>1. Inv => ListedOnce
  BY DEF Inv, Basics
<1>2. QED BY <1>1, Invariance, PTL

\* At rest the list is what the database has of the selected workspace, unless an
\* answer has led it astray since it was last loaded.
THEOREM Settles == Spec => []SettledShowsServer
<1>1. ASSUME Inv PROVE SettledShowsServer
  <2>1. SUFFICES ASSUME ~load, ~(refetches + events > 0), answers = <<>>, ~astray
                 PROVE  shown = Once(Contents(selected))
    BY DEF SettledShowsServer
  <2>2. Basics /\ Anchors /\ Len(answers) = 0
    BY <1>1, <2>1 DEF Inv
  <2>3. refetches + events = 0
    BY <2>1, <2>2 DEF Basics, TypeOK
  <2>4. Anchored(0) /\ After(0) = {} /\ Anchor(0) = shown
    BY <2>1, <2>2 DEF Anchored, After, Anchor
  <2>5. Follows(0)
    BY <2>1, <2>2, <2>3, <2>4 DEF Anchors
  <2>6. Clean(0)
    BY <2>4 DEF Clean
  <2>7. CASE panel = "todos"
    BY <2>4, <2>5, <2>6, <2>7 DEF Follows
  <2>8. CASE panel # "todos"
    <3>1. \A r \in Row : shown[r] = Once(Contents(selected))[r]
      BY <2>4, <2>5, <2>6, <2>8 DEF Follows, Row
    <3>2. shown \in [Row -> Nat] /\ Once(Contents(selected)) \in [Row -> Nat]
      BY <2>2, Typed, OnceLists DEF Contents
    <3>3. QED BY <3>1, <3>2
  <2>9. QED BY <2>7, <2>8
<1>2. Inv => SettledShowsServer
  BY <1>1
<1>3. QED BY <1>2, Invariance, PTL

=============================================================================
