------------------------------- MODULE PageProofs -------------------------------
(***************************************************************************)
(* The types of PortfolioPage, that at rest it shows the chosen date, that *)
(* the list it patches is the ledger, and that what it shows is computed   *)
(* from all of it, for any number of transactions, dates and tasks.        *)
(***************************************************************************)
EXTENDS PortfolioPage, TLAPS

AnyTask == {Idle} \cup Reload \cup Fetch \cup Recalc \cup Save

\* The conjuncts of TypeOK that are not about tasks.
PageTyped ==
    /\ habits \in SUBSET Habits
    /\ ledger \in Ledger /\ positions \in Ledger /\ listed \in Ledger
    /\ loading \in BOOLEAN /\ error \in BOOLEAN /\ refreshing \in BOOLEAN
    /\ date \in Date \cup {""} /\ ref \in Date \cup {""}
    /\ timer \in Date \cup {"", None}
    /\ shown \in Maybe(Valuation)
    /\ modal \in Maybe([form : Form, txn : Maybe(Txn), task : Maybe(Task)])

TasksTyped == task \in [Task -> AnyTask]

\* A task that is running is a record of its kind.
LEMMA TaskKinds ==
    ASSUME TasksTyped, NEW k \in Task
    PROVE  /\ task[k] \in AnyTask
           /\ task[k].kind = "reload" => task[k] \in Reload
           /\ task[k].kind = "fetch" => task[k] \in Fetch
           /\ task[k].kind = "recalc" => task[k] \in Recalc
           /\ task[k].kind = "save" => task[k] \in Save
<1>1. task[k] \in AnyTask
  BY DEF TasksTyped
<1>2. CASE task[k] \in Reload
  BY <1>1, <1>2 DEF Reload
<1>3. CASE task[k] \in Fetch
  BY <1>1, <1>3 DEF Fetch
<1>4. CASE task[k] \in Recalc
  BY <1>1, <1>4 DEF Recalc
<1>5. CASE task[k] \in Save
  BY <1>1, <1>5 DEF Save
<1>6. CASE task[k] = Idle
  BY <1>6 DEF Idle, AnyTask
<1> QED
  BY <1>1, <1>2, <1>3, <1>4, <1>5, <1>6 DEF AnyTask

\* Replacing one task by a task, or ending it, keeps the types.
LEMMA TaskReplaced ==
    ASSUME TasksTyped, NEW k \in Task, NEW r \in AnyTask, task' = [task EXCEPT ![k] = r]
    PROVE  TasksTyped'
  BY DEF TasksTyped

\* The rows that a change touches are a patch, and a patched table is a table.
LEMMA PatchTyped ==
    ASSUME NEW s \in Save, ledger \in Ledger, NEW p \in Changes(s)
    PROVE  p \in Patch /\ Patched(ledger, p) \in Ledger
<1>1. s.content \in Content \cup {None}
  BY DEF Save, Maybe
<1>2. PICK S \in SUBSET Txn :
        p = [t \in S |-> IF s.form \in {"delete", "clear"} THEN None ELSE s.content]
  BY DEF Changes, RowSets
<1>3. p \in [S -> Content \cup {None}]
  BY <1>1, <1>2
<1>4. p \in Patch
  BY <1>3 DEF Patch
<1>5. Patched(ledger, p) \in Ledger
  BY <1>3 DEF Patched, Ledger
<1> QED
  BY <1>4, <1>5

LEMMA TypeParts == TypeOK <=> PageTyped /\ TasksTyped
  BY DEF TypeOK, PageTyped, TasksTyped, AnyTask

LEMMA TypePartsAfter == PageTyped' /\ TasksTyped' => TypeOK'
  BY DEF TypeOK, PageTyped, TasksTyped, AnyTask

\* The values that tasks are replaced by.
LEMMA NewTasks ==
    /\ Idle \in AnyTask /\ Reloading \in AnyTask
    /\ \A d \in Date : Fetching(d) \in AnyTask
    /\ \A d \in Date \cup {""} : Recalculating(d) \in AnyTask
  BY DEF Reloading, Fetching, Recalculating, AnyTask, Reload, Fetch, Recalc, Maybe

LEMMA InitTyped == Init => TypeOK
<1> SUFFICES ASSUME Init PROVE TypeOK
  OBVIOUS
<1>1. PageTyped
  BY PageAssumption DEF Init, PageTyped, NoRows, Ledger, Maybe
<1>2. TasksTyped
  BY NewTasks DEF Init, TasksTyped, FirstLoad
<1> QED
  BY <1>1, <1>2, TypeParts

LEMMA EndsTyped ==
    ASSUME TasksTyped, NEW k \in Task, Ends(k)
    PROVE  TasksTyped'
  BY NewTasks, TaskReplaced DEF Ends

\* The steps of the backend.
LEMMA AnswersTyped ==
    ASSUME TypeOK, NEW k \in Task, Answer(k)
    PROVE  TypeOK'
<1> USE DEF page
<1>0. PageTyped /\ TasksTyped
  BY TypeParts
<1>1. CASE AnswerValuation(k)
  <2>1. PICK d \in DatesFor(task[k].date) :
          task' = [task EXCEPT ![k].valuation = [date |-> d, held |-> positions]]
    BY <1>1 DEF AnswerValuation
  <2> DEFINE v == [date |-> d, held |-> positions]
  <2>2. task[k].kind \in {"reload", "fetch", "recalc"}
    BY <1>1 DEF AnswerValuation
  <2>3. task[k] \in Reload \cup Fetch \cup Recalc
    BY <1>0, <2>2, TaskKinds
  <2>4. v \in Valuation
    <3>1. task[k].date \in Date \cup {""}
      BY <2>3 DEF Reload, Fetch, Recalc
    <3> QED BY <1>0, <3>1 DEF Valuation, PageTyped, DatesFor
  <2>5. [task[k] EXCEPT !.valuation = v] \in AnyTask
    BY <2>3, <2>4 DEF AnyTask, Reload, Fetch, Recalc, Maybe
  <2>6. task' = [task EXCEPT ![k] = [task[k] EXCEPT !.valuation = v]]
    BY <2>1
  <2>7. TasksTyped'
    BY <1>0, <2>5, <2>6, TaskReplaced DEF Maybe
  <2>8. PageTyped'
    BY <1>0, <1>1 DEF AnswerValuation, PageTyped
  <2> QED BY <2>7, <2>8, TypePartsAfter
<1>2. CASE AnswerList(k)
  <2>1. task[k] \in Reload
    BY <1>0, <1>2, TaskKinds DEF AnswerList, Is
  <2>2. [task[k] EXCEPT !.list = ledger] \in AnyTask
    BY <1>0, <2>1 DEF AnyTask, Reload, Maybe, PageTyped
  <2>3. task' = [task EXCEPT ![k] = [task[k] EXCEPT !.list = ledger]]
    BY <1>2 DEF AnswerList
  <2>4. TasksTyped'
    BY <1>0, <2>2, <2>3, TaskReplaced DEF Maybe
  <2>5. PageTyped'
    BY <1>0, <1>2 DEF AnswerList, PageTyped
  <2> QED BY <2>4, <2>5, TypePartsAfter
<1>3. CASE AnswerRecalculate(k)
  <2>1. task[k] \in Recalc
    BY <1>0, <1>3, TaskKinds DEF AnswerRecalculate, Is
  <2>2. [task[k] EXCEPT !.done = TRUE] \in AnyTask
    BY <2>1 DEF AnyTask, Recalc
  <2>3. task' = [task EXCEPT ![k] = [task[k] EXCEPT !.done = TRUE]]
    BY <1>3 DEF AnswerRecalculate
  <2>4. TasksTyped'
    BY <1>0, <2>2, <2>3, TaskReplaced DEF Maybe
  <2>5. PageTyped'
    BY <1>0, <1>3 DEF AnswerRecalculate, PageTyped
  <2> QED BY <2>4, <2>5, TypePartsAfter
<1>4. CASE AnswerSave(k)
  <2>1. task[k] \in Save
    BY <1>0, <1>4, TaskKinds DEF AnswerSave, Is
  <2>2. PICK p \in Changes(task[k]) :
          /\ ledger' = Patched(ledger, p)
          /\ positions' = ledger'
          /\ task' = [task EXCEPT ![k].answer = "done", ![k].patch = p]
    BY <1>4 DEF AnswerSave
  <2>3. p \in Patch /\ ledger' \in Ledger
    BY <1>0, <2>1, <2>2, PatchTyped DEF PageTyped
  <2>4. [task[k] EXCEPT !.answer = "done", !.patch = p] \in AnyTask
    BY <2>1, <2>3 DEF AnyTask, Save
  <2>5. task' = [task EXCEPT ![k] = [task[k] EXCEPT !.answer = "done", !.patch = p]]
    BY <1>0, <2>2 DEF TasksTyped
  <2>6. TasksTyped'
    BY <1>0, <2>4, <2>5, TaskReplaced DEF Maybe
  <2>7. PageTyped'
    BY <1>0, <1>4, <2>2, <2>3 DEF AnswerSave, PageTyped
  <2> QED BY <2>6, <2>7, TypePartsAfter
<1>5. CASE AnswerHalfSaved(k)
  <2>1. task[k] \in Save
    BY <1>0, <1>5, TaskKinds DEF AnswerHalfSaved, Is
  <2>2. ledger' \in Ledger
    BY <1>0, <1>5, <2>1, PatchTyped DEF AnswerHalfSaved, PageTyped
  <2>3. [task[k] EXCEPT !.answer = "error"] \in AnyTask
    BY <2>1 DEF AnyTask, Save
  <2>4. task' = [task EXCEPT ![k] = [task[k] EXCEPT !.answer = "error"]]
    BY <1>5 DEF AnswerHalfSaved
  <2>5. TasksTyped'
    BY <1>0, <2>3, <2>4, TaskReplaced DEF Maybe
  <2>6. PageTyped'
    BY <1>0, <1>5, <2>2 DEF AnswerHalfSaved, PageTyped
  <2> QED BY <2>5, <2>6, TypePartsAfter
<1>6. CASE AnswerRefused(k)
  <2>1. task[k] \in Save
    BY <1>0, <1>6, TaskKinds DEF AnswerRefused, Is
  <2>2. [task[k] EXCEPT !.answer = "error"] \in AnyTask
    BY <2>1 DEF AnyTask, Save
  <2>3. task' = [task EXCEPT ![k] = [task[k] EXCEPT !.answer = "error"]]
    BY <1>6 DEF AnswerRefused
  <2>4. TasksTyped'
    BY <1>0, <2>2, <2>3, TaskReplaced DEF Maybe
  <2>5. PageTyped'
    BY <1>0, <1>6 DEF AnswerRefused, PageTyped
  <2> QED BY <2>4, <2>5, TypePartsAfter
<1> QED
  BY <1>1, <1>2, <1>3, <1>4, <1>5, <1>6 DEF Answer

\* The page goes on with an answer.
LEMMA ContinueTyped ==
    ASSUME TypeOK, NEW k \in Task, Continue(k)
    PROVE  TypeOK'
<1> USE DEF page
<1>0. PageTyped /\ TasksTyped
  BY TypeParts
<1>1. CASE Loaded(k)
  <2>1. task[k] \in Reload
    BY <1>0, <1>1, TaskKinds DEF Loaded, Is
  <2>2. task[k].valuation \in Valuation /\ task[k].list \in Ledger
    BY <1>1, <2>1 DEF Loaded, Reload, Maybe
  <2>3. PageTyped'
    BY <1>0, <1>1, <2>2 DEF Loaded, PageTyped, Valuation, Maybe
  <2>4. TasksTyped'
    BY <1>0, <1>1, EndsTyped DEF Loaded
  <2> QED BY <2>3, <2>4, TypePartsAfter
<1>2. CASE LoadFails(k)
  <2>1. PageTyped'
    BY <1>0, <1>2 DEF LoadFails, PageTyped
  <2>2. TasksTyped'
    BY <1>0, <1>2, EndsTyped DEF LoadFails
  <2> QED BY <2>1, <2>2, TypePartsAfter
<1>3. CASE FetchValuation(k)
  <2>1. timer \in Date \cup {""}
    BY <1>0, <1>3 DEF FetchValuation, PageTyped
  <2>2. PageTyped'
    BY <1>0, <1>3, <2>1 DEF FetchValuation, PageTyped
  <2>3. TasksTyped'
    <3>1. CASE timer = ""
      BY <1>0, <1>3, <3>1 DEF FetchValuation, TasksTyped
    <3>2. CASE timer # ""
      <4>1. Fetching(timer) \in AnyTask
        BY <2>1, <3>2, NewTasks DEF Maybe
      <4> QED BY <1>0, <1>3, <3>2, <4>1, TaskReplaced DEF FetchValuation
    <3> QED BY <3>1, <3>2
  <2> QED BY <2>2, <2>3, TypePartsAfter
<1>4. CASE FetchAnswered(k)
  <2>1. task[k] \in Fetch
    BY <1>0, <1>4, TaskKinds DEF FetchAnswered, Is
  <2>2. task[k].valuation \in Valuation
    BY <1>4, <2>1 DEF FetchAnswered, Fetch, Maybe
  <2>3. PageTyped'
    BY <1>0, <1>4, <2>2 DEF FetchAnswered, PageTyped, Maybe
  <2>4. TasksTyped'
    BY <1>0, <1>4, EndsTyped DEF FetchAnswered
  <2> QED BY <2>3, <2>4, TypePartsAfter
<1>5. CASE FetchFails(k)
  <2>1. PageTyped'
    BY <1>0, <1>5 DEF FetchFails, PageTyped
  <2>2. TasksTyped'
    BY <1>0, <1>5, EndsTyped DEF FetchFails
  <2> QED BY <2>1, <2>2, TypePartsAfter
<1>6. CASE SaveAnswered(k)
  <2>1. task[k] \in Save
    BY <1>0, <1>6, TaskKinds DEF SaveAnswered, Is
  <2>2. task[k].patch \in Patch /\ task[k].date \in Date \cup {""}
    BY <2>1 DEF Save
  <2>3. \A u \in DOMAIN task[k].patch : task[k].patch[u] \in Content \cup {None}
    <3>1. PICK S \in SUBSET Txn : task[k].patch \in [S -> Content \cup {None}]
      BY <2>2 DEF Patch
    <3> QED BY <3>1
  <2>4. listed' \in Ledger
    <3> DEFINE row(u) == IF Touches(listed, task[k], u) THEN task[k].patch[u] ELSE listed[u]
    <3>1. \A u \in Txn : listed[u] \in Content \cup {None}
      BY <1>0 DEF PageTyped, Ledger
    <3>2. \A u \in Txn : row(u) \in Content \cup {None}
      BY <2>3, <3>1 DEF Touches
    <3>3. listed' = [u \in Txn |-> row(u)]
      BY <1>6 DEF SaveAnswered, WithChange
    <3> HIDE DEF row
    <3> QED BY <3>2, <3>3 DEF Ledger
  <2>5. PageTyped'
    BY <1>0, <1>6, <2>4 DEF SaveAnswered, PageTyped, Maybe
  <2>6. Recalculating(task[k].date) \in AnyTask
    BY <2>2, NewTasks DEF Maybe
  <2>7. TasksTyped'
    BY <1>0, <1>6, <2>6, TaskReplaced DEF SaveAnswered
  <2> QED BY <2>5, <2>7, TypePartsAfter
<1>7. CASE SaveFails(k)
  <2>1. modal' \in Maybe([form : Form, txn : Maybe(Txn), task : Maybe(Task)])
    BY <1>0, <1>7 DEF SaveFails, PageTyped, Maybe
  <2>2. PageTyped'
    BY <1>0, <1>7, <2>1 DEF SaveFails, PageTyped
  <2>3. TasksTyped'
    BY <1>0, <1>7, EndsTyped DEF SaveFails
  <2> QED BY <2>2, <2>3, TypePartsAfter
<1>8. CASE RecalcAnswered(k)
  <2>1. task[k] \in Recalc
    BY <1>0, <1>8, TaskKinds DEF RecalcAnswered, Is
  <2>2. task[k].valuation \in Valuation
    BY <1>8, <2>1 DEF RecalcAnswered, Recalc, Maybe
  <2>3. PageTyped'
    BY <1>0, <1>8, <2>2 DEF RecalcAnswered, PageTyped, Maybe
  <2>4. TasksTyped'
    BY <1>0, <1>8, EndsTyped DEF RecalcAnswered
  <2> QED BY <2>3, <2>4, TypePartsAfter
<1>9. CASE RecalcFails(k)
  <2>1. PageTyped'
    BY <1>0, <1>9 DEF RecalcFails, PageTyped
  <2>2. TasksTyped'
    BY <1>0, <1>9, EndsTyped DEF RecalcFails
  <2> QED BY <2>1, <2>2, TypePartsAfter
<1> QED
  BY <1>1, <1>2, <1>3, <1>4, <1>5, <1>6, <1>7, <1>8, <1>9 DEF Continue

\* What the user does.
LEMMA UserTyped ==
    ASSUME TypeOK, User
    PROVE  TypeOK'
<1> USE DEF page
<1>0. PageTyped /\ TasksTyped
  BY TypeParts
<1>1. CASE CloseModal
  <2>1. PageTyped'
    BY <1>0, <1>1 DEF CloseModal, PageTyped, Maybe
  <2>2. TasksTyped'
    BY <1>0, <1>1 DEF CloseModal, TasksTyped
  <2> QED BY <2>1, <2>2, TypePartsAfter
<1>2. CASE Reopen
  <2>1. NoRows \in Ledger
    BY DEF NoRows, Ledger
  <2>2. PageTyped'
    BY <1>0, <1>2, <2>1 DEF Reopen, PageTyped, Maybe
  <2>3. TasksTyped'
    BY <1>2, NewTasks DEF Reopen, TasksTyped, FirstLoad, Maybe
  <2> QED BY <2>2, <2>3, TypePartsAfter
<1>3. ASSUME NEW d \in Date \cup {""}, HandleDateChange(d) PROVE TypeOK'
  <2>1. PageTyped'
    BY <1>0, <1>3 DEF HandleDateChange, PageTyped
  <2>2. TasksTyped'
    BY <1>0, <1>3 DEF HandleDateChange, TasksTyped
  <2> QED BY <2>1, <2>2, TypePartsAfter
<1>4. ASSUME NEW form \in Form, NEW t \in Maybe(Txn), OpenModal(form, t) PROVE TypeOK'
  <2>1. PageTyped'
    BY <1>0, <1>4 DEF OpenModal, PageTyped, Maybe
  <2>2. TasksTyped'
    BY <1>0, <1>4 DEF OpenModal, TasksTyped
  <2> QED BY <2>1, <2>2, TypePartsAfter
<1>5. ASSUME NEW k \in Task, NEW c \in Maybe(Content), Submit(k, c) PROVE TypeOK'
  <2> DEFINE r == [kind |-> "save", date |-> date, form |-> modal.form, txn |-> modal.txn,
                   content |-> c, answer |-> "none", patch |-> [u \in {} |-> None]]
  <2>1. modal \in [form : Form, txn : Maybe(Txn), task : Maybe(Task)]
    BY <1>0, <1>5 DEF Submit, PageTyped, Maybe
  <2>2. r.patch \in [{} -> Content \cup {None}]
    OBVIOUS
  <2>3. r.patch \in Patch
    BY <2>2 DEF Patch
  <2>4. r \in Save
    BY <1>0, <2>1, <2>3 DEF Save, PageTyped
  <2>5. task' = [task EXCEPT ![k] = r]
    BY <1>5 DEF Submit
  <2>6. r \in AnyTask
    BY <2>4 DEF Maybe, AnyTask
  <2>7. TasksTyped'
    BY <1>0, <2>5, <2>6, TaskReplaced
  <2>8. PageTyped'
    BY <1>0, <1>5, <2>1 DEF Submit, PageTyped, Maybe
  <2> QED BY <2>7, <2>8, TypePartsAfter
<1> QED
  BY <1>1, <1>2, <1>3, <1>4, <1>5 DEF User

\* Every variable of the page has its type in every state, for any number of
\* transactions, dates and requests under way.
THEOREM PageTypeCorrect == Spec => []TypeOK
<1>1. TypeOK /\ UNCHANGED vars => TypeOK'
  BY DEF vars, page, TypeOK
<1>2. TypeOK /\ [Next]_vars => TypeOK'
  BY <1>1, AnswersTyped, ContinueTyped, UserTyped DEF Next
<1> QED
  BY InitTyped, <1>2, PTL DEF Spec

--------------------------------------------------------------------------------
(* The date on the page.                                                        *)

\* Until the first load is done there is nothing else, and then no other load.
LoadInv ==
    /\ loading => date = "" /\ timer = None /\ ref = "" /\ ~refreshing
    /\ loading => \A k \in Task : task[k] # Idle => task[k].kind = "reload"
    /\ ~loading => \A k \in Task : ~Is(k, "reload")
    /\ \A j, k \in Task : Is(j, "reload") /\ Is(k, "reload") => j = k

\* A valuation is of the date that was asked for.
AnswerInv ==
    \A k \in Task :
        (Is(k, "fetch") \/ Is(k, "recalc")) /\ task[k].date # "" /\ task[k].valuation # None
        => task[k].valuation.date = task[k].date

\* The pending date is the one in the field; after it, so is the latest fetched one.
FieldInv ==
    /\ timer # None => timer = date
    /\ timer = None /\ ref # "" /\ date # "" => ref = date

\* Before the first fetch, what is shown and what is to come is of one date.
FirstInv ==
    ref = "" /\ timer = None /\ date # "" =>
        /\ shown # None /\ shown.date = date
        /\ \A k \in Task : Is(k, "save") \/ Is(k, "recalc") => task[k].date = date

ComingFor(d) == \E k \in Task : Is(k, "fetch") /\ task[k].date = d

\* The latest date that was fetched is shown, or its answer is still to come.
FetchInv ==
    /\ ref # "" => (shown # None /\ shown.date = ref) \/ ComingFor(ref)
    /\ refreshing => ComingFor(ref)

DateInv == LoadInv /\ AnswerInv /\ (Usable => FieldInv /\ FirstInv /\ FetchInv)

LEMMA KindsDiffer ==
    /\ Idle.kind = "idle" /\ Reloading.kind = "reload"
    /\ \A d : Fetching(d).kind = "fetch" /\ Fetching(d).date = d /\ Fetching(d).valuation = None
    /\ \A d : Recalculating(d).kind = "recalc" /\ Recalculating(d).date = d
               /\ Recalculating(d).valuation = None
  BY DEF Idle, Reloading, Fetching, Recalculating

LEMMA InitDate == Init => DateInv
<1> SUFFICES ASSUME Init PROVE DateInv
  OBVIOUS
<1>1. PICK k \in Task : \A j \in Task : task[j] = IF j = k THEN Reloading ELSE Idle
  BY DEF Init, FirstLoad
<1>2. \A j \in Task : task[j].kind = IF j = k THEN "reload" ELSE "idle"
  BY <1>1, KindsDiffer
<1>3. LoadInv
  BY <1>1, <1>2, KindsDiffer DEF Init, LoadInv, Is
<1>4. AnswerInv
  BY <1>2 DEF AnswerInv, Is
<1> QED
  BY <1>3, <1>4 DEF Init, DateInv, Usable

\* An answer changes neither the page nor what the tasks are about.
LEMMA AnswerKeepsTasks ==
    ASSUME TypeOK, NEW k \in Task, Answer(k)
    PROVE  /\ UNCHANGED page
           /\ Is(k, "reload") \/ Is(k, "fetch") \/ Is(k, "recalc") \/ Is(k, "save")
           /\ \A j \in Task : task'[j].kind = task[j].kind
           /\ \A j \in Task : Is(j, "idle") \/ task'[j].date = task[j].date
           /\ \A j \in Task \ {k} : task'[j] = task[j]
<1>1. TasksTyped
  BY TypeParts
<1>2. UNCHANGED page
  BY DEF Answer, AnswerValuation, AnswerList, AnswerRecalculate, AnswerSave, AnswerHalfSaved,
         AnswerRefused
<1>3. \A j \in Task \ {k} : task'[j] = task[j]
  BY <1>1 DEF TasksTyped, Answer, AnswerValuation, AnswerList, AnswerRecalculate, AnswerSave,
         AnswerHalfSaved, AnswerRefused
<1> DEFINE Kept == task'[k].kind = task[k].kind /\ task'[k].date = task[k].date
<1>4. /\ Is(k, "reload") \/ Is(k, "fetch") \/ Is(k, "recalc") \/ Is(k, "save")
      /\ Kept
  <2>1. CASE AnswerValuation(k)
    <3>1. Is(k, "reload") \/ Is(k, "fetch") \/ Is(k, "recalc")
      BY <2>1 DEF AnswerValuation, Is
    <3>2. task[k] \in Reload \cup Fetch \cup Recalc
      BY <1>1, <3>1, TaskKinds DEF Is
    <3>3. PICK v : task'[k] = [task[k] EXCEPT !.valuation = v]
      BY <1>1, <2>1 DEF AnswerValuation, TasksTyped
    <3> QED BY <3>1, <3>2, <3>3 DEF Reload, Fetch, Recalc
  <2>2. CASE AnswerList(k)
    <3>1. task[k] \in Reload
      BY <1>1, <2>2, TaskKinds DEF AnswerList, Is
    <3>2. task'[k] = [task[k] EXCEPT !.list = ledger]
      BY <1>1, <2>2 DEF AnswerList, TasksTyped
    <3> QED BY <2>2, <3>1, <3>2 DEF AnswerList, Reload
  <2>3. CASE AnswerRecalculate(k)
    <3>1. task[k] \in Recalc
      BY <1>1, <2>3, TaskKinds DEF AnswerRecalculate, Is
    <3>2. task'[k] = [task[k] EXCEPT !.done = TRUE]
      BY <1>1, <2>3 DEF AnswerRecalculate, TasksTyped
    <3> QED BY <2>3, <3>1, <3>2 DEF AnswerRecalculate, Recalc
  <2>4. CASE AnswerSave(k) \/ AnswerHalfSaved(k) \/ AnswerRefused(k)
    <3>1. task[k] \in Save /\ Is(k, "save")
      BY <1>1, <2>4, TaskKinds DEF AnswerSave, AnswerHalfSaved, AnswerRefused, Is
    <3>2. CASE AnswerSave(k)
      <4>1. PICK p : task'[k] = [task[k] EXCEPT !.answer = "done", !.patch = p]
        BY <1>1, <3>2 DEF AnswerSave, TasksTyped
      <4> QED BY <3>1, <4>1 DEF Save
    <3>3. CASE AnswerHalfSaved(k) \/ AnswerRefused(k)
      <4>1. task'[k] = [task[k] EXCEPT !.answer = "error"]
        BY <1>1, <3>3 DEF AnswerHalfSaved, AnswerRefused, TasksTyped
      <4> QED BY <3>1, <4>1 DEF Save
    <3> QED BY <2>4, <3>2, <3>3
  <2> QED BY <2>1, <2>2, <2>3, <2>4 DEF Answer
<1> QED
  BY <1>2, <1>3, <1>4

LEMMA AnswersDate ==
    ASSUME TypeOK, DateInv, NEW k \in Task, Answer(k)
    PROVE  DateInv'
<1>1. TasksTyped /\ UNCHANGED page
  BY TypeParts, AnswerKeepsTasks
<1>2. \A j \in Task, kind \in {"reload", "fetch", "recalc", "save"} :
        /\ Is(j, kind)' <=> Is(j, kind)
        /\ Is(j, kind) => task'[j].date = task[j].date
  BY AnswerKeepsTasks DEF Is
<1>3. LoadInv'
  <2>1. \A j \in Task : task'[j] # Idle => task[j] # Idle
    BY AnswerKeepsTasks, KindsDiffer DEF Is
  <2>2. \A j \in Task : task'[j].kind = task[j].kind
    BY AnswerKeepsTasks
  <2> QED BY <1>1, <1>2, <2>1, <2>2 DEF DateInv, LoadInv, page
<1>4. AnswerInv'
  <2> SUFFICES ASSUME NEW j \in Task, (Is(j, "fetch") \/ Is(j, "recalc"))',
                      task'[j].date # "", task'[j].valuation # None
               PROVE  task'[j].valuation.date = task'[j].date
    BY DEF AnswerInv
  <2>1. (Is(j, "fetch") \/ Is(j, "recalc")) /\ task'[j].date = task[j].date
    BY <1>2
  <2>2. task[j] \in Fetch \cup Recalc
    BY <1>1, <2>1, TaskKinds DEF Is
  <2>3. CASE j = k /\ AnswerValuation(k)
    <3>1. task[j].date # ""
      BY <2>1
    <3>2. task'[k] = [task[k] EXCEPT !.valuation = [date |-> task[k].date, held |-> positions]]
      BY <1>1, <2>3, <3>1 DEF AnswerValuation, DatesFor, TasksTyped
    <3> DEFINE v == [date |-> task[k].date, held |-> positions]
    <3>3. v.date = task[k].date
      OBVIOUS
    <3>4. task'[k].valuation = v
      BY <2>2, <2>3, <3>2 DEF Fetch, Recalc
    <3> QED BY <2>1, <2>3, <3>3, <3>4
  <2>4. CASE j = k /\ AnswerRecalculate(k)
    <3>1. task'[k] = [task[k] EXCEPT !.done = TRUE]
      BY <1>1, <2>4 DEF AnswerRecalculate, TasksTyped
    <3>2. task[k] \in Recalc
      BY <1>1, <2>4, TaskKinds DEF AnswerRecalculate, Is
    <3>3. task'[k].valuation = task[k].valuation
      BY <3>1, <3>2 DEF Recalc
    <3> QED BY <2>1, <2>4, <3>3 DEF DateInv, AnswerInv
  <2>5. CASE j # k
    BY <2>1, <2>5, AnswerKeepsTasks DEF DateInv, AnswerInv
  <2>6. j = k => AnswerValuation(k) \/ AnswerRecalculate(k)
    BY <2>1 DEF Answer, AnswerList, AnswerSave, AnswerHalfSaved, AnswerRefused, Is
  <2> QED BY <2>3, <2>4, <2>5, <2>6
<1>5. (Usable => FieldInv /\ FirstInv /\ FetchInv)'
  <2>1. Usable' => Usable
    BY <1>1 DEF Usable, page
  <2>2. FieldInv => FieldInv'
    BY <1>1 DEF FieldInv, page
  <2>3. FirstInv => FirstInv'
    BY <1>1, <1>2 DEF FirstInv, page
  <2>4. FetchInv => FetchInv'
    BY <1>1, <1>2 DEF FetchInv, ComingFor, page
  <2> QED BY <2>1, <2>2, <2>3, <2>4 DEF DateInv
<1> QED
  BY <1>3, <1>4, <1>5 DEF DateInv

\* A step that replaces the task k by r.
LEMMA OneTaskChanges ==
    ASSUME TypeOK, NEW k \in Task, NEW r, task' = [task EXCEPT ![k] = r]
    PROVE  task'[k] = r /\ \A j \in Task \ {k} : task'[j] = task[j]
  BY TypeParts DEF TasksTyped

\* A task that ends, or that becomes one without an answer, breaks no promise of another.
LEMMA AnswerInvKept ==
    ASSUME AnswerInv, NEW k \in Task,
           Is(k, "idle")' \/ Is(k, "save")' \/ task'[k].valuation = None,
           \A j \in Task \ {k} : task'[j] = task[j]
    PROVE  AnswerInv'
  BY DEF AnswerInv, Is

\* After the first load, no task is a load.
LEMMA LoadInvKept ==
    ASSUME LoadInv, ~loading, ~loading', NEW k \in Task, ~Is(k, "reload")',
           \A j \in Task \ {k} : task'[j] = task[j]
    PROVE  LoadInv'
  BY DEF LoadInv, Is

\* Only a load is under way while the page is loading.
LEMMA LoadingOnlyLoads ==
    ASSUME LoadInv, NEW k \in Task, Is(k, "fetch") \/ Is(k, "recalc") \/ Is(k, "save")
    PROVE  ~loading
  BY KindsDiffer DEF LoadInv, Is

LEMMA LoadDate ==
    ASSUME TypeOK, DateInv, NEW k \in Task, Loaded(k) \/ LoadFails(k)
    PROVE  DateInv'
<1>1. /\ Is(k, "reload") /\ task'[k] = Idle
      /\ \A j \in Task \ {k} : task'[j] = task[j]
  BY OneTaskChanges DEF Loaded, LoadFails, Ends
<1>2. loading /\ date = "" /\ timer = None /\ ref = "" /\ ~refreshing
  BY <1>1 DEF DateInv, LoadInv
<1>3. \A j \in Task \ {k} : task[j] = Idle
  BY <1>1, <1>2 DEF DateInv, LoadInv, Is
<1>4. \A j \in Task : task'[j] = Idle
  BY <1>1, <1>3
<1>5. \A j \in Task : task'[j].kind = "idle"
  BY <1>4, KindsDiffer
<1>6. ~loading' /\ LoadInv'
  BY <1>5 DEF Loaded, LoadFails, LoadInv, Is
<1>7. AnswerInv'
  BY <1>5 DEF AnswerInv, Is
<1>8. CASE Loaded(k)
  <2>1. shown' # None /\ shown'.date = date'
    BY <1>2, <1>8 DEF Loaded
  <2>2. UNCHANGED <<ref, timer, refreshing>>
    BY <1>8 DEF Loaded
  <2>3. FieldInv' /\ FirstInv' /\ FetchInv'
    BY <1>2, <1>5, <2>1, <2>2 DEF FieldInv, FirstInv, FetchInv, Is
  <2> QED BY <1>6, <1>7, <2>3 DEF DateInv
<1>9. CASE LoadFails(k)
  BY <1>6, <1>7, <1>9 DEF LoadFails, DateInv, Usable
<1> QED
  BY <1>8, <1>9

\* The debounce fires: the pending date becomes the latest fetched one.
LEMMA FetchDate ==
    ASSUME TypeOK, DateInv, NEW k \in Task, FetchValuation(k)
    PROVE  DateInv'
<1>1. ~loading /\ timer # None /\ timer' = None
  BY DEF FetchValuation, DateInv, LoadInv
<1>2. UNCHANGED <<loading, error, date, shown>>
  BY DEF FetchValuation
<1>3. Usable' => Usable
  BY <1>2 DEF Usable
<1>4. Usable => timer = date
  BY <1>1 DEF DateInv, FieldInv
<1>5. CASE timer = ""
  <2>1. UNCHANGED <<ref, refreshing, task>>
    BY <1>5 DEF FetchValuation
  <2>2. LoadInv' /\ AnswerInv'
    BY <1>1, <1>2, <2>1 DEF DateInv, LoadInv, AnswerInv, Is
  <2>3. Usable' => FieldInv' /\ FirstInv' /\ FetchInv'
    BY <1>1, <1>2, <1>3, <1>4, <1>5, <2>1
       DEF DateInv, FieldInv, FirstInv, FetchInv, ComingFor, Is
  <2> QED BY <2>2, <2>3 DEF DateInv
<1>6. CASE timer # ""
  <2>1. /\ ref' = timer /\ task[k] = Idle
        /\ task' = [task EXCEPT ![k] = Fetching(timer)]
    BY <1>6 DEF FetchValuation
  <2>2. /\ task'[k] = Fetching(timer)
        /\ \A j \in Task \ {k} : task'[j] = task[j]
    BY <2>1, OneTaskChanges
  <2>3. Is(k, "fetch")' /\ task'[k].date = ref' /\ task'[k].valuation = None
    BY <2>1, <2>2, KindsDiffer DEF Is
  <2>4. LoadInv'
    BY <1>1, <1>2, <2>2, <2>3, LoadInvKept DEF DateInv, Is
  <2>5. AnswerInv'
    BY <2>2, <2>3, AnswerInvKept DEF DateInv
  <2>6. Usable' => FieldInv' /\ FirstInv'
    BY <1>1, <1>2, <1>3, <1>4, <1>6, <2>1 DEF FieldInv, FirstInv
  <2>7. FetchInv'
    BY <2>3 DEF FetchInv, ComingFor
  <2> QED BY <2>4, <2>5, <2>6, <2>7 DEF DateInv
<1> QED
  BY <1>5, <1>6

\* An answer to a fetch: an older one leaves the latest one under way.
LEMMA FetchedDate ==
    ASSUME TypeOK, DateInv, NEW k \in Task, FetchAnswered(k) \/ FetchFails(k)
    PROVE  DateInv'
<1>1. /\ Is(k, "fetch") /\ task'[k] = Idle
      /\ \A j \in Task \ {k} : task'[j] = task[j]
  BY OneTaskChanges DEF FetchAnswered, FetchFails, Ends
<1>2. ~loading /\ ~loading' /\ UNCHANGED <<date, ref, timer>>
  BY <1>1, LoadingOnlyLoads DEF FetchAnswered, FetchFails, DateInv
<1>3. Is(k, "idle")'
  BY <1>1, KindsDiffer DEF Is
<1>4. LoadInv' /\ AnswerInv'
  BY <1>1, <1>2, <1>3, LoadInvKept, AnswerInvKept DEF DateInv, Is
<1>5. \A j \in Task : /\ Is(j, "save")' => Is(j, "save") /\ task'[j].date = task[j].date
                      /\ Is(j, "recalc")' => Is(j, "recalc") /\ task'[j].date = task[j].date
  BY <1>1, <1>3 DEF Is
<1>6. task[k].date # ""
  BY <1>1, TypeParts, TaskKinds, PageAssumption DEF Is, Fetch
<1>7. CASE task[k].date = ref /\ FetchAnswered(k)
  <2>1. /\ shown' = task[k].valuation /\ shown' # None /\ ~refreshing'
        /\ UNCHANGED error
    BY <1>7 DEF FetchAnswered, IsLatest
  <2>2. shown'.date = ref'
    BY <1>1, <1>2, <1>6, <1>7, <2>1 DEF DateInv, AnswerInv
  <2>3. Usable' => Usable
    BY <1>2, <2>1 DEF Usable
  <2>4. Usable' => FieldInv' /\ FirstInv' /\ FetchInv'
    BY <1>2, <1>6, <1>7, <2>1, <2>2, <2>3 DEF DateInv, FieldInv, FirstInv, FetchInv
  <2> QED BY <1>4, <2>4 DEF DateInv
<1>8. CASE task[k].date = ref /\ FetchFails(k)
  BY <1>4, <1>8 DEF FetchFails, IsLatest, DateInv, Usable
<1>9. CASE task[k].date # ref
  <2>1. UNCHANGED <<error, shown, refreshing>>
    BY <1>9 DEF FetchAnswered, FetchFails, IsLatest
  <2>2. Usable' => Usable
    BY <1>2, <2>1 DEF Usable
  <2>3. ComingFor(ref) => ComingFor(ref)'
    BY <1>1, <1>2, <1>9 DEF ComingFor, Is
  <2>4. Usable' => FieldInv' /\ FirstInv' /\ FetchInv'
    BY <1>2, <1>5, <2>1, <2>2, <2>3 DEF DateInv, FieldInv, FirstInv, FetchInv
  <2> QED BY <1>4, <2>4 DEF DateInv
<1> QED
  BY <1>7, <1>8, <1>9

\* A change is answered, and its recalculation follows for the same date.
LEMMA SavedDate ==
    ASSUME TypeOK, DateInv, NEW k \in Task, SaveAnswered(k) \/ SaveFails(k)
    PROVE  DateInv'
<1>1. UNCHANGED <<loading, error, date, shown, ref, timer, refreshing>> /\ Is(k, "save")
  BY DEF SaveAnswered, SaveFails
<1>2. /\ task'[k] \in {Idle, Recalculating(task[k].date)}
      /\ \A j \in Task \ {k} : task'[j] = task[j]
  BY OneTaskChanges DEF SaveAnswered, SaveFails, Ends
<1>3. \/ Is(k, "idle")'
      \/ Is(k, "recalc")' /\ task'[k].date = task[k].date /\ task'[k].valuation = None
  BY <1>2, KindsDiffer DEF Is
<1>4. ~loading /\ ~loading'
  BY <1>1, LoadingOnlyLoads DEF DateInv
<1>5. LoadInv' /\ AnswerInv'
  BY <1>2, <1>3, <1>4, LoadInvKept, AnswerInvKept DEF DateInv, Is
<1>6. FirstInv => FirstInv'
  BY <1>1, <1>2, <1>3 DEF FirstInv, Is
<1>7. ComingFor(ref) => ComingFor(ref)'
  BY <1>1, <1>2 DEF ComingFor, Is
<1>8. Usable' => FieldInv' /\ FirstInv' /\ FetchInv'
  BY <1>1, <1>6, <1>7 DEF DateInv, Usable, FieldInv, FetchInv
<1> QED
  BY <1>5, <1>8 DEF DateInv

\* A recalculated valuation is shown when no other date was fetched since.
LEMMA RecalculatedDate ==
    ASSUME TypeOK, DateInv, NEW k \in Task, RecalcAnswered(k) \/ RecalcFails(k)
    PROVE  DateInv'
<1>1. UNCHANGED <<loading, error, date, ref, timer, refreshing>> /\ Is(k, "recalc")
  BY DEF RecalcAnswered, RecalcFails, page
<1>2. /\ task'[k] = Idle
      /\ \A j \in Task \ {k} : task'[j] = task[j]
  BY OneTaskChanges DEF RecalcAnswered, RecalcFails, Ends
<1>3. Is(k, "idle")'
  BY <1>2, KindsDiffer DEF Is
<1>4. ~loading /\ ~loading'
  BY <1>1, LoadingOnlyLoads DEF DateInv
<1>5. LoadInv' /\ AnswerInv'
  BY <1>2, <1>3, <1>4, LoadInvKept, AnswerInvKept DEF DateInv, Is
<1>6. ComingFor(ref) => ComingFor(ref)'
  BY <1>1, <1>2 DEF ComingFor, Is
<1>7. \A j \in Task : Is(j, "save")' \/ Is(j, "recalc")' =>
        (Is(j, "save") \/ Is(j, "recalc")) /\ task'[j].date = task[j].date
  BY <1>2, <1>3 DEF Is
<1>8. Usable' => Usable
  BY <1>1 DEF Usable
<1>9. CASE shown' = shown
  BY <1>1, <1>5, <1>6, <1>7, <1>8, <1>9 DEF DateInv, FieldInv, FirstInv, FetchInv
<1>10. CASE shown' # shown
  <2>1. shown' = task[k].valuation /\ shown' # None /\ Accepts(task[k].date)
    BY <1>10 DEF RecalcAnswered, RecalcFails, page
  <2>2. task[k].date # "" => shown'.date = task[k].date
    BY <1>1, <2>1 DEF DateInv, AnswerInv
  <2>3. Usable => FirstInv'
    BY <1>1, <1>7, <2>1, <2>2 DEF DateInv, FirstInv
  <2>4. Usable => FetchInv'
    BY <1>1, <1>6, <2>1, <2>2 DEF DateInv, FetchInv, Accepts
  <2>5. Usable => FieldInv'
    BY <1>1 DEF DateInv, FieldInv
  <2> QED BY <1>5, <1>8, <2>3, <2>4, <2>5 DEF DateInv
<1> QED
  BY <1>9, <1>10

\* What the user does.
LEMMA UserDate ==
    ASSUME TypeOK, DateInv, User
    PROVE  DateInv'
<1>1. ASSUME NEW d \in Date \cup {""}, HandleDateChange(d) PROVE DateInv'
  <2>1. /\ date' = d /\ timer' = d /\ d # None
        /\ UNCHANGED <<loading, error, shown, ref, refreshing, task>> /\ Usable
    BY <1>1, PageAssumption DEF HandleDateChange, Acts
  <2>2. LoadInv' /\ AnswerInv'
    BY <2>1 DEF DateInv, LoadInv, AnswerInv, Usable, Is
  <2>3. FieldInv' /\ FirstInv'
    BY <2>1 DEF FieldInv, FirstInv
  <2>4. FetchInv'
    BY <2>1 DEF DateInv, FetchInv, ComingFor, Is
  <2> QED BY <2>2, <2>3, <2>4 DEF DateInv
<1>2. CASE CloseModal \/ \E form \in Form, t \in Maybe(Txn) : OpenModal(form, t)
  <2>1. UNCHANGED <<loading, error, date, shown, ref, timer, refreshing, task>>
    BY <1>2 DEF CloseModal, OpenModal
  <2> QED BY <2>1 DEF DateInv, LoadInv, AnswerInv, FieldInv, FirstInv, FetchInv, ComingFor,
                      Usable, Is
<1>3. ASSUME NEW k \in Task, NEW c \in Maybe(Content), Submit(k, c) PROVE DateInv'
  <2>1. UNCHANGED <<loading, error, date, shown, ref, timer, refreshing>> /\ Usable
    BY <1>3 DEF Submit, Acts
  <2>2. /\ Is(k, "save")' /\ task'[k].date = date
        /\ \A j \in Task \ {k} : task'[j] = task[j]
    BY <1>3, TypeParts DEF Submit, TasksTyped, Is
  <2>3. Is(k, "idle")
    BY <1>3, KindsDiffer DEF Submit, Is
  <2>4. LoadInv' /\ AnswerInv'
    BY <2>1, <2>2, LoadInvKept, AnswerInvKept DEF DateInv, Usable, Is
  <2>5. FieldInv' /\ FirstInv'
    BY <2>1, <2>2 DEF DateInv, FieldInv, FirstInv, Is
  <2>6. ComingFor(ref) => ComingFor(ref)'
    BY <2>1, <2>2, <2>3 DEF ComingFor, Is
  <2>7. FetchInv'
    BY <2>1, <2>6 DEF DateInv, FetchInv
  <2> QED BY <2>4, <2>5, <2>7 DEF DateInv
<1>4. CASE Reopen
  <2>1. PICK k \in Task : \A j \in Task : task'[j] = IF j = k THEN Reloading ELSE Idle
    BY <1>4 DEF Reopen, FirstLoad
  <2>2. \A j \in Task : task'[j].kind = IF j = k THEN "reload" ELSE "idle"
    BY <2>1, KindsDiffer
  <2>3. LoadInv'
    BY <1>4, <2>1, <2>2, KindsDiffer DEF Reopen, LoadInv, Is
  <2>4. AnswerInv'
    BY <2>2 DEF AnswerInv, Is
  <2> QED BY <1>4, <2>3, <2>4 DEF Reopen, DateInv, Usable
<1> QED
  BY <1>1, <1>2, <1>3, <1>4 DEF User

LEMMA DateStep == TypeOK /\ DateInv /\ [Next]_vars => DateInv'
<1> SUFFICES ASSUME TypeOK, DateInv, [Next]_vars PROVE DateInv'
  OBVIOUS
<1>1. ASSUME NEW k \in Task, Continue(k) PROVE DateInv'
  BY <1>1, LoadDate, FetchDate, FetchedDate, SavedDate, RecalculatedDate DEF Continue
<1>2. CASE UNCHANGED vars
  BY <1>2 DEF vars, page, DateInv, LoadInv, AnswerInv, FieldInv, FirstInv, FetchInv,
              ComingFor, Usable, Is
<1> QED
  BY <1>1, <1>2, AnswersDate, UserDate DEF Next

\* At rest the page shows the valuation of the date in its field, whatever the
\* order of answers, the failures and the haste of the user.
THEOREM ChosenDateShown == Spec => []RestShowsChosenDate
<1>1. TypeOK /\ DateInv => RestShowsChosenDate
  <2> SUFFICES ASSUME TypeOK, DateInv, AtRest, date # ""
               PROVE  shown # None /\ shown.date = date /\ ~refreshing
    BY DEF RestShowsChosenDate
  <2>1. \A k \in Task : ~Is(k, "fetch")
    BY KindsDiffer DEF AtRest, Quiet, Is
  <2>2. timer = None /\ ~ComingFor(ref)
    BY <2>1 DEF AtRest, Quiet, ComingFor
  <2> QED BY <2>2 DEF AtRest, DateInv, FieldInv, FirstInv, FetchInv
<1> QED
  BY <1>1, InitDate, DateStep, PageTypeCorrect, PTL DEF Spec

--------------------------------------------------------------------------------
(* The list of transactions.                                                    *)

\* A form that is not closed while it is saved is still open when it is answered.
ModalInv == "close" \notin habits =>
    \A k \in Task : Is(k, "save") => modal # None /\ modal.task = k

\* For a user who waits, one thing is under way at a time.
BusyInv == "hasty" \notin habits =>
    /\ timer # None => \A k \in Task : task[k] = Idle
    /\ \A j, k \in Task : task[j] # Idle /\ task[k] # Idle => j = k

\* No change overtakes another, and none is lost.
Orderly == "fail" \notin habits /\ ~({"close", "hasty"} \subseteq habits)

\* What the list is while the change s is under way.
ListDuring(s) == IF s.answer = "done" THEN ledger = WithChange(listed, s) ELSE listed = ledger

\* The list is the ledger, but for the one change whose answer is on its way.
ListInv == Orderly =>
    /\ ~error
    /\ \A k \in Task : Is(k, "reload") /\ task[k].list # None => task[k].list = ledger
    /\ \A k \in Task : Is(k, "save") => ListDuring(task[k])
    /\ ~loading /\ (\A k \in Task : ~Is(k, "save")) => listed = ledger

Patient == habits \subseteq {"close"}

\* The page waits for a valuation that knows a change.
Behind == \E k \in Task : Is(k, "recalc") \/ (Is(k, "save") /\ task[k].answer = "done")

\* The valuation is of the ledger, but while the recalculation after a change
\* is awaited; and that one is of a date the page will accept.
PositionsInv == Patient =>
    /\ positions = ledger
    /\ \A k \in Task :
        /\ task[k].kind \in {"reload", "fetch", "recalc"} /\ task[k].valuation # None =>
             task[k].valuation.held = ledger
        /\ Is(k, "fetch") => task[k].date = ref
        /\ Is(k, "recalc") \/ Is(k, "save") => Accepts(task[k].date)
    /\ ~loading => date # ""
    /\ ~loading /\ ~Behind => shown # None /\ shown.held = ledger

LEMMA HabitsStay == [Next]_vars => habits' = habits
  BY DEF Next, User, Answer, Continue, vars, AnswerValuation, AnswerList, AnswerRecalculate,
         AnswerSave, AnswerHalfSaved, AnswerRefused, Loaded, LoadFails, FetchValuation,
         FetchAnswered, FetchFails, SaveAnswered, SaveFails, RecalcAnswered, RecalcFails,
         HandleDateChange, OpenModal, CloseModal, Submit, Reopen

\* What the page does with an answer changes one task and nothing in the backend.
LEMMA ContinueKeeps ==
    ASSUME TypeOK, NEW k \in Task, Continue(k)
    PROVE  /\ UNCHANGED <<habits, ledger, positions>>
           /\ \A j \in Task \ {k} : task'[j] = task[j]
  BY OneTaskChanges DEF Continue, Loaded, LoadFails, FetchValuation, FetchAnswered, FetchFails,
         SaveAnswered, SaveFails, RecalcAnswered, RecalcFails, Ends, page

\* Of what the page goes on with, only the recalculation of a change is new.
LEMMA ContinueTask ==
    ASSUME TypeOK, NEW k \in Task, Continue(k)
    PROVE  \/ FetchValuation(k) /\ timer = "" /\ task' = task
           \/ /\ FetchValuation(k) /\ timer # "" /\ task[k] = Idle
              /\ task'[k] = Fetching(timer)
           \/ SaveAnswered(k) /\ task'[k] = Recalculating(task[k].date)
           \/ timer' = timer /\ task'[k] = Idle /\ task[k] # Idle
  BY OneTaskChanges, KindsDiffer DEF Continue, Loaded, LoadFails, FetchValuation, FetchAnswered,
         FetchFails, SaveAnswered, SaveFails, RecalcAnswered, RecalcFails, Ends, Is, page

LEMMA SubmitTask ==
    ASSUME TypeOK, NEW k \in Task, NEW c \in Maybe(Content), Submit(k, c)
    PROVE  /\ Is(k, "save")' /\ task'[k].date = date /\ task'[k].answer = "none"
           /\ Is(k, "idle")
           /\ \A j \in Task \ {k} : task'[j] = task[j]
  BY TypeParts, KindsDiffer DEF Submit, TasksTyped, Is

LEMMA ReopenTasks ==
    ASSUME Reopen
    PROVE  \A k \in Task : /\ task[k] = Idle
                           /\ task'[k] \in {Idle, Reloading}
  BY DEF Reopen, FirstLoad, Quiet

LEMMA ModalStep ==
    ASSUME TypeOK, ModalInv, [Next]_vars
    PROVE  ModalInv'
<1> SUFFICES ASSUME "close" \notin habits, NEW j \in Task, Is(j, "save")'
             PROVE  modal' # None /\ modal'.task = j
  BY HabitsStay DEF ModalInv
<1>1. \A k \in Task : Is(k, "save") => modal # None /\ modal.task = k
  BY DEF ModalInv
<1>2. ASSUME NEW k \in Task, Answer(k) PROVE modal' # None /\ modal'.task = j
  BY <1>1, <1>2, AnswerKeepsTasks DEF page, Is
<1>3. ASSUME NEW k \in Task, Continue(k) PROVE modal' # None /\ modal'.task = j
  <2>1. j # k \/ task' = task
    BY <1>3, ContinueTask, KindsDiffer DEF Is
  <2>2. Is(j, "save")
    BY <1>3, <2>1, ContinueKeeps DEF Is
  <2>3. ~SaveAnswered(k) /\ ~SaveFails(k)
    BY <1>1, <1>3, <2>1, <2>2, OneTaskChanges, KindsDiffer DEF SaveAnswered, SaveFails, Is, Ends
  <2>4. modal' = modal
    BY <1>3, <2>3 DEF Continue, Loaded, LoadFails, FetchValuation, FetchAnswered, FetchFails,
           RecalcAnswered, RecalcFails, page
  <2> QED BY <1>1, <2>2, <2>4
<1>4. CASE User
  <2>1. ASSUME NEW d \in Date \cup {""}, HandleDateChange(d)
        PROVE  modal' # None /\ modal'.task = j
    BY <1>1, <2>1 DEF HandleDateChange, Is
  <2>2. CASE CloseModal \/ \E form \in Form, t \in Maybe(Txn) : OpenModal(form, t)
    <3>1. task' = task /\ (modal = None \/ modal.task = None)
      BY <2>2 DEF CloseModal, OpenModal
    <3> QED BY <1>1, <3>1, PageAssumption DEF Is
  <2>3. ASSUME NEW k \in Task, NEW c \in Maybe(Content), Submit(k, c)
        PROVE  modal' # None /\ modal'.task = j
    <3>1. modal.task = None /\ modal # None /\ modal' = [modal EXCEPT !.task = k]
      BY <2>3 DEF Submit
    <3>2. j = k
      BY <1>1, <2>3, <3>1, SubmitTask, PageAssumption DEF Is
    <3>3. modal \in [form : Form, txn : Maybe(Txn), task : Maybe(Task)]
      BY <3>1 DEF TypeOK, Maybe
    <3>4. modal'.task = k
      BY <3>1, <3>3
    <3>5. modal' # None
      BY <3>1, <3>3, ModalAssumption DEF Maybe
    <3> QED BY <3>2, <3>4, <3>5
  <2>4. ~Reopen
    BY ReopenTasks, KindsDiffer DEF Is
  <2> QED BY <1>4, <2>1, <2>2, <2>3, <2>4 DEF User
<1>5. CASE UNCHANGED vars
  BY <1>1, <1>5 DEF vars, page, Is
<1> QED
  BY <1>2, <1>3, <1>4, <1>5 DEF Next

LEMMA BusyStep ==
    ASSUME TypeOK, BusyInv, [Next]_vars
    PROVE  BusyInv'
<1> DEFINE One == /\ timer # None => \A k \in Task : task[k] = Idle
                  /\ \A j, k \in Task : task[j] # Idle /\ task[k] # Idle => j = k
<1> SUFFICES ASSUME "hasty" \notin habits PROVE One'
  BY HabitsStay DEF BusyInv
<1>1. One
  BY DEF BusyInv
<1>2. ASSUME NEW k \in Task, Answer(k) PROVE One'
  <2>1. task[k] # Idle
    BY <1>2, AnswerKeepsTasks, KindsDiffer DEF Is
  <2>2. \A j \in Task \ {k} : task[j] = Idle /\ task'[j] = Idle
    BY <1>1, <1>2, <2>1, AnswerKeepsTasks
  <2>3. timer = None /\ timer' = None
    BY <1>1, <1>2, <2>1, AnswerKeepsTasks DEF page
  <2> QED BY <2>2, <2>3
<1>3. ASSUME NEW k \in Task, Continue(k) PROVE One'
  <2>1. task[k] # Idle \/ timer # None
    BY <1>3, KindsDiffer, ContinueTask DEF FetchValuation, SaveAnswered, Is
  <2>2. \A j \in Task \ {k} : task[j] = Idle /\ task'[j] = Idle
    BY <1>1, <1>3, <2>1, ContinueKeeps
  <2>3. timer' # None => task'[k] = Idle
    BY <1>1, <1>3, ContinueTask, KindsDiffer DEF FetchValuation, SaveAnswered, Is
  <2> QED BY <2>2, <2>3
<1>4. CASE User
  <2>1. ASSUME NEW d \in Date \cup {""}, HandleDateChange(d) PROVE One'
    BY <2>1 DEF HandleDateChange, Acts, Quiet
  <2>2. CASE CloseModal \/ \E form \in Form, t \in Maybe(Txn) : OpenModal(form, t)
    BY <1>1, <2>2 DEF CloseModal, OpenModal
  <2>3. ASSUME NEW k \in Task, NEW c \in Maybe(Content), Submit(k, c) PROVE One'
    <3>1. timer' = None /\ \A j \in Task : task[j] = Idle
      BY <2>3 DEF Submit, Acts, Quiet
    <3>2. \A j \in Task \ {k} : task'[j] = Idle
      BY <2>3, <3>1, SubmitTask
    <3> QED BY <3>1, <3>2
  <2>4. CASE Reopen
    <3>1. PICK k \in Task : \A j \in Task \ {k} : task'[j] = Idle
      BY <2>4 DEF Reopen, FirstLoad
    <3> QED BY <2>4, <3>1 DEF Reopen
  <2> QED BY <1>4, <2>1, <2>2, <2>3, <2>4 DEF User
<1>5. CASE UNCHANGED vars
  BY <1>1, <1>5 DEF vars, page
<1> QED
  BY <1>2, <1>3, <1>4, <1>5 DEF Next

\* One change at a time: its form is still open, or the user waits for it.
LEMMA OneSave ==
    ASSUME ModalInv, BusyInv, Orderly, NEW j \in Task, NEW k \in Task,
           Is(j, "save"), Is(k, "save")
    PROVE  j = k
<1>1. task[j] # Idle /\ task[k] # Idle
  BY KindsDiffer DEF Is
<1> QED
  BY <1>1 DEF ModalInv, BusyInv, Orderly

\* A change is committed as the page will apply it to its list.
LEMMA SavedRows ==
    ASSUME TypeOK, NEW k \in Task, AnswerSave(k), listed = ledger
    PROVE  ListDuring(task[k])'
<1>1. PICK p \in Changes(task[k]) :
        /\ ledger' = Patched(ledger, p)
        /\ task'[k] = [task[k] EXCEPT !.answer = "done", !.patch = p]
  BY TypeParts DEF AnswerSave, TasksTyped
<1>2. task[k] \in Save
  BY TypeParts, TaskKinds DEF AnswerSave, Is
<1>3. /\ task'[k].answer = "done" /\ task'[k].patch = p
      /\ task'[k].form = task[k].form
  BY <1>1, <1>2 DEF Save
<1>4. DOMAIN p \in RowSets(task[k])
  BY DEF Changes
<1>5. task[k].form = "edit" => \A t \in DOMAIN p : ledger[t] # None
  BY <1>4 DEF RowSets, Present
<1>6. \A t \in Txn : Touches(listed, task'[k], t) <=> t \in DOMAIN p
  BY <1>3, <1>5 DEF Touches
<1>7. ledger' = WithChange(listed, task'[k])
  BY <1>1, <1>3, <1>6 DEF WithChange, Patched
<1>8. listed' = listed
  BY DEF AnswerSave, page
<1> QED
  BY <1>3, <1>7, <1>8 DEF ListDuring

\* A step of a task that is no load and no change.
LEMMA ListKept ==
    ASSUME ListInv, NEW k \in Task, ~Is(k, "save"), ~Is(k, "save")', ~Is(k, "reload")',
           UNCHANGED <<habits, ledger, loading, listed>>,
           Orderly => error' = error,
           \A j \in Task \ {k} : task'[j] = task[j]
    PROVE  ListInv'
<1> SUFFICES ASSUME Orderly PROVE ListInv'
  BY DEF ListInv, Orderly
<1>1. \A j \in Task : Is(j, "save")' => Is(j, "save") /\ task'[j] = task[j]
  BY DEF Is
<1>2. \A j \in Task : Is(j, "reload")' => Is(j, "reload") /\ task'[j] = task[j]
  BY DEF Is
<1>3. \A j \in Task : Is(j, "save") => Is(j, "save")'
  BY DEF Is
<1> QED
  BY <1>1, <1>2, <1>3 DEF ListInv, ListDuring

LEMMA NewLoad == Reloading.list = None /\ Reloading.valuation = None
  BY DEF Reloading

LEMMA AnswersList ==
    ASSUME TypeOK, LoadInv, ModalInv, BusyInv, ListInv, NEW k \in Task, Answer(k)
    PROVE  ListInv'
<1>0. UNCHANGED habits
  BY HabitsStay DEF Next
<1> SUFFICES ASSUME Orderly PROVE ListInv'
  BY <1>0 DEF ListInv, Orderly
<1>1. /\ UNCHANGED <<loading, error, listed>>
      /\ \A j \in Task, kind \in {"reload", "save"} : Is(j, kind)' <=> Is(j, kind)
      /\ \A j \in Task \ {k} : task'[j] = task[j]
  BY AnswerKeepsTasks DEF page, Is
<1>2. CASE Is(k, "reload")
  <2>1. loading
    BY <1>2 DEF LoadInv
  <2>2. \A j \in Task : ~Is(j, "save")'
    BY <1>1, <2>1, LoadingOnlyLoads
  <2>3. AnswerValuation(k) \/ AnswerList(k)
    BY <1>2 DEF Answer, AnswerRecalculate, AnswerSave, AnswerHalfSaved, AnswerRefused, Is
  <2>4. ledger' = ledger /\ task[k] \in Reload
    BY <1>2, <2>3, TypeParts, TaskKinds DEF AnswerValuation, AnswerList, Is
  <2>5. task'[k].list \in {task[k].list, ledger}
    <3>1. CASE AnswerValuation(k)
      <4>1. PICK v : task'[k] = [task[k] EXCEPT !.valuation = v]
        BY <3>1, TypeParts DEF AnswerValuation, TasksTyped
      <4> QED BY <2>4, <4>1 DEF Reload
    <3>2. CASE AnswerList(k)
      <4>1. task'[k] = [task[k] EXCEPT !.list = ledger]
        BY <3>2, TypeParts DEF AnswerList, TasksTyped
      <4> QED BY <2>4, <4>1 DEF Reload
    <3> QED BY <2>3, <3>1, <3>2
  <2>6. \A j \in Task : Is(j, "reload")' /\ task'[j].list # None => task'[j].list = ledger'
    BY <1>1, <1>2, <2>4, <2>5 DEF ListInv
  <2> QED BY <1>1, <2>1, <2>2, <2>6 DEF ListInv
<1>3. CASE Is(k, "save")
  <2>1. ~loading /\ \A j \in Task : ~Is(j, "reload")'
    BY <1>1, <1>3, LoadingOnlyLoads DEF LoadInv
  <2>2. \A j \in Task : Is(j, "save")' => j = k
    BY <1>1, <1>3, OneSave
  <2>3. (AnswerSave(k) \/ AnswerRefused(k)) /\ task[k].answer = "none" /\ task[k] \in Save
    BY <1>3, TypeParts, TaskKinds DEF Answer, AnswerValuation, AnswerList, AnswerRecalculate,
           AnswerSave, AnswerRefused, AnswerHalfSaved, Orderly, Is
  <2>4. listed = ledger
    BY <1>3, <2>3 DEF ListInv, ListDuring
  <2>5. ListDuring(task[k])'
    <3>1. CASE AnswerRefused(k)
      <4>1. task'[k] = [task[k] EXCEPT !.answer = "error"]
        BY <3>1, TypeParts DEF AnswerRefused, TasksTyped
      <4>2. task'[k].answer = "error"
        BY <2>3, <4>1 DEF Save
      <4> QED BY <1>1, <2>4, <3>1, <4>2 DEF ListDuring, AnswerRefused
    <3> QED BY <2>3, <2>4, <3>1, SavedRows
  <2> QED BY <1>1, <1>3, <2>1, <2>2, <2>5 DEF ListInv
<1>4. CASE ~Is(k, "reload") /\ ~Is(k, "save")
  <2>1. ledger' = ledger
    BY <1>4 DEF Answer, AnswerValuation, AnswerList, AnswerRecalculate, AnswerSave,
           AnswerHalfSaved, AnswerRefused, Is
  <2> QED BY <1>0, <1>1, <1>4, <2>1, ListKept
<1> QED
  BY <1>2, <1>3, <1>4

LEMMA ContinueList ==
    ASSUME TypeOK, LoadInv, ModalInv, BusyInv, ListInv, NEW k \in Task, Continue(k)
    PROVE  ListInv'
<1>0. UNCHANGED <<habits, ledger>> /\ \A j \in Task \ {k} : task'[j] = task[j]
  BY ContinueKeeps
<1> SUFFICES ASSUME Orderly PROVE ListInv'
  BY <1>0 DEF ListInv, Orderly
<1>1. CASE Loaded(k)
  <2>1. task'[k] = Idle /\ Is(k, "reload")
    BY <1>1, OneTaskChanges DEF Loaded, Ends
  <2>2. loading /\ \A j \in Task \ {k} : task[j] = Idle
    BY <2>1 DEF LoadInv, Is
  <2>3. \A j \in Task : ~Is(j, "reload")' /\ ~Is(j, "save")'
    BY <1>0, <2>1, <2>2, KindsDiffer DEF Is
  <2>4. listed' = ledger /\ ~error'
    BY <1>1, <2>1 DEF Loaded, ListInv
  <2> QED BY <1>0, <2>3, <2>4 DEF ListInv
<1>2. CASE SaveAnswered(k) \/ SaveFails(k)
  <2>1. Is(k, "save") /\ UNCHANGED <<loading, error>>
    BY <1>2 DEF SaveAnswered, SaveFails
  <2>2. ~Is(k, "save")' /\ ~Is(k, "reload")'
    BY <1>2, OneTaskChanges, KindsDiffer DEF SaveAnswered, SaveFails, Ends, Is
  <2>3. ~loading /\ \A j \in Task : ~Is(j, "reload")'
    BY <1>0, <2>1, <2>2, LoadingOnlyLoads DEF LoadInv, Is
  <2>4. \A j \in Task : ~Is(j, "save")'
    BY <1>0, <2>1, <2>2, OneSave DEF Is
  <2>5. listed' = ledger
    BY <1>2, <2>1 DEF SaveAnswered, SaveFails, ListInv, ListDuring
  <2> QED BY <1>0, <2>1, <2>3, <2>4, <2>5 DEF ListInv
<1>3. CASE ~Loaded(k) /\ ~SaveAnswered(k) /\ ~SaveFails(k)
  <2>1. \/ FetchValuation(k) \/ FetchAnswered(k)
        \/ RecalcAnswered(k) \/ RecalcFails(k)
    BY <1>3 DEF Continue, LoadFails, FetchFails, Orderly
  <2>2. UNCHANGED <<loading, error, listed>>
    BY <2>1 DEF FetchValuation, FetchAnswered, RecalcAnswered, RecalcFails, page
  <2>3. CASE task' = task
    BY <1>0, <2>2, <2>3 DEF ListInv, ListDuring, Orderly, Is
  <2>4. CASE task' # task
    <3>1. ~Is(k, "save")' /\ ~Is(k, "reload")'
      BY <1>3, <2>4, ContinueTask, KindsDiffer DEF Is
    <3>2. ~Is(k, "save")
      BY <2>1, <2>4, ContinueTask, KindsDiffer
         DEF FetchValuation, FetchAnswered, RecalcAnswered, RecalcFails, Is
    <3> QED BY <1>0, <2>2, <3>1, <3>2, ListKept
  <2> QED BY <2>3, <2>4
<1> QED
  BY <1>1, <1>2, <1>3

LEMMA UserList ==
    ASSUME TypeOK, LoadInv, ModalInv, BusyInv, ListInv, User
    PROVE  ListInv'
<1>0. UNCHANGED <<habits, ledger>>
  BY DEF User, HandleDateChange, OpenModal, CloseModal, Submit, Reopen
<1> SUFFICES ASSUME Orderly PROVE ListInv'
  BY <1>0 DEF ListInv, Orderly
<1>1. ASSUME UNCHANGED <<loading, error, listed, task>> PROVE ListInv'
  BY <1>0, <1>1 DEF ListInv, ListDuring, Orderly, Is
<1>2. ASSUME NEW k \in Task, NEW c \in Maybe(Content), Submit(k, c) PROVE ListInv'
  <2>1. UNCHANGED <<loading, error, listed>> /\ ~loading
    BY <1>2 DEF Submit, Acts, Usable
  <2>2. \A j \in Task : ~Is(j, "save")
    <3>1. modal.task = None
      BY <1>2 DEF Submit
    <3>2. ASSUME NEW j \in Task, Is(j, "save") PROVE FALSE
      <4>1. CASE "close" \notin habits
        BY <3>1, <3>2, <4>1, PageAssumption DEF ModalInv
      <4>2. CASE "hasty" \notin habits
        BY <1>2, <3>2, <4>2, KindsDiffer DEF Submit, Acts, Quiet, Is
      <4> QED BY <4>1, <4>2 DEF Orderly
    <3> QED BY <3>2
  <2>3. listed = ledger
    BY <2>1, <2>2 DEF ListInv
  <2>4. \A j \in Task : ~Is(j, "reload")'
    BY <1>2, <2>1, SubmitTask DEF LoadInv, Is
  <2>5. \A j \in Task : Is(j, "save")' => j = k
    BY <1>2, <2>2, SubmitTask DEF Is
  <2>6. ListDuring(task[k])' /\ Is(k, "save")'
    BY <1>0, <1>2, <2>1, <2>3, SubmitTask DEF ListDuring
  <2> QED BY <1>0, <2>1, <2>4, <2>5, <2>6 DEF ListInv
<1>3. CASE Reopen
  <2>1. \A j \in Task : task'[j] \in {Idle, Reloading}
    BY <1>3, ReopenTasks
  <2>2. \A j \in Task : ~Is(j, "save")' /\ (Is(j, "reload")' => task'[j].list = None)
    BY <2>1, KindsDiffer, NewLoad DEF Is
  <2> QED BY <1>3, <2>2 DEF Reopen, ListInv
<1> QED
  BY <1>1, <1>2, <1>3 DEF User, HandleDateChange, OpenModal, CloseModal

\* The page's list, the open form and what is under way, together.
FollowInv == DateInv /\ ModalInv /\ BusyInv /\ ListInv

LEMMA InitFollow == Init => FollowInv
<1> SUFFICES ASSUME Init PROVE FollowInv
  OBVIOUS
<1>1. PICK k \in Task : \A j \in Task : task[j] = IF j = k THEN Reloading ELSE Idle
  BY DEF Init, FirstLoad
<1>2. \A j \in Task : ~Is(j, "save") /\ (Is(j, "reload") => task[j].list = None)
  BY <1>1, KindsDiffer, NewLoad DEF Is
<1>3. ModalInv /\ BusyInv /\ ListInv
  BY <1>1, <1>2 DEF Init, ModalInv, BusyInv, ListInv
<1> QED
  BY <1>3, InitDate DEF FollowInv

LEMMA FollowStep == TypeOK /\ FollowInv /\ [Next]_vars => FollowInv'
<1> SUFFICES ASSUME TypeOK, FollowInv, [Next]_vars PROVE FollowInv'
  OBVIOUS
<1>1. DateInv' /\ ModalInv' /\ BusyInv'
  BY DateStep, ModalStep, BusyStep DEF FollowInv
<1>2. LoadInv /\ ModalInv /\ BusyInv /\ ListInv
  BY DEF FollowInv, DateInv
<1>3. ListInv'
  <2>1. CASE UNCHANGED vars
    BY <1>2, <2>1 DEF vars, page, ListInv, ListDuring, Orderly, Is
  <2> QED BY <1>2, <2>1, AnswersList, ContinueList, UserList DEF Next
<1> QED
  BY <1>1, <1>3 DEF FollowInv

\* The list that is patched with the page's own changes, and never loaded again,
\* is the ledger whenever no change is under way: for any number of
\* transactions and tasks, and for a user of any haste.
THEOREM ListIsLedger == Spec => []ListFollowsLedger
<1>1. FollowInv => ListFollowsLedger
  BY DEF FollowInv, ListInv, Orderly, ListFollowsLedger, Usable
<1> QED
  BY <1>1, InitFollow, FollowStep, PageTypeCorrect, PTL DEF Spec

--------------------------------------------------------------------------------
(* The valuation of a user who waits.                                           *)

LEMMA PatientIsOrderly ==
    ASSUME Patient
    PROVE  "hasty" \notin habits /\ "fail" \notin habits /\ "clearDate" \notin habits /\ Orderly
  BY DEF Patient, Orderly

\* A task that waits for a valuation is of one of these kinds.
Waits(k) == task[k].kind \in {"reload", "fetch", "recalc"}

\* The part of PositionsInv that is about one task.
TaskKnows(k) ==
    /\ Waits(k) /\ task[k].valuation # None => task[k].valuation.held = ledger
    /\ Is(k, "fetch") => task[k].date = ref
    /\ Is(k, "recalc") \/ Is(k, "save") => Accepts(task[k].date)

PageKnows ==
    /\ ~loading => date # ""
    /\ ~loading /\ ~Behind => shown # None /\ shown.held = ledger

LEMMA PositionsParts ==
    PositionsInv <=> (Patient => positions = ledger /\ (\A k \in Task : TaskKnows(k)) /\ PageKnows)
  BY DEF PositionsInv, TaskKnows, PageKnows, Waits

LEMMA IdleKnows == \A k \in Task : task[k] = Idle => TaskKnows(k)
  BY KindsDiffer DEF TaskKnows, Waits, Is

LEMMA OthersIdle ==
    ASSUME BusyInv, "hasty" \notin habits, NEW k \in Task, task[k] # Idle \/ timer # None
    PROVE  \A j \in Task \ {k} : task[j] = Idle
  BY DEF BusyInv

\* When one task is the only one, what it knows is all there is to know.
LEMMA OnlyTask ==
    ASSUME NEW k \in Task, \A j \in Task \ {k} : task[j] = Idle
    PROVE  /\ TaskKnows(k) => \A j \in Task : TaskKnows(j)
           /\ Behind <=> Is(k, "recalc") \/ (Is(k, "save") /\ task[k].answer = "done")
  BY IdleKnows, KindsDiffer DEF Behind, Is

\* An answer leaves the backend with the positions of its ledger.
LEMMA AnswerPositions ==
    ASSUME TypeOK, PositionsInv, Patient, NEW k \in Task, Answer(k)
    PROVE  positions' = ledger'
<1>1. positions = ledger
  BY DEF PositionsInv
<1>2. CASE AnswerSave(k)
  <2>1. PICK p \in Changes(task[k]) : ledger' = Patched(ledger, p) /\ positions' = ledger'
    BY <1>2 DEF AnswerSave
  <2> QED BY <2>1
<1> QED
  BY <1>1, <1>2, PatientIsOrderly DEF Answer, AnswerValuation, AnswerList, AnswerRecalculate,
     AnswerHalfSaved, AnswerRefused

LEMMA AnswerKnows ==
    ASSUME TypeOK, BusyInv, PositionsInv, Patient, NEW k \in Task, Answer(k)
    PROVE  TaskKnows(k)'
<1>1. /\ task'[k].kind = task[k].kind /\ task'[k].date = task[k].date
      /\ ref' = ref
  BY AnswerKeepsTasks, KindsDiffer DEF page, Is
<1>2. TaskKnows(k) /\ positions = ledger
  BY PositionsParts
<1>3. (Is(k, "fetch") => task[k].date = ref)'
  BY <1>1, <1>2 DEF TaskKnows, Is
<1>4. (Is(k, "recalc") \/ Is(k, "save") => Accepts(task[k].date))'
  BY <1>1, <1>2 DEF TaskKnows, Accepts, Is
<1>5. ASSUME Waits(k)', task'[k].valuation # None PROVE task'[k].valuation.held = ledger'
  <2>1. /\ task[k] \in Reload \cup Fetch \cup Recalc /\ ledger' = ledger
        /\ AnswerValuation(k) \/ AnswerList(k) \/ AnswerRecalculate(k)
    <3>1. Waits(k)
      BY <1>1, <1>5 DEF Waits
    <3>2. task[k] \in Reload \cup Fetch \cup Recalc
      BY <3>1, TypeParts, TaskKinds DEF Waits
    <3>3. AnswerValuation(k) \/ AnswerList(k) \/ AnswerRecalculate(k)
      BY <3>1 DEF Answer, AnswerSave, AnswerHalfSaved, AnswerRefused, Waits, Is
    <3> QED BY <3>2, <3>3 DEF AnswerValuation, AnswerList, AnswerRecalculate
  <2>2. Waits(k) /\ task[k].valuation # None => task[k].valuation.held = ledger
    BY <1>2 DEF TaskKnows
  <2>3. CASE AnswerValuation(k)
    <3>1. PICK d : task'[k] = [task[k] EXCEPT !.valuation = [date |-> d, held |-> positions]]
      BY <2>3, TypeParts DEF AnswerValuation, TasksTyped
    <3> DEFINE v == [date |-> d, held |-> positions]
    <3>2. v.held = ledger
      BY <1>2
    <3>3. task'[k].valuation = v
      BY <2>1, <3>1 DEF Reload, Fetch, Recalc
    <3> HIDE DEF v
    <3> QED BY <2>1, <3>2, <3>3
  <2>4. CASE AnswerList(k)
    <3>1. task'[k] = [task[k] EXCEPT !.list = ledger] /\ Is(k, "reload")
      BY <2>4, TypeParts DEF AnswerList, TasksTyped
    <3>2. task'[k].valuation = task[k].valuation
      BY <3>1
    <3> QED BY <1>1, <1>5, <2>1, <2>2, <3>2 DEF Waits
  <2>5. CASE AnswerRecalculate(k)
    <3>1. task'[k] = [task[k] EXCEPT !.done = TRUE] /\ Is(k, "recalc")
      BY <2>5, TypeParts DEF AnswerRecalculate, TasksTyped
    <3>2. task'[k].valuation = task[k].valuation
      BY <3>1
    <3> QED BY <1>1, <1>5, <2>1, <2>2, <3>2 DEF Waits
  <2> QED BY <2>1, <2>3, <2>4, <2>5
<1> QED
  BY <1>3, <1>4, <1>5 DEF TaskKnows

LEMMA AnswersPositions ==
    ASSUME TypeOK, BusyInv, PositionsInv, Patient, NEW k \in Task, Answer(k)
    PROVE  PositionsInv'
<1>1. /\ UNCHANGED <<loading, date, shown, ref>> /\ task[k] # Idle
      /\ task'[k].kind = task[k].kind
      /\ \A j \in Task \ {k} : task'[j] = task[j]
  BY AnswerKeepsTasks, KindsDiffer DEF page, Is
<1>2. \A j \in Task \ {k} : task[j] = Idle /\ task'[j] = Idle
  BY <1>1, OthersIdle, PatientIsOrderly
<1>3. \A j \in Task : TaskKnows(j)'
  BY <1>2, AnswerKnows, OnlyTask, KindsDiffer DEF TaskKnows, Waits, Is
<1>4. PageKnows'
  <2>1. PageKnows
    BY PositionsParts
  <2>2. Behind <=> Is(k, "recalc") \/ (Is(k, "save") /\ task[k].answer = "done")
    BY <1>2, OnlyTask
  <2>3. Is(k, "recalc") \/ (Is(k, "save") /\ task'[k].answer = "done") => Behind'
    BY <1>1 DEF Behind, Is
  <2>4. AnswerSave(k) => Is(k, "save") /\ task'[k].answer = "done"
    <3> SUFFICES ASSUME AnswerSave(k) PROVE Is(k, "save") /\ task'[k].answer = "done"
      OBVIOUS
    <3>1. PICK p : task'[k] = [task[k] EXCEPT !.answer = "done", !.patch = p]
      BY TypeParts DEF AnswerSave, TasksTyped
    <3>2. task[k] \in Save /\ Is(k, "save")
      BY TypeParts, TaskKinds DEF AnswerSave, Is
    <3> QED BY <3>1, <3>2 DEF Save
  <2>5. ~AnswerSave(k) => ledger' = ledger
    BY PatientIsOrderly DEF Answer, AnswerValuation, AnswerList, AnswerRecalculate,
       AnswerHalfSaved, AnswerRefused
  <2>6. Is(k, "save") => task[k].answer = "none"
    BY DEF Answer, AnswerValuation, AnswerList, AnswerRecalculate, AnswerSave,
       AnswerHalfSaved, AnswerRefused, Is
  <2> QED BY <1>1, <2>1, <2>2, <2>3, <2>4, <2>5, <2>6 DEF PageKnows
<1> QED
  BY <1>3, <1>4, AnswerPositions, PositionsParts DEF PositionsInv, TaskKnows, PageKnows, Waits

\* The same, after a step.
LEMMA PositionsAfter ==
    ASSUME NEW k \in Task, positions' = ledger', TaskKnows(k)', PageKnows',
           \A j \in Task \ {k} : task'[j] = Idle
    PROVE  PositionsInv'
<1>1. \A j \in Task : TaskKnows(j)'
  BY KindsDiffer DEF TaskKnows, Waits, Is
<1> QED
  BY <1>1 DEF PositionsInv, TaskKnows, PageKnows, Waits

\* No change is under way, and none is recalculated, when the page fetches or loads.
LEMMA OnlyBehind ==
    ASSUME NEW k \in Task, \A j \in Task \ {k} : task'[j] = Idle
    PROVE  Behind' <=> (Is(k, "recalc") \/ (Is(k, "save") /\ task[k].answer = "done"))'
  BY KindsDiffer DEF Behind, Is

LEMMA ContinuePositions ==
    ASSUME TypeOK, DateInv, BusyInv, PositionsInv, Patient, NEW k \in Task, Continue(k)
    PROVE  PositionsInv'
<1>0. positions' = ledger' /\ ledger' = ledger
  BY ContinueKeeps DEF PositionsInv
<1>1. TaskKnows(k) /\ PageKnows
  BY PositionsParts
<1>2. task[k] # Idle \/ timer # None
  BY ContinueTask, KindsDiffer DEF FetchValuation, SaveAnswered, Is
<1>3. \A j \in Task \ {k} : task[j] = Idle /\ task'[j] = Idle
  BY <1>2, OthersIdle, PatientIsOrderly, ContinueKeeps
<1>4. Behind <=> Is(k, "recalc") \/ (Is(k, "save") /\ task[k].answer = "done")
  BY <1>3, OnlyTask
<1>5. task'[k] = Idle => TaskKnows(k)' /\ ~Behind'
  BY <1>3, OnlyBehind, KindsDiffer DEF TaskKnows, Waits, Is
<1>6. CASE Loaded(k)
  <2>1. task'[k] = Idle /\ Is(k, "reload")
    BY <1>6, OneTaskChanges DEF Loaded, Ends
  <2>2. date = ""
    BY <2>1 DEF DateInv, LoadInv
  <2>3. task[k] \in Reload
    BY <2>1, TypeParts, TaskKinds DEF Is
  <2>4. task[k].valuation # None /\ task[k].valuation \in Valuation
    BY <1>6, <2>3 DEF Loaded, Reload, Maybe
  <2>5. date' # ""
    BY <1>6, <2>2, <2>4, PageAssumption DEF Loaded, Valuation
  <2>6. shown' # None /\ shown'.held = ledger
    BY <1>1, <1>6, <2>1, <2>4 DEF Loaded, TaskKnows, Waits, Is
  <2>7. PageKnows'
    BY <1>0, <2>5, <2>6 DEF PageKnows
  <2> QED BY <1>0, <1>3, <1>5, <2>1, <2>7, PositionsAfter
<1>7. CASE FetchValuation(k)
  <2>1. UNCHANGED <<loading, date, shown>> /\ ~loading
    BY <1>7 DEF FetchValuation, DateInv, LoadInv
  <2>2. \A j \in Task : task[j] = Idle
    BY <1>7, PatientIsOrderly DEF FetchValuation, BusyInv
  <2>3. ~Behind
    BY <2>2, KindsDiffer DEF Behind, Is
  <2>4. CASE timer = ""
    <3>1. task'[k] = Idle
      BY <1>7, <2>2, <2>4 DEF FetchValuation
    <3> QED BY <1>0, <1>1, <1>3, <1>5, <2>1, <2>3, <3>1, PositionsAfter DEF PageKnows
  <2>5. CASE timer # ""
    <3>1. task'[k] = Fetching(timer) /\ ref' = timer
      BY <1>7, <2>5, OneTaskChanges DEF FetchValuation
    <3>2. TaskKnows(k)'
      BY <3>1, KindsDiffer DEF TaskKnows, Is
    <3>3. PageKnows'
      BY <1>0, <1>1, <2>1, <2>3 DEF PageKnows
    <3> QED BY <1>0, <1>3, <3>2, <3>3, PositionsAfter
  <2> QED BY <2>4, <2>5
<1>8. CASE FetchAnswered(k)
  <2>1. task'[k] = Idle /\ UNCHANGED <<loading, date>>
    BY <1>8, OneTaskChanges DEF FetchAnswered, Ends
  <2>2. IsLatest(task[k].date) /\ Waits(k)
    BY <1>1, <1>8 DEF FetchAnswered, TaskKnows, IsLatest, Waits, Is
  <2>3. shown' # None /\ shown'.held = ledger
    BY <1>1, <1>8, <2>2 DEF FetchAnswered, TaskKnows
  <2> QED BY <1>0, <1>1, <1>3, <1>5, <2>1, <2>3, PositionsAfter DEF PageKnows
<1>9. CASE SaveAnswered(k)
  <2>1. task'[k] = Recalculating(task[k].date) /\ UNCHANGED <<loading, date, ref>>
    BY <1>9, OneTaskChanges DEF SaveAnswered
  <2>2. Accepts(task[k].date)
    BY <1>1, <1>9 DEF SaveAnswered, TaskKnows
  <2>3. TaskKnows(k)'
    BY <2>1, <2>2, KindsDiffer DEF TaskKnows, Accepts, Is
  <2>4. Behind'
    BY <2>1, KindsDiffer DEF Behind, Is
  <2> QED BY <1>0, <1>1, <1>3, <2>1, <2>3, <2>4, PositionsAfter DEF PageKnows
<1>10. CASE SaveFails(k)
  <2>1. task'[k] = Idle /\ UNCHANGED <<loading, date, shown>>
    BY <1>10, OneTaskChanges DEF SaveFails, Ends
  <2>2. ~Behind
    BY <1>4, <1>10 DEF SaveFails, Is
  <2> QED BY <1>0, <1>1, <1>3, <1>5, <2>1, <2>2, PositionsAfter DEF PageKnows
<1>11. CASE RecalcAnswered(k)
  <2>1. task'[k] = Idle /\ UNCHANGED <<loading, date>>
    BY <1>11, OneTaskChanges DEF RecalcAnswered, Ends
  <2>2. Accepts(task[k].date) /\ Waits(k)
    BY <1>1, <1>11 DEF RecalcAnswered, TaskKnows, Waits, Is
  <2>3. shown' # None /\ shown'.held = ledger
    BY <1>1, <1>11, <2>2 DEF RecalcAnswered, TaskKnows
  <2> QED BY <1>0, <1>1, <1>3, <1>5, <2>1, <2>3, PositionsAfter DEF PageKnows
<1> QED
  BY <1>6, <1>7, <1>8, <1>9, <1>10, <1>11, PatientIsOrderly
     DEF Continue, LoadFails, FetchFails, RecalcFails

LEMMA UserPositions ==
    ASSUME TypeOK, DateInv, BusyInv, ListInv, PositionsInv, Patient, User
    PROVE  PositionsInv'
<1>1. UNCHANGED <<ledger, positions>> /\ positions' = ledger'
  BY DEF User, HandleDateChange, OpenModal, CloseModal, Submit, Reopen, PositionsInv
<1>2. PageKnows /\ \A j \in Task : TaskKnows(j)
  BY PositionsParts
<1>3. ASSUME UNCHANGED <<loading, date, shown, ref, task>> PROVE PositionsInv'
  BY <1>1, <1>3 DEF PositionsInv, Behind, Accepts, Is
<1>4. ASSUME NEW d \in Date \cup {""}, HandleDateChange(d) PROVE PositionsInv'
  <2>1. d # "" /\ date' = d /\ UNCHANGED <<loading, shown, ref, task>>
    BY <1>4, PatientIsOrderly DEF HandleDateChange
  <2> QED BY <1>1, <2>1 DEF PositionsInv, Behind, Accepts, Is
<1>5. ASSUME NEW k \in Task, NEW c \in Maybe(Content), Submit(k, c) PROVE PositionsInv'
  <2>1. Usable /\ timer = None /\ \A j \in Task : task[j] = Idle
    BY <1>5, PatientIsOrderly DEF Submit, Acts, Quiet
  <2>2. UNCHANGED <<loading, date, shown, ref>>
    BY <1>5 DEF Submit
  <2>3. \A j \in Task \ {k} : task'[j] = Idle
    BY <1>5, <2>1, SubmitTask
  <2>4. ~Behind /\ ~Behind'
    BY <1>5, <2>1, <2>3, OnlyBehind, SubmitTask, KindsDiffer DEF Behind, Is
  <2>5. Accepts(date)
    BY <1>2, <2>1 DEF DateInv, FieldInv, Accepts, Usable, PageKnows
  <2>6. TaskKnows(k)'
    BY <1>5, <2>2, <2>5, SubmitTask DEF TaskKnows, Waits, Accepts, Is
  <2>7. PageKnows'
    BY <1>1, <1>2, <2>2, <2>4 DEF PageKnows
  <2> QED BY <1>1, <2>3, <2>6, <2>7, PositionsAfter
<1>6. CASE Reopen
  <2>1. PICK k \in Task : /\ task'[k] = Reloading
                          /\ \A j \in Task \ {k} : task'[j] = Idle
    BY <1>6 DEF Reopen, FirstLoad
  <2>2. TaskKnows(k)'
    BY <2>1, KindsDiffer, NewLoad DEF TaskKnows, Is
  <2>3. PageKnows'
    BY <1>6 DEF Reopen, PageKnows
  <2> QED BY <1>1, <2>1, <2>2, <2>3, PositionsAfter
<1> QED
  BY <1>3, <1>4, <1>5, <1>6 DEF User, OpenModal, CloseModal

LEMMA InitPositions == Init => PositionsInv
<1> SUFFICES ASSUME Init PROVE PositionsInv
  OBVIOUS
<1>1. PICK k \in Task : \A j \in Task : task[j] = IF j = k THEN Reloading ELSE Idle
  BY DEF Init, FirstLoad
<1>2. \A j \in Task : TaskKnows(j)
  BY <1>1, KindsDiffer, NewLoad DEF TaskKnows, Waits, Is
<1> QED
  BY <1>2, PositionsParts DEF Init, PageKnows

LEMMA PositionsStep == TypeOK /\ FollowInv /\ PositionsInv /\ [Next]_vars => PositionsInv'
<1> SUFFICES ASSUME TypeOK, FollowInv, PositionsInv, [Next]_vars, Patient
             PROVE  PositionsInv'
  BY HabitsStay DEF PositionsInv, Patient
<1>1. DateInv /\ BusyInv /\ ListInv
  BY DEF FollowInv
<1>2. CASE UNCHANGED vars
  BY <1>2 DEF vars, page, PositionsInv, Behind, Accepts, Is
<1> QED
  BY <1>1, <1>2, AnswersPositions, ContinuePositions, UserPositions DEF Next

\* A user who waits for each answer sees, whenever nothing is under way, the
\* positions that follow from all transactions: what the tests of dates on the
\* answers let through is never older than the last change.
THEOREM PositionsShown == Spec => []RestShowsPositions
<1>1. FollowInv /\ PositionsInv => RestShowsPositions
  <2> SUFFICES ASSUME FollowInv, PositionsInv, AtRest, Patient
               PROVE  shown.held = ledger /\ listed = ledger
    BY DEF RestShowsPositions, Patient
  <2>1. ~loading /\ \A k \in Task : task[k].kind = "idle"
    BY KindsDiffer DEF AtRest, Quiet, Usable
  <2>2. ~Behind /\ \A k \in Task : ~Is(k, "save")
    BY <2>1 DEF Behind, Is
  <2> QED BY <2>1, <2>2, PatientIsOrderly DEF PositionsInv, FollowInv, ListInv
<1> QED
  BY <1>1, InitFollow, FollowStep, InitPositions, PositionsStep, PageTypeCorrect, PTL DEF Spec
================================================================================
