----------------------------- MODULE PortfolioPage -----------------------------
(***************************************************************************)
(* The page of a portfolio in the browser (PortfolioDetail.tsx): the       *)
(* valuation it shows, the list of transactions, the chosen date, and the  *)
(* forms that change the ledger.                                           *)
(*                                                                         *)
(* Every request is asynchronous, and nothing orders the answers.  A task  *)
(* is an async function of the page with the request it waits for: the     *)
(* first load (reload), the valuation of a chosen date (fetchValuation),   *)
(* a change of the ledger (the submit of a form), and what follows a       *)
(* change (autoRecalculate).  The page drops an answer by comparing a date *)
(* with the one of the latest fetch, kept in valuationDateRef.             *)
(*                                                                         *)
(* The backend is abstract: it handles a request in one step, at some time *)
(* between its sending and its answer.  What happens when its handlers     *)
(* overlap is in PortfolioLedger.  A transaction is its id and a content;  *)
(* positions, and the valuation that is computed from them, are the ledger *)
(* they were calculated from.                                              *)
(***************************************************************************)
EXTENDS Integers, FiniteSets

CONSTANTS
    Txn,        \* ids of transactions
    Content,    \* what a transaction says
    Date,       \* dates of valuations
    Task,       \* async functions of the page: bounds how many run at a time
    Profiles,   \* sets of habits, one of which holds throughout a behaviour
    None

\* "hasty"      the user acts while a request is under way or a date is pending
\* "close"      the user closes a form that is being saved
\* "clearDate"  the user empties the date field
\* "fail"       requests fail
Habits == {"hasty", "close", "clearDate", "fail"}

ASSUME PageAssumption ==
    /\ Profiles \subseteq SUBSET Habits
    /\ None \notin Content /\ None \notin Txn /\ None \notin Task
    /\ None \notin Date \cup {""}
    /\ "" \notin Date

VARIABLES
    habits,      \* of the user and the network; never changes
    ledger,      \* the table transactions: a content, or None, for each id
    positions,   \* the ledger that the positions were calculated from
    loading,     \* the spinner is shown
    error,       \* an error banner is shown in place of the page
    date,        \* the date field, "" when empty
    shown,       \* the valuation on the page, None before the first
    listed,      \* the transactions on the page
    modal,       \* the open form or dialog, or None
    ref,         \* valuationDateRef: the date of the latest fetch, or ""
    timer,       \* the date that waits for the debounce, or None
    refreshing,  \* "Updating..." is shown
    task

page == <<loading, error, date, shown, listed, modal, ref, timer, refreshing>>
vars == <<habits, ledger, positions, page, task>>

Ledger    == [Txn -> Content \cup {None}]
Valuation == [date : Date, held : Ledger]
Form      == {"add", "buy", "edit", "delete", "clear"}
NoRows    == [t \in Txn |-> None]

\* What a change made of the rows it touched, as the answer says it.
Patch == UNION {[S -> Content \cup {None}] : S \in SUBSET Txn}

Maybe(S) == S \cup {None}

ASSUME ModalAssumption == None \notin [form : Form, txn : Maybe(Txn), task : Maybe(Task)]

Reload == [kind : {"reload"}, date : {""}, valuation : Maybe(Valuation), list : Maybe(Ledger)]
Fetch  == [kind : {"fetch"}, date : Date, valuation : Maybe(Valuation)]
Recalc == [kind : {"recalc"}, date : Date \cup {""}, done : BOOLEAN, valuation : Maybe(Valuation)]
Save   == [kind : {"save"}, date : Date \cup {""}, form : Form, txn : Maybe(Txn),
           content : Maybe(Content), answer : {"none", "done", "error"}, patch : Patch]

Idle        == [kind |-> "idle"]
Reloading   == [kind |-> "reload", date |-> "", valuation |-> None, list |-> None]
Fetching(d) == [kind |-> "fetch", date |-> d, valuation |-> None]
Recalculating(d) == [kind |-> "recalc", date |-> d, done |-> FALSE, valuation |-> None]

Is(k, kind) == task[k].kind = kind
Ends(k) == task' = [task EXCEPT ![k] = Idle]

--------------------------------------------------------------------------------
\* The page is opened, with its first load under way in task k.
FirstLoad(k) == [j \in Task |-> IF j = k THEN Reloading ELSE Idle]

Init ==
    /\ habits \in Profiles
    /\ ledger = NoRows
    /\ positions = NoRows
    /\ loading = TRUE /\ error = FALSE
    /\ date = "" /\ shown = None /\ listed = NoRows
    /\ modal = None
    /\ ref = "" /\ timer = None /\ refreshing = FALSE
    /\ \E k \in Task : task = FirstLoad(k)

Quiet  == timer = None /\ \A k \in Task : task[k] = Idle
Usable == ~loading /\ ~error

\* A user who is not hasty waits until nothing is under way.
Acts == Usable /\ ("hasty" \in habits \/ Quiet)

--------------------------------------------------------------------------------
(* The backend.                                                                 *)

\* The dates a valuation may be of: the one asked for, or the latest with a price.
DatesFor(d) == IF d = "" THEN Date ELSE {d}

\* GET valuation: from the positions as they are.
AnswerValuation(k) ==
    /\ \/ task[k].kind \in {"reload", "fetch"}
       \/ task[k].kind = "recalc" /\ task[k].done
    /\ task[k].valuation = None
    /\ \E d \in DatesFor(task[k].date) :
          task' = [task EXCEPT ![k].valuation = [date |-> d, held |-> positions]]
    /\ UNCHANGED <<habits, ledger, positions, page>>

\* GET transactions.
AnswerList(k) ==
    /\ Is(k, "reload")
    /\ task[k].list = None
    /\ task' = [task EXCEPT ![k].list = ledger]
    /\ UNCHANGED <<habits, ledger, positions, page>>

\* POST positions/recalculate. The page asks for the valuation when it has the answer.
AnswerRecalculate(k) ==
    /\ Is(k, "recalc")
    /\ ~task[k].done
    /\ positions' = ledger
    /\ task' = [task EXCEPT ![k].done = TRUE]
    /\ UNCHANGED <<habits, ledger, page>>

Present(rows) == {t \in Txn : rows[t] # None}
Patched(rows, p) == [t \in Txn |-> IF t \in DOMAIN p THEN p[t] ELSE rows[t]]

\* The sets of rows a change may make, replace or remove: none if its row is gone.
RowSets(s) ==
    {S \in SUBSET Txn :
        \/ s.form = "add" /\ S \cap Present(ledger) = {} /\ \E t \in Txn : S = {t}
        \/ s.form = "buy" /\ S \cap Present(ledger) = {} /\ S # {}
        \/ s.form \in {"edit", "delete"} /\ S = Present(ledger) \cap {s.txn} /\ S # {}
        \/ s.form = "clear" /\ S = Txn}

Changes(s) ==
    {[t \in S |-> IF s.form \in {"delete", "clear"} THEN None ELSE s.content] : S \in RowSets(s)}

\* A change of the ledger is committed and the positions are recalculated.
AnswerSave(k) ==
    /\ Is(k, "save")
    /\ task[k].answer = "none"
    /\ \E p \in Changes(task[k]) :
          /\ ledger' = Patched(ledger, p)
          /\ positions' = ledger'
          /\ task' = [task EXCEPT ![k].answer = "done", ![k].patch = p]
    /\ UNCHANGED <<habits, page>>

\* It is committed, and the recalculation fails: the answer is an error.
AnswerHalfSaved(k) ==
    /\ "fail" \in habits
    /\ Is(k, "save")
    /\ task[k].answer = "none"
    /\ \E p \in Changes(task[k]) : ledger' = Patched(ledger, p)
    /\ task' = [task EXCEPT ![k].answer = "error"]
    /\ UNCHANGED <<habits, positions, page>>

\* Nothing is changed: the request is not valid, its transaction is gone, or it fails.
AnswerRefused(k) ==
    /\ Is(k, "save")
    /\ task[k].answer = "none"
    /\ task' = [task EXCEPT ![k].answer = "error"]
    /\ UNCHANGED <<habits, ledger, positions, page>>

--------------------------------------------------------------------------------
(* The first load, and the date.                                                *)

\* reload() has all its answers.
Loaded(k) ==
    /\ Is(k, "reload")
    /\ task[k].valuation # None /\ task[k].list # None
    /\ shown' = task[k].valuation
    /\ date' = IF date = "" THEN task[k].valuation.date ELSE date
    /\ listed' = task[k].list
    /\ loading' = FALSE
    /\ Ends(k)
    /\ UNCHANGED <<habits, ledger, positions, error, modal, ref, timer, refreshing>>

LoadFails(k) ==
    /\ "fail" \in habits
    /\ Is(k, "reload")
    /\ error' = TRUE
    /\ loading' = FALSE
    /\ Ends(k)
    /\ UNCHANGED <<habits, ledger, positions, date, shown, listed, modal, ref, timer, refreshing>>

\* The date field is in reach of the keyboard even when a form is open.
HandleDateChange(d) ==
    /\ Acts
    /\ d # date
    /\ d = "" => "clearDate" \in habits
    /\ date' = d
    /\ timer' = d
    /\ UNCHANGED <<habits, ledger, positions, loading, error, shown, listed, modal, ref,
                   refreshing, task>>

\* The debounce is over; for an empty date fetchValuation returns at once.
FetchValuation(k) ==
    /\ timer # None
    /\ timer' = None
    /\ IF timer = ""
       THEN UNCHANGED <<ref, refreshing, task>>
       ELSE /\ task[k] = Idle
            /\ ref' = timer
            /\ refreshing' = TRUE
            /\ task' = [task EXCEPT ![k] = Fetching(timer)]
    /\ UNCHANGED <<habits, ledger, positions, loading, error, date, shown, listed, modal>>

\* Mutant of IsLatest: the answers are not told apart.
IsAny(d) == TRUE

\* The token of a fetch is still the latest one.
IsLatest(d) == ref = d

FetchAnswered(k) ==
    /\ Is(k, "fetch")
    /\ task[k].valuation # None
    /\ IF IsLatest(task[k].date)
       THEN shown' = task[k].valuation /\ refreshing' = FALSE
       ELSE UNCHANGED <<shown, refreshing>>
    /\ Ends(k)
    /\ UNCHANGED <<habits, ledger, positions, loading, error, date, listed, modal, ref, timer>>

FetchFails(k) ==
    /\ "fail" \in habits
    /\ Is(k, "fetch")
    /\ IF IsLatest(task[k].date)
       THEN error' = TRUE /\ refreshing' = FALSE
       ELSE UNCHANGED <<error, refreshing>>
    /\ Ends(k)
    /\ UNCHANGED <<habits, ledger, positions, loading, date, shown, listed, modal, ref, timer>>

--------------------------------------------------------------------------------
(* Forms and dialogs.                                                           *)

OpenModal(form, t) ==
    /\ Usable
    /\ modal = None
    /\ form \in {"edit", "delete"} <=> t # None
    /\ t # None => t \in Present(listed)
    /\ form = "clear" => Present(listed) # {}
    /\ modal' = [form |-> form, txn |-> t, task |-> None]
    /\ UNCHANGED <<habits, ledger, positions, loading, error, date, shown, listed, ref, timer,
                   refreshing, task>>

\* A dialog that is working cannot be closed, a form that is saving can.
CloseModal ==
    /\ Usable
    /\ modal # None
    /\ modal.task # None => modal.form \in {"add", "buy", "edit"} /\ "close" \in habits
    /\ modal' = None
    /\ UNCHANGED <<habits, ledger, positions, loading, error, date, shown, listed, ref, timer,
                   refreshing, task>>

\* handleSubmit or handleConfirm: the callbacks keep the date of this moment.
Submit(k, c) ==
    /\ Acts
    /\ modal # None
    /\ modal.task = None
    /\ modal.form \in {"add", "buy", "edit"} <=> c # None
    /\ task[k] = Idle
    /\ task' = [task EXCEPT ![k] =
          [kind |-> "save", date |-> date, form |-> modal.form, txn |-> modal.txn,
           content |-> c, answer |-> "none", patch |-> [t \in {} |-> None]]]
    /\ modal' = [modal EXCEPT !.task = k]
    /\ UNCHANGED <<habits, ledger, positions, loading, error, date, shown, listed, ref, timer,
                   refreshing>>

\* Mutant of Touches: a clearing is not applied to the list.
TouchesOne(rows, s, t) ==
    t \in DOMAIN s.patch /\ s.form # "clear" /\ (s.form = "edit" => rows[t] # None)

\* The change s is about row t; an edit replaces a row only where there is one.
Touches(rows, s, t) == t \in DOMAIN s.patch /\ (s.form = "edit" => rows[t] # None)

WithChange(rows, s) == [t \in Txn |-> IF Touches(rows, s, t) THEN s.patch[t] ELSE rows[t]]

\* The change is made: update the list, close what is open, and recalculate.
SaveAnswered(k) ==
    /\ Is(k, "save")
    /\ task[k].answer = "done"
    /\ listed' = WithChange(listed, task[k])
    /\ modal' = None
    /\ task' = [task EXCEPT ![k] = Recalculating(task[k].date)]
    /\ UNCHANGED <<habits, ledger, positions, loading, error, date, shown, ref, timer, refreshing>>

SaveFails(k) ==
    /\ Is(k, "save")
    /\ task[k].answer = "error"
    /\ modal' = IF modal # None /\ modal.task = k THEN [modal EXCEPT !.task = None] ELSE modal
    /\ Ends(k)
    /\ UNCHANGED <<habits, ledger, positions, loading, error, date, shown, listed, ref, timer,
                   refreshing>>

--------------------------------------------------------------------------------
(* autoRecalculate.                                                             *)

\* Mutant of Accepts: a page whose date was never changed is forgotten.
AcceptsLatestOnly(d) == ref = d

\* No fetch, or the latest one, was for the date of the recalculation.
Accepts(d) == ref \in {d, ""}

RecalcAnswered(k) ==
    /\ Is(k, "recalc")
    /\ task[k].valuation # None
    /\ shown' = IF Accepts(task[k].date) THEN task[k].valuation ELSE shown
    /\ Ends(k)
    /\ UNCHANGED <<habits, ledger, positions, loading, error, date, listed, modal, ref, timer,
                   refreshing>>

\* Errors are swallowed.
RecalcFails(k) ==
    /\ "fail" \in habits
    /\ Is(k, "recalc")
    /\ Ends(k)
    /\ UNCHANGED <<habits, ledger, positions, page>>

\* The user leaves a page on which nothing is going on, and opens it again.
Reopen ==
    /\ Quiet
    /\ loading' = TRUE /\ error' = FALSE
    /\ date' = "" /\ shown' = None /\ listed' = NoRows
    /\ modal' = None
    /\ ref' = "" /\ timer' = None /\ refreshing' = FALSE
    /\ \E k \in Task : task' = FirstLoad(k)
    /\ UNCHANGED <<habits, ledger, positions>>

--------------------------------------------------------------------------------
Answer(k) ==
    \/ AnswerValuation(k) \/ AnswerList(k) \/ AnswerRecalculate(k)
    \/ AnswerSave(k) \/ AnswerHalfSaved(k) \/ AnswerRefused(k)

Continue(k) ==
    \/ Loaded(k) \/ LoadFails(k)
    \/ FetchValuation(k) \/ FetchAnswered(k) \/ FetchFails(k)
    \/ SaveAnswered(k) \/ SaveFails(k)
    \/ RecalcAnswered(k) \/ RecalcFails(k)

User ==
    \/ \E d \in Date \cup {""} : HandleDateChange(d)
    \/ \E form \in Form, t \in Maybe(Txn) : OpenModal(form, t)
    \/ CloseModal
    \/ \E k \in Task, c \in Maybe(Content) : Submit(k, c)
    \/ Reopen

Next ==
    \/ \E k \in Task : Answer(k) \/ Continue(k)
    \/ User

Spec == Init /\ [][Next]_vars

--------------------------------------------------------------------------------
(* Properties.                                                                  *)

\* The variables have their types.
TypeOK ==
    /\ habits \in SUBSET Habits
    /\ ledger \in Ledger /\ positions \in Ledger /\ listed \in Ledger
    /\ loading \in BOOLEAN /\ error \in BOOLEAN /\ refreshing \in BOOLEAN
    /\ date \in Date \cup {""} /\ ref \in Date \cup {""}
    /\ timer \in Date \cup {"", None}
    /\ shown \in Maybe(Valuation)
    /\ modal \in Maybe([form : Form, txn : Maybe(Txn), task : Maybe(Task)])
    /\ task \in [Task -> {Idle} \cup Reload \cup Fetch \cup Recalc \cup Save]

AtRest == Quiet /\ Usable

\* However hasty the user and however late the answers, when all has come to
\* rest the page shows the valuation of the date in its field and does not say
\* "Updating...".  This is what the tokens of fetchValuation and autoRecalculate
\* are for: answers to older dates come in any order.
RestShowsChosenDate ==
    AtRest /\ date # "" => shown # None /\ shown.date = date /\ ~refreshing

\* The list of transactions is patched with each answer and never loaded again.
\* It is the ledger whenever no change is under way, if forms are not closed
\* while they are saved and no request fails.
ListFollowsLedger ==
    /\ Usable
    /\ habits \cap {"close", "fail"} = {}
    /\ \A k \in Task : ~Is(k, "save")
    => listed = ledger

\* A user who waits sees the positions that follow from all the transactions,
\* also before any date was chosen.
RestShowsPositions ==
    AtRest /\ habits \subseteq {"close"} => shown.held = ledger /\ listed = ledger
================================================================================
