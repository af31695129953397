------------------------------- MODULE Catalogue -------------------------------
(***************************************************************************)
(* Allocation templates and the instruments their items refer to, under    *)
(* concurrent HTTP requests.                                               *)
(*                                                                         *)
(* PUT templates/:id reads the template with its items, saves that entity  *)
(* (TypeORM reads the rows again and writes the difference) and, when the  *)
(* client sent items, deletes those of the template and inserts the new    *)
(* ones, all in one database transaction at READ COMMITTED.  What it wrote *)
(* is visible to others at its COMMIT, which is one step with its last     *)
(* INSERTs; until then others wait for the rows it has locked, so each     *)
(* statement that locks rows is a step.  PostgreSQL ends a circular wait   *)
(* by aborting one of the transactions.                                    *)
(*                                                                         *)
(* The description of a template is left out.  An item that was deleted    *)
(* and stored again under the same id is taken for a new one, which needs  *)
(* three overlapping requests on one template.                             *)
(***************************************************************************)
EXTENDS Integers, FiniteSets, Functions

CONSTANTS
    Instrument,   \* ids of instruments, all of them in the database at first
    Template,     \* ids of allocation templates
    Code,         \* the codes that clients give to templates
    Reserved,     \* those of them that templates have which no request is about
    Request,      \* slots for HTTP requests: bounds how many are in flight
    Weight,       \* the weights that clients send
    Whole,        \* what the weights of a template must add up to
    Tolerance,    \* and by how much they may miss it
    None          \* no template, no code, a field the client left undefined

\* The table gives an instrument at most one item of a template: an item is its
\* weight, and zero stands for the absence of one (the table has CHECK weight > 0).
NoItem == 0

ItemSet == [Instrument -> Weight \cup {NoItem}]

Mode == {"none", "update", "insert"}

\* Overlapping requests wrote the template, or one of its instruments was deleted.
Flaw == {"none", "mixed", "cut"}

\* What a request in flight is about to write, and the items it read with their
\* flaw; alone tells that no other request on the template was there.
Plan == [code : Code \cup {None}, known : ItemSet, put : ItemSet \cup {None}, mode : Mode,
         flaw : Flaw, alone : BOOLEAN]

Steps == {"idle", "reload", "write", "delete", "wait", "insert", "remove", "cascade"}

ASSUME ConstantsAssumption ==
    /\ IsFiniteSet(Instrument)
    /\ Weight \subseteq Nat \ {NoItem}
    /\ Reserved \subseteq Code
    /\ Whole \in Nat /\ Tolerance \in Nat
    /\ None \notin Template /\ None \notin Code /\ None \notin ItemSet /\ None \notin Plan

VARIABLES
    instruments,  \* rows of the table instruments
    templates,    \* the table allocation_templates: a code, or None, for each id
    items,        \* the table allocation_template_items
    pc,           \* the next step of each request
    target,       \* the template a request is about
    plan,         \* what it has read and is about to write
    rows,         \* the items it has read or deleted, those still there
    flaw          \* auxiliary: why the weights of a template may not add up

tables   == <<instruments, templates, items>>
requests == <<pc, target, plan, rows>>
vars     == <<instruments, templates, items, pc, target, plan, rows, flaw>>

NoItems == [i \in Instrument |-> NoItem]

Funds(f) == {i \in Instrument : f[i] # NoItem}

Sum(f) == SumFunction(f)

\* validateItems; a fund that appears twice is no function.
ValidItems(f) ==
    Funds(f) # {} /\ Sum(f) \in (Whole - Tolerance)..(Whole + Tolerance)

--------------------------------------------------------------------------------
(* Requests, the rows they have locked and whom they wait for.                  *)

InFlight(t) == {r \in Request : target[r] = t}

\* The row of t was updated, or is being deleted, by the open transaction of r.
HoldsTemplate(r, t) ==
    /\ target[r] = t
    /\ \/ pc[r] = "cascade"
       \/ pc[r] \in {"delete", "wait", "insert"} /\ plan[r].mode = "update"

\* The items of t that the open transaction of r has deleted.
HeldItems(r, t) == IF target[r] = t /\ pc[r] = "insert" THEN rows[r] ELSE {}

\* A unique code that an open transaction may be about to commit.
HoldsCode(r, code) ==
    /\ pc[r] \in {"delete", "wait", "insert"}
    /\ plan[r].mode = "update" /\ plan[r].code = code

\* The requests whose end the next statement of r waits for.
Blockers(r) ==
    {q \in Request \ {r} :
        \/ /\ pc[r] = "write" /\ plan[r].mode = "update"
           /\ HoldsTemplate(q, target[r]) \/ HoldsCode(q, plan[r].code)
        \/ pc[r] = "write" /\ plan[r].mode = "insert" /\ HoldsCode(q, plan[r].code)
        \/ pc[r] = "wait" /\ HeldItems(q, target[r]) \cap rows[r] # {}
        \/ /\ pc[r] = "insert"
           /\ \/ HoldsTemplate(q, target[r])
              \/ HeldItems(q, target[r]) \cap Funds(plan[r].put) # {}
        \/ pc[r] = "remove" /\ HoldsTemplate(q, target[r])
        \/ pc[r] = "cascade" /\ HeldItems(q, target[r]) # {}}

At(r, step) == pc[r] = step /\ Blockers(r) = {}

Enter(r, t, step, p) ==
    /\ pc' = [pc EXCEPT ![r] = step]
    /\ target' = [target EXCEPT ![r] = t]
    /\ plan' = [q \in Request |->
           IF q = r THEN p
           ELSE IF target[q] = t THEN [plan[q] EXCEPT !.alone = FALSE] ELSE plan[q]]

Finish(r) ==
    /\ pc' = [pc EXCEPT ![r] = "idle"]
    /\ target' = [target EXCEPT ![r] = None]
    /\ plan' = [plan EXCEPT ![r] = None]

\* The items I of template t were deleted: whoever had read them finds them gone.
ItemsGone(t, I) == [q \in Request |-> IF target[q] = t THEN rows[q] \ I ELSE rows[q]]

--------------------------------------------------------------------------------
Init ==
    /\ instruments = Instrument
    /\ templates = [t \in Template |-> None]
    /\ items = [t \in Template |-> NoItems]
    /\ pc = [r \in Request |-> "idle"]
    /\ target = [r \in Request |-> None]
    /\ plan = [r \in Request |-> None]
    /\ rows = [r \in Request |-> {}]
    /\ flaw = [t \in Template |-> "none"]

CodeTaken(code, t) ==
    code \in Reserved \/ \E u \in Template \ {t} : templates[u] = code

\* POST templates: the template and its items, in one database transaction.  An
\* id is used again only when nothing refers to it any more.
Create(t, code, put) ==
    /\ templates[t] = None /\ InFlight(t) = {}
    /\ ValidItems(put) /\ Funds(put) \subseteq instruments
    /\ ~CodeTaken(code, t) /\ ~\E q \in Request : HoldsCode(q, code)
    /\ templates' = [templates EXCEPT ![t] = code]
    /\ items' = [items EXCEPT ![t] = put]
    /\ flaw' = [flaw EXCEPT ![t] = "none"]
    /\ UNCHANGED <<instruments, requests>>

\* Mutant of UpdateFind: the new items are not validated.
UpdateFindUnchecked(r, t, code, put) ==
    /\ pc[r] = "idle" /\ templates[t] # None
    /\ put # None => Funds(put) \subseteq instruments
    /\ Enter(r, t, "reload",
             [code |-> IF code = None THEN templates[t] ELSE code, known |-> items[t],
              put |-> put, mode |-> "none", flaw |-> flaw[t], alone |-> put # None /\ InFlight(t) = {}])
    /\ rows' = [rows EXCEPT ![r] = Funds(items[t])]
    /\ UNCHANGED <<tables, flaw>>

\* PUT templates/:id, up to em.save: the template is read with its items.
UpdateFind(r, t, code, put) ==
    /\ pc[r] = "idle" /\ templates[t] # None
    /\ put # None => ValidItems(put) /\ Funds(put) \subseteq instruments
    /\ Enter(r, t, "reload",
             [code |-> IF code = None THEN templates[t] ELSE code, known |-> items[t],
              put |-> put, mode |-> "none", flaw |-> flaw[t], alone |-> put # None /\ InFlight(t) = {}])
    /\ rows' = [rows EXCEPT ![r] = Funds(items[t])]
    /\ UNCHANGED <<tables, flaw>>

\* BEGIN; em.save(existing) reads the template and its items again.  A template
\* that is gone will be inserted, with its items; one whose items are the same
\* rows as before is updated when its code differs.  What is no longer needed is
\* forgotten.
Reload(r) ==
    LET t == target[r] IN
    /\ pc[r] = "reload"
    /\ templates[t] # None =>
         rows[r] = Funds(plan[r].known) /\ Funds(items[t]) = rows[r]
    /\ plan' = [plan EXCEPT ![r] =
           IF templates[t] = None THEN [@ EXCEPT !.mode = "insert"]
           ELSE IF templates[t] # @.code
           THEN [@ EXCEPT !.mode = "update", !.known = NoItems, !.flaw = "none"]
           ELSE [@ EXCEPT !.code = None, !.known = NoItems, !.flaw = "none"]]
    /\ rows' = [rows EXCEPT ![r] = {}]
    /\ pc' = [pc EXCEPT ![r] = "write"]
    /\ UNCHANGED <<tables, target, flaw>>

\* Mutant of Abort: the service tries the update again, with what it had read.
AbortRetrying(r) ==
    /\ pc' = [pc EXCEPT ![r] = "reload"]
    /\ UNCHANGED <<tables, target, plan, rows, flaw>>

\* ROLLBACK, 500
Abort(r) ==
    /\ Finish(r)
    /\ rows' = [rows EXCEPT ![r] = {}]
    /\ UNCHANGED <<tables, flaw>>

\* Items that are not those it read: em.save inserts the ones that are gone (a
\* unique or a foreign-key violation) and sets template_id of the new ones to
\* NULL (a NOT NULL violation).
ReloadFails(r) ==
    LET t == target[r] IN
    /\ pc[r] = "reload" /\ templates[t] # None
    /\ rows[r] # Funds(plan[r].known) \/ Funds(items[t]) # rows[r]
    /\ Abort(r)

\* Nothing left to do: COMMIT.
Answer(r) ==
    /\ Finish(r)
    /\ rows' = [rows EXCEPT ![r] = {}]

\* The entity is stored as it was read, and nothing is sent when it is unchanged.
WriteNothing(r) ==
    /\ At(r, "write") /\ plan[r].mode = "none"
    /\ \/ plan[r].put = None /\ Answer(r)
       \/ /\ plan[r].put # None
          /\ pc' = [pc EXCEPT ![r] = "delete"]
          /\ UNCHANGED <<target, plan, rows>>
    /\ UNCHANGED <<tables, flaw>>

\* UPDATE allocation_templates SET code: the row is locked until the COMMIT,
\* which comes at once when no items were sent.
WriteUpdate(r) ==
    LET t == target[r] IN
    /\ At(r, "write") /\ plan[r].mode = "update"
    /\ templates[t] # None /\ ~CodeTaken(plan[r].code, t)
    /\ \/ /\ plan[r].put = None
          /\ templates' = [templates EXCEPT ![t] = plan[r].code]
          /\ Answer(r)
       \/ /\ plan[r].put # None
          /\ pc' = [pc EXCEPT ![r] = "delete"]
          /\ UNCHANGED <<templates, target, plan, rows>>
    /\ UNCHANGED <<instruments, items, flaw>>

\* The UPDATE matches no row, which em.save does not notice.
WriteMisses(r) ==
    /\ At(r, "write") /\ plan[r].mode = "update" /\ templates[target[r]] = None
    /\ \/ plan[r].put = None /\ Answer(r)
       \/ /\ plan[r].put # None
          /\ plan' = [plan EXCEPT ![r].mode = "none", ![r].code = None]
          /\ pc' = [pc EXCEPT ![r] = "delete"]
          /\ UNCHANGED <<target, rows>>
    /\ UNCHANGED <<tables, flaw>>

InsertPossible(r) ==
    /\ templates[target[r]] = None /\ ~CodeTaken(plan[r].code, target[r])
    /\ Funds(plan[r].known) \subseteq instruments
    /\ plan[r].put # None => Funds(plan[r].put) \subseteq instruments

\* A template that was removed meanwhile is stored again with the items it had,
\* or with the new ones that replace these; none of its rows is seen by others
\* before the COMMIT.
WriteInsert(r) ==
    LET t == target[r] p == plan[r] IN
    /\ At(r, "write") /\ p.mode = "insert" /\ InsertPossible(r)
    /\ templates' = [templates EXCEPT ![t] = p.code]
    /\ items' = [items EXCEPT ![t] = IF p.put = None THEN p.known ELSE p.put]
    /\ flaw' = [flaw EXCEPT ![t] =
                   IF p.put = None /\ p.flaw = "cut" THEN "cut" ELSE "mixed"]
    /\ Answer(r)
    /\ UNCHANGED instruments

WriteFails(r) ==
    /\ At(r, "write")
    /\ \/ /\ plan[r].mode = "update"
          /\ templates[target[r]] # None /\ CodeTaken(plan[r].code, target[r])
       \/ plan[r].mode = "insert" /\ ~InsertPossible(r)
    /\ Abort(r)

\* DELETE FROM allocation_template_items: the rows the statement can see ...
DeleteBegins(r) ==
    /\ pc[r] = "delete"
    /\ rows' = [rows EXCEPT ![r] = Funds(items[target[r]])]
    /\ pc' = [pc EXCEPT ![r] = "wait"]
    /\ UNCHANGED <<tables, target, plan, flaw>>

\* Mutant of DeleteEnds: the DELETE commits on its own, before the INSERTs.
DeleteEndsCommitted(r) ==
    LET t == target[r] IN
    /\ At(r, "wait")
    /\ items' = [items EXCEPT ![t] = [i \in Instrument |-> IF i \in rows[r] THEN NoItem ELSE @[i]]]
    /\ rows' = ItemsGone(t, rows[r])
    /\ pc' = [pc EXCEPT ![r] = "insert"]
    /\ UNCHANGED <<instruments, templates, target, plan, flaw>>

\* ... of which it has locked those that are still there.
DeleteEnds(r) ==
    /\ At(r, "wait")
    /\ pc' = [pc EXCEPT ![r] = "insert"]
    /\ UNCHANGED <<tables, target, plan, rows, flaw>>

\* Both foreign keys hold and no fund has an item that was not deleted.
ItemsInsertable(r) ==
    /\ templates[target[r]] # None
    /\ Funds(plan[r].put) \subseteq instruments
    /\ Funds(plan[r].put) \cap (Funds(items[target[r]]) \ rows[r]) = {}

InsertItems(r) ==
    LET t == target[r] p == plan[r] IN
    /\ At(r, "insert") /\ ItemsInsertable(r)
    /\ templates' = [templates EXCEPT ![t] = IF p.mode = "update" THEN p.code ELSE @]
    /\ items' = [items EXCEPT ![t] = [i \in Instrument |->
           IF p.put[i] # NoItem THEN p.put[i]
           ELSE IF i \in rows[r] THEN NoItem ELSE items[t][i]]]
    /\ rows' = [ItemsGone(t, rows[r]) EXCEPT ![r] = {}]
    /\ flaw' = [flaw EXCEPT ![t] = IF p.alone THEN "none" ELSE "mixed"]
    /\ Finish(r)
    /\ UNCHANGED instruments

InsertItemsFails(r) == At(r, "insert") /\ ~ItemsInsertable(r) /\ Abort(r)

--------------------------------------------------------------------------------
(* Templates and instruments are removed.                                       *)

\* DELETE templates/:id: findOneBy, then remove by id.
RemoveFind(r, t) ==
    /\ pc[r] = "idle" /\ templates[t] # None
    /\ Enter(r, t, "remove",
             [code |-> None, known |-> NoItems, put |-> None, mode |-> "none",
              flaw |-> "none", alone |-> FALSE])
    /\ UNCHANGED <<tables, rows, flaw>>

\* The row of the template is locked first; one that is gone is no error.
RemoveTemplate(r) ==
    /\ At(r, "remove")
    /\ \/ templates[target[r]] = None /\ Answer(r)
       \/ /\ templates[target[r]] # None
          /\ pc' = [pc EXCEPT ![r] = "cascade"]
          /\ UNCHANGED <<target, plan, rows>>
    /\ UNCHANGED <<tables, flaw>>

\* ON DELETE CASCADE then deletes its items.
RemoveItems(r) ==
    LET t == target[r] IN
    /\ At(r, "cascade")
    /\ templates' = [templates EXCEPT ![t] = None]
    /\ items' = [items EXCEPT ![t] = NoItems]
    /\ rows' = ItemsGone(t, Instrument)
    /\ flaw' = [flaw EXCEPT ![t] = "none"]
    /\ Finish(r)
    /\ UNCHANGED instruments

\* DELETE instruments/:id, ON DELETE CASCADE in every template: what is left of
\* their weights no longer adds up, and nothing refuses or repairs that.
DeleteInstrument(i) ==
    /\ i \in instruments
    /\ \A r \in Request : i \notin HeldItems(r, target[r])
    /\ instruments' = instruments \ {i}
    /\ items' = [t \in Template |-> [items[t] EXCEPT ![i] = NoItem]]
    /\ rows' = [r \in Request |-> rows[r] \ {i}]
    /\ flaw' = [t \in Template |-> IF items[t][i] # NoItem THEN "cut" ELSE flaw[t]]
    /\ UNCHANGED <<templates, pc, target, plan>>

\* POST instruments: a fresh id, which no request has heard of.
CreateInstrument(i) ==
    /\ i \notin instruments
    /\ \A r \in Request : plan[r] # None =>
         /\ plan[r].known[i] = NoItem
         /\ plan[r].put # None => plan[r].put[i] = NoItem
    /\ instruments' = instruments \cup {i}
    /\ UNCHANGED <<templates, items, requests, flaw>>

\* Each request of S waits for one of them and blocks another: PostgreSQL aborts r.
Deadlock(r) ==
    /\ \E S \in SUBSET Request :
         /\ r \in S
         /\ \A q \in S : Blockers(q) \cap S # {} /\ \E w \in S : q \in Blockers(w)
    /\ Abort(r)

\* The backend process dies and is restarted; open transactions are rolled back.
Crash ==
    /\ \E r \in Request : pc[r] # "idle"
    /\ pc' = [r \in Request |-> "idle"]
    /\ target' = [r \in Request |-> None]
    /\ plan' = [r \in Request |-> None]
    /\ rows' = [r \in Request |-> {}]
    /\ UNCHANGED <<tables, flaw>>

--------------------------------------------------------------------------------
Continue(r) ==
    \/ Reload(r) \/ ReloadFails(r)
    \/ WriteNothing(r) \/ WriteUpdate(r) \/ WriteMisses(r) \/ WriteInsert(r) \/ WriteFails(r)
    \/ DeleteBegins(r) \/ DeleteEnds(r) \/ InsertItems(r) \/ InsertItemsFails(r)
    \/ RemoveTemplate(r) \/ RemoveItems(r)
    \/ Deadlock(r)

Next ==
    \/ \E t \in Template, code \in Code, put \in ItemSet : Create(t, code, put)
    \/ \E r \in Request, t \in Template :
         \/ \E code \in Code \cup {None}, put \in ItemSet \cup {None} :
              UpdateFind(r, t, code, put)
         \/ RemoveFind(r, t)
    \/ \E r \in Request : Continue(r)
    \/ \E i \in Instrument : DeleteInstrument(i) \/ CreateInstrument(i)
    \/ Crash

Spec == Init /\ [][Next]_vars

\* Node runs the handlers to their end and PostgreSQL queues the transactions
\* that wait for a row lock; nothing makes a client send a request.
FairSpec == Spec /\ \A r \in Request : SF_vars(Continue(r))

--------------------------------------------------------------------------------
(* Properties.                                                                  *)

\* Type invariant: the tables and the plans of the requests have their types,
\* no item outlives its template or its instrument, and a request has a plan
\* and a target exactly while it is in flight.
TypeOK ==
    /\ instruments \subseteq Instrument
    /\ templates \in [Template -> Code \cup {None}]
    /\ items \in [Template -> ItemSet]
    /\ \A t \in Template : /\ Funds(items[t]) \subseteq instruments
                           /\ templates[t] = None => items[t] = NoItems
    /\ pc \in [Request -> Steps]
    /\ target \in [Request -> Template \cup {None}]
    /\ plan \in [Request -> Plan \cup {None}]
    /\ rows \in [Request -> SUBSET Instrument]
    /\ \A r \in Request : pc[r] = "idle" <=> target[r] = None
    /\ \A r \in Request : target[r] = None <=> plan[r] = None
    /\ flaw \in [Template -> Flaw]

\* The weights of a template add up to the whole, as validateItems demands of
\* each request, whatever requests fail, crash, deadlock or store a removed
\* template again: only the deletion of one of its instruments, or updates of
\* the template that overlap, can change that, and the next update that is alone
\* and sends items repairs it.
WeightsWhole ==
    \A t \in Template :
        templates[t] # None /\ flaw[t] = "none" => ValidItems(items[t])

\* Even updates that overlap never leave a template with a part of some
\* allocation: less than the whole is there only when an instrument was deleted.
NeverTorn ==
    \A t \in Template :
        templates[t] # None /\ flaw[t] # "cut" => Sum(items[t]) >= Whole - Tolerance

\* Every request is answered, with an error if need be: an update that changes
\* the code, one that replaces items and a removal lock the rows of a template
\* in different orders, and the database then ends one of them.
RequestsFinish == \A r \in Request : pc[r] # "idle" ~> pc[r] = "idle"

================================================================================
