----------------------------- MODULE PortfolioList -----------------------------
(***************************************************************************)
(* The start page (PortfolioList.tsx): the rows of the portfolios, each    *)
(* with a valuation of its own, the chart of their total for a range of    *)
(* time and a choice of portfolios, the forms that change them, and the    *)
(* dialog that imports them (PortfolioImportExport.tsx).                   *)
(*                                                                         *)
(* A portfolio is its id and a name; a valuation is only there or not; a   *)
(* series is the range and the portfolios it was computed for.             *)
(***************************************************************************)
EXTENDS Browser

CONSTANTS
    Portfolio,  \* ids
    Name,
    Period      \* ranges of time, "1M" among them

VARIABLES
    habits,  \* of the user and the network; never changes
    server,  \* the table portfolios: a name, None or Deleted for each id
    page,    \* the state of the components
    calls

NoRows    == [p \in {} |-> None]
Deleted   == "deleted"
Databases == [Portfolio -> Name \cup {None}]

\* The portfolios of the database.  An id is used once.
Stored == {p \in Portfolio : server[p] \notin {None, Deleted}}
Unused == {p \in Portfolio : server[p] = None}
Names  == [p \in Stored |-> server[p]]

\* The components before their first effect.  An empty series is None.
Fresh == [
    rows |-> NoRows, loading |-> TRUE, error |-> FALSE, modal |-> None,
    range |-> "1M", excluded |-> {},
    series |-> None, seriesLoading |-> TRUE, seriesError |-> FALSE,
    dialog |-> "closed", left |-> FALSE]

FirstCalls == Send(<<>>, "list", None)

Openings == {[server |-> db, page |-> Fresh, calls |-> FirstCalls] : db \in Databases}

Init == \E o \in Openings : server = o.server /\ page = o.page /\ calls = o.calls

Usable == ~page.loading /\ ~page.error /\ ~page.left

--------------------------------------------------------------------------------
(* The series of the total.                                                     *)

Included(pg)    == DOMAIN pg.rows \ pg.excluded
AsksNothing(pg) == pg.excluded # {} /\ Included(pg) = {}
Cleared(pg)     == [pg EXCEPT !.series = None, !.seriesLoading = FALSE, !.seriesError = FALSE]

\* loadAggregateSeries.
SeriesPage(pg) ==
    IF AsksNothing(pg) THEN Cleared(pg)
    ELSE [pg EXCEPT !.seriesLoading = TRUE, !.seriesError = FALSE]

SeriesCalls(pg, cs) ==
    IF AsksNothing(pg) THEN cs
    ELSE Send(cs, "series", [range |-> pg.range,
                             ids |-> IF pg.excluded = {} THEN None ELSE Included(pg)])

\* Mutant of SeriesDue: the effect does not depend on the excluded portfolios.
SeriesDueByRange(pg, chosen) ==
    /\ pg.rows # NoRows
    /\ \/ Cardinality(DOMAIN pg.rows) # Cardinality(DOMAIN page.rows)
       \/ pg.range # page.range

\* The effect on the number of rows, the range and the set of excluded ids; "chosen" says
\* that the set is a new one.
SeriesDue(pg, chosen) ==
    /\ pg.rows # NoRows
    /\ \/ Cardinality(DOMAIN pg.rows) # Cardinality(DOMAIN page.rows)
       \/ pg.range # page.range
       \/ chosen

Render(pg, cs, chosen) ==
    IF SeriesDue(pg, chosen)
    THEN page' = SeriesPage(pg) /\ calls' = SeriesCalls(pg, cs)
    ELSE page' = pg /\ calls' = cs

--------------------------------------------------------------------------------
(* The backend.                                                                 *)

Without(f, p) == [q \in DOMAIN f \ {p} |-> f[q]]

Reads(i) ==
    LET c == calls[i] IN
    /\ c.kind \in {"list", "valuation", "series", "recalculate", "export"}
    /\ calls' = CASE c.kind = "list" -> Served(calls, i, Names)
                  [] c.kind = "valuation" /\ c.about \notin Stored -> Lost(calls, i)
                  [] c.kind = "series" -> Served(calls, i,
                        [range |-> c.about.range,
                         of |-> IF c.about.ids = None THEN Stored
                                ELSE c.about.ids \cap Stored])
                  [] OTHER -> Served(calls, i, None)
    /\ UNCHANGED server

Writes(i) ==
    LET c == calls[i] IN
    \/ /\ c.kind \in {"delete", "edit"} /\ c.about.id \notin Stored
       /\ calls' = Lost(calls, i)
       /\ UNCHANGED server
    \/ /\ c.kind = "delete" /\ c.about.id \in Stored
       /\ server' = [server EXCEPT ![c.about.id] = Deleted]
       /\ calls' = Served(calls, i, None)
    \/ /\ c.kind = "edit" /\ c.about.id \in Stored
       /\ server' = [server EXCEPT ![c.about.id] = c.about.name]
       /\ calls' = Served(calls, i, c.about.name)
    \/ /\ c.kind = "create"
       /\ \E p \in Unused : server' = [server EXCEPT ![p] = c.about.name]
       /\ calls' = Served(calls, i, None)
    \/ /\ c.kind = "import"
       /\ \E new \in [Unused -> Name \cup {None}] :
             /\ server' = [p \in Portfolio |-> IF p \in Unused THEN new[p] ELSE server[p]]
             /\ calls' = Served(calls, i, {p \in Unused : new[p] # None})

Serve(i) ==
    /\ Waiting(habits, calls, i)
    /\ Reads(i) \/ Writes(i)
    /\ UNCHANGED <<habits, page>>

Lose(i) ==
    /\ "fail" \in habits
    /\ calls[i].status # "failed"
    /\ calls' = Lost(calls, i)
    /\ UNCHANGED <<habits, server, page>>

--------------------------------------------------------------------------------
(* Answers.                                                                     *)

Arrives(i, kinds) ==
    /\ Arriving(habits, calls, i)
    /\ calls[i].kind \in kinds
    /\ UNCHANGED <<habits, server>>

Rest(i) == RemoveAt(calls, i)

\* Mutant of ValuationsDue: a row that was there before keeps what it has.
ValuationsOfNewRows(rows) == DOMAIN rows \ DOMAIN page.rows

ValuationsDue(rows) == DOMAIN rows

\* loadPortfolios: all rows anew, and a valuation for each.
ListArrives(i) ==
    /\ Arrives(i, {"list"})
    /\ LET listed == [page EXCEPT
              !.rows = [p \in DOMAIN calls[i].answer |->
                           [name |-> calls[i].answer[p], valuation |-> "loading"]],
              !.loading = FALSE]
       IN IF Succeeds(calls[i])
          THEN Render(IF listed.rows = NoRows THEN Cleared(listed) ELSE listed,
                      SendAll(Rest(i), "valuation", ValuationsDue(listed.rows)), FALSE)
          ELSE /\ page' = [page EXCEPT !.error = TRUE, !.loading = FALSE]
               /\ calls' = Rest(i)

ValuationArrives(i) ==
    /\ Arrives(i, {"valuation"})
    /\ page' = IF calls[i].about \in DOMAIN page.rows
               THEN [page EXCEPT !.rows[calls[i].about].valuation =
                        IF Succeeds(calls[i]) THEN "shown" ELSE "error"]
               ELSE page
    /\ calls' = Rest(i)

\* Nothing tells a late series from the latest.
SeriesArrives(i) ==
    /\ Arrives(i, {"series"})
    /\ page' = IF Succeeds(calls[i])
               THEN [page EXCEPT !.series = calls[i].answer, !.seriesLoading = FALSE]
               ELSE [page EXCEPT !.seriesError = TRUE, !.seriesLoading = FALSE]
    /\ calls' = Rest(i)

\* The calls of a form that is closed no longer have a form.
Orphaned(cs) ==
    [i \in DOMAIN cs |-> IF cs[i].kind \in {"create", "edit"}
                         THEN [cs[i] EXCEPT !.about.form = FALSE] ELSE cs[i]]

\* handleDelete: what remains of the rows at the moment of confirmation.
DeleteArrives(i) ==
    /\ Arrives(i, {"delete"})
    /\ LET deleted == [page EXCEPT
              !.rows = Without(calls[i].about.rows, calls[i].about.id),
              !.excluded = page.excluded \ {calls[i].about.id},
              !.modal = None]
       IN IF Succeeds(calls[i])
          THEN Render(IF deleted.rows = NoRows THEN Cleared(deleted) ELSE deleted,
                      Orphaned(Rest(i)), TRUE)
          ELSE /\ page' = [page EXCEPT !.error = TRUE]
               /\ calls' = Rest(i)

Renamed(p, name) ==
    [q \in DOMAIN page.rows |-> IF q = p THEN [page.rows[q] EXCEPT !.name = name] ELSE page.rows[q]]

\* handleSaved: a new portfolio is opened, a changed one is patched.
SaveArrives(i) ==
    /\ Arrives(i, {"create", "edit"})
    /\ IF Succeeds(calls[i])
       THEN /\ page' = IF calls[i].kind = "create"
                       THEN [page EXCEPT !.left = TRUE, !.modal = None]
                       ELSE [page EXCEPT !.rows = Renamed(calls[i].about.id, calls[i].answer),
                                         !.modal = None]
            /\ calls' = Orphaned(Rest(i))
       ELSE /\ page' = IF calls[i].about.form THEN [page EXCEPT !.modal.working = FALSE] ELSE page
            /\ calls' = Rest(i)

\* An import is followed by recalculateAll, if it brought anything, and the list.
ImportArrives(i) ==
    /\ Arrives(i, {"import"})
    /\ IF Succeeds(calls[i])
       THEN IF calls[i].answer # {}
            THEN calls' = Send(Rest(i), "recalculate", None) /\ UNCHANGED page
            ELSE calls' = Send(Rest(i), "list", None) /\ page' = [page EXCEPT !.dialog = "open"]
       ELSE /\ calls' = Rest(i)
            /\ page' = [page EXCEPT !.dialog = "open"]

\* Errors of recalculateAll are swallowed.
RecalculateArrives(i) ==
    /\ Arrives(i, {"recalculate"})
    /\ page' = [page EXCEPT !.dialog = "open"]
    /\ calls' = Send(Rest(i), "list", None)

ExportArrives(i) ==
    /\ Arrives(i, {"export"})
    /\ page' = [page EXCEPT !.dialog = "open"]
    /\ calls' = Rest(i)

--------------------------------------------------------------------------------
(* The user.  An open form or dialog does not keep the keyboard from the page.  *)

UserChooses == Usable /\ Chooses(habits, calls) /\ UNCHANGED <<habits, server>>
UserChanges == Usable /\ Changes(habits, calls) /\ UNCHANGED <<habits, server>>

SelectRange(r) ==
    /\ UserChooses
    /\ page.rows # NoRows
    /\ r # page.range
    /\ Render([page EXCEPT !.range = r], calls, FALSE)

ToggleExcluded(p) ==
    /\ UserChooses
    /\ p \in DOMAIN page.rows
    /\ Render([page EXCEPT !.excluded = IF p \in page.excluded THEN page.excluded \ {p}
                                        ELSE page.excluded \cup {p}], calls, TRUE)

OpenModal(type, p) ==
    /\ UserChooses
    /\ page.modal = None
    /\ IF type = "create" THEN p = None ELSE p \in DOMAIN page.rows
    /\ page' = [page EXCEPT !.modal = [type |-> type, id |-> p, working |-> FALSE]]
    /\ UNCHANGED calls

\* A form can be closed while it saves, the dialog of a deletion cannot.
CloseModal ==
    /\ UserChooses
    /\ page.modal # None
    /\ page.modal.working => page.modal.type # "delete" /\ "close" \in habits
    /\ page' = [page EXCEPT !.modal = None]
    /\ calls' = Orphaned(calls)

Save(name) ==
    /\ UserChanges
    /\ page.modal # None
    /\ page.modal.type \in {"create", "edit"} /\ ~page.modal.working
    /\ page' = [page EXCEPT !.modal.working = TRUE]
    /\ calls' = Send(calls, page.modal.type,
                     [id |-> page.modal.id, name |-> name, form |-> TRUE])

ConfirmDelete ==
    /\ UserChanges
    /\ page.modal # None
    /\ page.modal.type = "delete" /\ ~page.modal.working
    /\ page' = [page EXCEPT !.modal.working = TRUE]
    /\ calls' = Send(calls, "delete", [id |-> page.modal.id, rows |-> page.rows])

\* The dialog of imports and exports, which is not closed while it works.
OpenOrCloseDialog ==
    /\ UserChooses
    /\ page.dialog # "working"
    /\ page' = [page EXCEPT !.dialog = IF page.dialog = "open" THEN "closed" ELSE "open"]
    /\ UNCHANGED calls

Transfer(kind) ==
    /\ UserChanges
    /\ page.dialog = "open"
    /\ page' = [page EXCEPT !.dialog = "working"]
    /\ calls' = Send(calls, kind, None)

--------------------------------------------------------------------------------
Network(i) ==
    \/ Serve(i) \/ Lose(i)
    \/ ListArrives(i) \/ ValuationArrives(i) \/ SeriesArrives(i)
    \/ DeleteArrives(i) \/ SaveArrives(i)
    \/ ImportArrives(i) \/ RecalculateArrives(i) \/ ExportArrives(i)

User ==
    \/ \E r \in Period : SelectRange(r)
    \/ \E p \in Portfolio : ToggleExcluded(p)
    \/ \E type \in {"create", "edit", "delete"}, p \in Portfolio \cup {None} : OpenModal(type, p)
    \/ CloseModal
    \/ \E name \in Name : Save(name)
    \/ ConfirmDelete
    \/ OpenOrCloseDialog
    \/ \E kind \in {"import", "export"} : Transfer(kind)

Next == (\E i \in DOMAIN calls : Network(i)) \/ User

--------------------------------------------------------------------------------
(* Properties.                                                                  *)

AtRest == Usable /\ calls = <<>>

\* When every answer is in, the chart is the total of the portfolios that are
\* included, for the range that is selected, or says that it failed: also when
\* the user does not wait.  Left out are users who change portfolios meanwhile,
\* series that overtake each other, a hasty user who has excluded everything (no
\* call is made whose answer would replace the one under way), and a list that
\* is not the one of the database, as after an import whose answer was lost.
ChartFollowsChoice ==
    /\ AtRest /\ page.rows # NoRows
    /\ DOMAIN page.rows = Stored
    /\ habits \cap {"multitask", "reorder"} = {}
    /\ "hasty" \in habits => Included(page) # {}
    =>  /\ ~page.seriesLoading
        /\ \/ page.seriesError
           \/ page.series = IF AsksNothing(page) THEN None
                            ELSE [range |-> page.range, of |-> Included(page)]

\* If the user waits for answers before a change, no row is left loading, and
\* without failures the rows are the portfolios, through every change and import.
RowsSettle ==
    AtRest /\ "multitask" \notin habits =>
        /\ \A p \in DOMAIN page.rows : page.rows[p].valuation # "loading"
        /\ "fail" \notin habits => [p \in DOMAIN page.rows |-> page.rows[p].name] = Names
================================================================================
