----------------------------- MODULE TemplateChart -----------------------------
(***************************************************************************)
(* The chart of a template on the page of strategies                       *)
(* (TemplatePerformanceChart.tsx), and the form that pauses it while the   *)
(* template is edited.                                                     *)
(*                                                                         *)
(* The template is the number of times it was changed; a series is what it *)
(* was asked for, and the template it was computed from.  Days are         *)
(* numbers, and 0 is an empty date field.                                  *)
(***************************************************************************)
EXTENDS Browser

CONSTANTS
    FixedRange,  \* "3M" among them
    Day,         \* days the user may enter
    Available,   \* [from, to]: the days on which all funds have a price
    MaxVersion   \* bound on the changes of the template

VARIABLES habits, server, page, calls

Fresh == [
    range |-> "3M", from |-> 0, to |-> 0, available |-> FALSE, showCustom |-> FALSE,
    data |-> None, loading |-> TRUE, error |-> FALSE, paused |-> FALSE, saving |-> FALSE]

Choice(pg) ==
    [range |-> pg.range, from |-> IF pg.range = "CUSTOM" THEN pg.from ELSE 0,
                         to   |-> IF pg.range = "CUSTOM" THEN pg.to ELSE 0]

ValidDates(pg)  == pg.from # 0 /\ pg.to # 0 /\ pg.from <= pg.to
ValidChoice(pg) == pg.range = "CUSTOM" => ValidDates(pg)

FirstCalls == Send(Send(<<>>, "available", None), "series", Choice(Fresh))

Openings == {[server |-> 0, page |-> Fresh, calls |-> FirstCalls]}

Init == \E o \in Openings : server = o.server /\ page = o.page /\ calls = o.calls

--------------------------------------------------------------------------------
(* Effects.                                                                     *)

\* load: not while paused, and not for dates that make no range.
Loads(pg)     == ~pg.paused /\ ValidChoice(pg)
LoadPage(pg)  == IF Loads(pg) THEN [pg EXCEPT !.loading = TRUE, !.error = FALSE] ELSE pg
LoadCalls(pg, cs) == IF Loads(pg) THEN Send(cs, "series", Choice(pg)) ELSE cs

\* Mutant of LoadDue: the end of a pause does not load the series again.
LoadDueByChoice(pg) ==
    <<pg.range, pg.from, pg.to>> # <<page.range, page.from, page.to>>

\* What load depends on has changed.
LoadDue(pg) ==
    <<pg.range, pg.from, pg.to, pg.paused>> # <<page.range, page.from, page.to, page.paused>>

\* The available range is asked for on the first render, and at the end of every pause.
RangeCalls(pg, cs) ==
    IF page.paused /\ ~pg.paused THEN Send(cs, "available", None) ELSE cs

Render(pg, cs) ==
    IF LoadDue(pg)
    THEN page' = LoadPage(pg) /\ calls' = LoadCalls(pg, RangeCalls(pg, cs))
    ELSE page' = pg /\ calls' = RangeCalls(pg, cs)

--------------------------------------------------------------------------------
(* The backend, and answers.                                                    *)

Serve(i) ==
    /\ Waiting(habits, calls, i)
    /\ server' = IF calls[i].kind = "save" THEN server + 1 ELSE server
    /\ calls' = Served(calls, i, server')
    /\ UNCHANGED <<habits, page>>

Lose(i) ==
    /\ "fail" \in habits
    /\ calls[i].status # "failed"
    /\ calls' = Lost(calls, i)
    /\ UNCHANGED <<habits, server, page>>

Arrives(i, kind) ==
    /\ Arriving(habits, calls, i)
    /\ calls[i].kind = kind
    /\ UNCHANGED <<habits, server>>

Rest(i) == RemoveAt(calls, i)

\* The custom dates are set to the available range, whatever the user has entered.
AvailableArrives(i) ==
    /\ Arrives(i, "available")
    /\ IF Succeeds(calls[i])
       THEN Render([page EXCEPT !.available = TRUE, !.from = Available.from, !.to = Available.to],
                   Rest(i))
       ELSE calls' = Rest(i) /\ UNCHANGED page

SeriesArrives(i) ==
    /\ Arrives(i, "series")
    /\ page' = IF Succeeds(calls[i])
               THEN [page EXCEPT !.loading = FALSE,
                        !.data = [choice |-> calls[i].about, version |-> calls[i].answer]]
               ELSE [page EXCEPT !.loading = FALSE, !.error = TRUE]
    /\ calls' = Rest(i)

\* The call of a form that is closed no longer has a form.
Orphaned(cs) ==
    [i \in DOMAIN cs |-> IF cs[i].kind = "save" THEN [cs[i] EXCEPT !.about = "closed"] ELSE cs[i]]

\* The saved form closes, and so does one that was opened after it was closed.
SaveArrives(i) ==
    /\ Arrives(i, "save")
    /\ IF Succeeds(calls[i])
       THEN Render([page EXCEPT !.paused = FALSE, !.saving = FALSE], Orphaned(Rest(i)))
       ELSE /\ page' = [page EXCEPT !.saving = page.saving /\ calls[i].about # "open"]
            /\ calls' = Rest(i)

--------------------------------------------------------------------------------
(* The user.                                                                    *)

UserChooses == Chooses(habits, calls) /\ UNCHANGED <<habits, server>>

\* The buttons of the ranges are disabled while a series is loading.
SelectFixed(r) ==
    /\ UserChooses
    /\ ~page.loading
    /\ Render([page EXCEPT !.showCustom = FALSE, !.range = r], calls)

OpenCustom ==
    /\ UserChooses
    /\ ~page.loading /\ page.available
    /\ Render([page EXCEPT !.showCustom = TRUE, !.range = "CUSTOM"], calls)

\* The fields of the custom range are not: each change loads a valid range.
EnterDates(from, to) ==
    /\ UserChooses
    /\ page.showCustom /\ page.available
    /\ from = page.from \/ to = page.to
    /\ Render([page EXCEPT !.from = from, !.to = to], calls)

\* applyCustom loads once more when the custom range is already selected.
ApplyCustom ==
    /\ UserChooses
    /\ page.showCustom /\ page.available /\ ValidDates(page)
    /\ LET applied == [page EXCEPT !.showCustom = FALSE, !.range = "CUSTOM"] IN
       IF page.range = "CUSTOM"
       THEN page' = LoadPage(applied) /\ calls' = LoadCalls(applied, calls)
       ELSE Render(applied, calls)

CancelCustom ==
    /\ UserChooses
    /\ page.showCustom /\ page.available
    /\ Render([page EXCEPT !.showCustom = FALSE,
                           !.range = IF page.range = "CUSTOM" THEN "3M" ELSE page.range], calls)

OpenEditor ==
    /\ UserChooses
    /\ ~page.paused
    /\ Render([page EXCEPT !.paused = TRUE], calls)

CloseEditor ==
    /\ UserChooses
    /\ page.paused
    /\ page.saving => "close" \in habits
    /\ Render([page EXCEPT !.paused = FALSE, !.saving = FALSE], Orphaned(calls))

SaveEdit ==
    /\ Changes(habits, calls)
    /\ page.paused /\ ~page.saving
    /\ server < MaxVersion
    /\ page' = [page EXCEPT !.saving = TRUE]
    /\ calls' = Send(calls, "save", "open")
    /\ UNCHANGED <<habits, server>>

--------------------------------------------------------------------------------
Network(i) == Serve(i) \/ Lose(i) \/ AvailableArrives(i) \/ SeriesArrives(i) \/ SaveArrives(i)

User ==
    \/ \E r \in FixedRange : SelectFixed(r)
    \/ OpenCustom
    \/ \E from, to \in Day \cup {0} : EnterDates(from, to)
    \/ ApplyCustom \/ CancelCustom
    \/ OpenEditor \/ CloseEditor \/ SaveEdit

Next == (\E i \in DOMAIN calls : Network(i)) \/ User

--------------------------------------------------------------------------------
(* Properties.                                                                  *)

\* When every answer is in and the template is not being edited, the chart shows
\* the range that is selected, computed from the template as it was last saved,
\* or says that it failed: though every date that is typed starts a load, the
\* end of a pause resets the custom dates, and a save can overlap them all.
\* Left out are series that overtake each other, and a form that is closed while
\* it is saved.
ChartShowsChoice ==
    /\ calls = <<>> /\ ~page.paused /\ ValidChoice(page)
    /\ habits \cap {"close", "reorder"} = {}
    =>  /\ ~page.loading
        /\ page.error \/ page.data = [choice |-> Choice(page), version |-> server]
================================================================================
