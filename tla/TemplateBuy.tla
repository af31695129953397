------------------------------ MODULE TemplateBuy ------------------------------
(***************************************************************************)
(* The form that buys by a template (TemplateBuyModal.tsx): a preview of   *)
(* the prices of all funds on the trade date is loaded for every choice of *)
(* template and date, and nothing is bought that has funds without a       *)
(* price.  The form takes over the date of the page below it when that     *)
(* changes.                                                                *)
(*                                                                         *)
(* Of a template and a day the backend knows whether all funds have a      *)
(* price.  0 is an empty date field, today is a day.                       *)
(***************************************************************************)
EXTENDS Browser

CONSTANTS
    Template,
    Day,
    Today       \* the date field takes no day after it

VARIABLES habits, server, page, calls

Fresh(day) == [
    templates |-> {}, template |-> None, date |-> IF day = 0 THEN Today ELSE day,
    pageDate |-> day, preview |-> None, navLoading |-> FALSE, navError |-> FALSE,
    saving |-> FALSE, closed |-> FALSE]

Openings ==
    {[server |-> [templates |-> ts, priced |-> ps], page |-> Fresh(d),
      calls |-> Send(<<>>, "templates", None)] :
        ts \in SUBSET Template, ps \in SUBSET (Template \X Day), d \in Day \cup {0}}

Init == \E o \in Openings : server = o.server /\ page = o.page /\ calls = o.calls

HasMissingNav(pg) == pg.preview # None /\ ~pg.preview.complete

--------------------------------------------------------------------------------
(* The effect on the template and the date.                                     *)

\* Mutant of Inactive: an effect goes on after the next one has started.
StillActive(cs) == cs

Inactive(cs) ==
    [i \in DOMAIN cs |-> IF cs[i].kind = "preview"
                         THEN [cs[i] EXCEPT !.about.active = FALSE] ELSE cs[i]]

Chosen(pg) == pg.template # None /\ pg.date # 0

Render(pg, cs) ==
    IF <<pg.template, pg.date>> = <<page.template, page.date>>
    THEN page' = pg /\ calls' = cs
    ELSE IF Chosen(pg)
    THEN /\ page' = [pg EXCEPT !.navLoading = TRUE, !.navError = FALSE]
         /\ calls' = Send(Inactive(cs), "preview",
                          [template |-> pg.template, date |-> pg.date, active |-> TRUE])
    ELSE /\ page' = [pg EXCEPT !.preview = None, !.navLoading = FALSE, !.navError = FALSE]
         /\ calls' = Inactive(cs)

--------------------------------------------------------------------------------
(* The backend, and answers.                                                    *)

Serve(i) ==
    /\ Waiting(habits, calls, i)
    /\ LET c == calls[i] IN
       LET priced == <<c.about.template, c.about.date>> \in server.priced IN
       calls' = IF c.kind = "templates" THEN Served(calls, i, server.templates)
                ELSE IF c.about.template \notin server.templates THEN Lost(calls, i)
                ELSE IF c.kind = "buy" /\ ~priced THEN Lost(calls, i)
                ELSE Served(calls, i, priced)
    /\ UNCHANGED <<habits, server, page>>

Lose(i) ==
    /\ "fail" \in habits
    /\ calls[i].status # "failed"
    /\ calls' = Lost(calls, i)
    /\ UNCHANGED <<habits, server, page>>

\* Elsewhere a template is deleted.
DeleteTemplate(t) ==
    /\ t \in server.templates
    /\ server' = [server EXCEPT !.templates = server.templates \ {t}]
    /\ UNCHANGED <<habits, page, calls>>

Arrives(i, kind) ==
    /\ Arriving(habits, calls, i)
    /\ calls[i].kind = kind
    /\ UNCHANGED <<habits, server>>

Rest(i) == RemoveAt(calls, i)

\* The first template of the list is chosen.
TemplatesArrive(i) ==
    /\ Arrives(i, "templates")
    /\ IF Succeeds(calls[i]) /\ calls[i].answer # {}
       THEN \E first \in calls[i].answer :
               Render([page EXCEPT !.templates = calls[i].answer, !.template = first], Rest(i))
       ELSE page' = page /\ calls' = Rest(i)

\* The preview before it stays on the form until this answer.
PreviewArrives(i) ==
    /\ Arrives(i, "preview")
    /\ LET c == calls[i] IN
       page' = IF ~c.about.active THEN page
               ELSE [page EXCEPT !.navLoading = FALSE, !.navError = ~Succeeds(c),
                        !.preview = IF ~Succeeds(c) THEN None
                                    ELSE [template |-> c.about.template, date |-> c.about.date,
                                          complete |-> c.answer]]
    /\ calls' = Rest(i)

BuyArrives(i) ==
    /\ Arrives(i, "buy")
    /\ page' = IF Succeeds(calls[i]) THEN [page EXCEPT !.closed = TRUE]
               ELSE [page EXCEPT !.saving = FALSE]
    /\ calls' = Rest(i)

--------------------------------------------------------------------------------
(* The user.                                                                    *)

UserChooses == ~page.closed /\ Chooses(habits, calls) /\ UNCHANGED <<habits, server>>

SelectTemplate(t) ==
    /\ UserChooses
    /\ t \in page.templates \cup {None}
    /\ Render([page EXCEPT !.template = t], calls)

EnterDate(d) ==
    /\ UserChooses
    /\ Render([page EXCEPT !.date = d], calls)

\* The date field of the page below is still in reach of the keyboard.
ChangePageDate(d) ==
    /\ UserChooses
    /\ d # page.pageDate
    /\ Render([page EXCEPT !.pageDate = d, !.date = IF d = 0 THEN Today ELSE d], calls)

HandleSubmit ==
    /\ ~page.closed /\ Changes(habits, calls)
    /\ ~page.saving /\ ~page.navLoading /\ ~HasMissingNav(page)
    /\ page.template # None
    /\ page.date # 0
    /\ page' = [page EXCEPT !.saving = TRUE]
    /\ calls' = Send(calls, "buy", [template |-> page.template, date |-> page.date])
    /\ UNCHANGED <<habits, server>>

--------------------------------------------------------------------------------
Network(i) ==
    Serve(i) \/ Lose(i) \/ TemplatesArrive(i) \/ PreviewArrives(i) \/ BuyArrives(i)

User ==
    \/ \E t \in Template \cup {None} : SelectTemplate(t)
    \/ \E d \in Day \cup {0} : EnterDate(d) \/ ChangePageDate(d)
    \/ HandleSubmit

Next ==
    \/ \E i \in DOMAIN calls : Network(i)
    \/ \E t \in Template : DeleteTemplate(t)
    \/ User

--------------------------------------------------------------------------------
(* Properties.                                                                  *)

\* What is bought was previewed: when the form is sent, the preview on it is of
\* the template and the date that are sent and has a price for every fund,
\* whatever was chosen before and in whatever order the previews came; or the
\* form says that this preview failed.
BuysArePreviewed ==
    LET Buys(cs) == {cs[i].about : i \in {j \in DOMAIN cs : cs[j].kind = "buy"}} IN
    \A b \in Buys(calls') \ Buys(calls) :
        \/ page.navError /\ page.preview = None
        \/ page.preview = [template |-> b.template, date |-> b.date, complete |-> TRUE]
================================================================================
