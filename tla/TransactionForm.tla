---------------------------- MODULE TransactionForm ----------------------------
(***************************************************************************)
(* The form of a transaction (TransactionFormModal.tsx): the price is      *)
(* filled in from the NAV of the fund on the trade date, unless the user   *)
(* types one.  The NAV is asked for by an effect, which runs again         *)
(* whenever the fund, the date or the price changes, its own answer        *)
(* included; a flag tells an effect that another one has run since.        *)
(*                                                                         *)
(* Units, fees, the settlement date and the notes have no part in this and *)
(* are left out.  0 is an empty date or price field.                       *)
(***************************************************************************)
EXTENDS Browser

CONSTANTS
    Instrument,
    Day,
    Typed,  \* prices the user may type
    Nav     \* [Instrument -> [Day -> a price on or before the day, or None]]

VARIABLES habits, server, page, calls

\* FEE_CONSOLIDATION has no price; like a sale it is of a fund that is held.
Type == {"BUY", "SELL", "FEE_CONSOLIDATION"}
RequiresPosition(type) == type # "BUY"

\* The form of a new transaction, or of one of fund own.
Fresh(own, day, price) == [
    instruments |-> {}, held |-> {}, own |-> own,
    instrument |-> own, type |-> "BUY", date |-> day, price |-> price, auto |-> FALSE,
    hint |-> FALSE, missing |-> FALSE, navLoading |-> FALSE,
    saving |-> FALSE, closed |-> FALSE]

--------------------------------------------------------------------------------
(* The effect.                                                                  *)

\* Mutant of Cancelled: an effect goes on after the next one has started.
NotCancelled(cs) == cs

\* The effect before this one no longer waits for its answer.
Cancelled(cs) ==
    [i \in DOMAIN cs |-> IF cs[i].kind = "nav" THEN [cs[i] EXCEPT !.about.live = FALSE] ELSE cs[i]]

Chosen(pg) == pg.instrument # None /\ pg.date # 0

\* Without a fund or a date, "Loading" stays on if it was on.
EffectPage(pg) ==
    [pg EXCEPT !.hint = FALSE, !.missing = FALSE, !.navLoading = Chosen(pg) \/ pg.navLoading]

\* The answer fills the field if it holds no typed price now.
EffectCalls(pg, cs) ==
    IF ~Chosen(pg) THEN Cancelled(cs)
    ELSE Send(Cancelled(cs), "nav", [instrument |-> pg.instrument, date |-> pg.date,
                                     fills |-> pg.auto \/ pg.price = 0, live |-> TRUE])

Watched(pg) == <<pg.instrument, pg.date, pg.auto, pg.price>>

Render(pg, cs) ==
    IF Watched(pg) # Watched(page)
    THEN page' = EffectPage(pg) /\ calls' = EffectCalls(pg, cs)
    ELSE page' = pg /\ calls' = cs

FirstCalls == Send(Send(<<>>, "instruments", None), "positions", None)

\* The backend has positions in some of the funds.
Openings ==
    {[server |-> hs, page |-> EffectPage(pg), calls |-> EffectCalls(pg, FirstCalls)] :
        hs \in SUBSET Instrument,
        pg \in {Fresh(own, d, IF own = None THEN 0 ELSE p) :
                    own \in Instrument \cup {None}, d \in Day, p \in Typed}}

Init == \E o \in Openings : server = o.server /\ page = o.page /\ calls = o.calls

--------------------------------------------------------------------------------
(* The backend, and answers.                                                    *)

Serve(i) ==
    /\ Waiting(habits, calls, i)
    /\ calls' = Served(calls, i,
          CASE calls[i].kind = "nav" -> Nav[calls[i].about.instrument][calls[i].about.date]
            [] calls[i].kind = "instruments" -> Instrument
            [] calls[i].kind = "positions" -> server
            [] OTHER -> None)
    /\ UNCHANGED <<habits, server, page>>

Lose(i) ==
    /\ "fail" \in habits
    /\ calls[i].status # "failed"
    /\ calls' = Lost(calls, i)
    /\ UNCHANGED <<habits, server, page>>

Arrives(i, kinds) ==
    /\ Arriving(habits, calls, i)
    /\ calls[i].kind \in kinds
    /\ UNCHANGED <<habits, server>>

Rest(i) == RemoveAt(calls, i)

ListArrives(i) ==
    /\ Arrives(i, {"instruments", "positions"})
    /\ page' = IF ~Succeeds(calls[i]) THEN page
               ELSE IF calls[i].kind = "positions" THEN [page EXCEPT !.held = calls[i].answer]
               ELSE [page EXCEPT !.instruments = calls[i].answer]
    /\ calls' = Rest(i)

\* A price that is filled in has the effect run once more, and ask again.
NavArrives(i) ==
    /\ Arrives(i, {"nav"})
    /\ LET c == calls[i]
           found == Succeeds(c) /\ c.answer # None
           told == [page EXCEPT !.navLoading = FALSE, !.hint = found, !.missing = ~found]
       IN IF ~c.about.live THEN page' = page /\ calls' = Rest(i)
          ELSE IF found /\ c.about.fills
          THEN Render([told EXCEPT !.price = c.answer, !.auto = TRUE], Rest(i))
          ELSE page' = told /\ calls' = Rest(i)

SaveArrives(i) ==
    /\ Arrives(i, {"save"})
    /\ page' = IF Succeeds(calls[i]) THEN [page EXCEPT !.closed = TRUE]
               ELSE [page EXCEPT !.saving = FALSE]
    /\ calls' = Rest(i)

--------------------------------------------------------------------------------
(* The user.                                                                    *)

UserChooses == ~page.closed /\ Chooses(habits, calls) /\ UNCHANGED <<habits, server>>

\* A sale is of a fund that is held; the list of positions may not be there yet.
HandleTypeChange(type) ==
    /\ UserChooses
    /\ Render([page EXCEPT !.type = type,
                  !.instrument = IF RequiresPosition(type) /\ page.instrument \notin page.held
                                 THEN None ELSE page.instrument], calls)

Selectable ==
    {x \in page.instruments : RequiresPosition(page.type) => x \in page.held \cup {page.own}}

SelectInstrument(x) ==
    /\ UserChooses
    /\ Selectable # {} \/ ~RequiresPosition(page.type)
    /\ x \in Selectable \cup {None}
    /\ Render([page EXCEPT !.instrument = x], calls)

EnterDate(d) ==
    /\ UserChooses
    /\ Render([page EXCEPT !.date = d], calls)

EnterPrice(p) ==
    /\ UserChooses
    /\ page.type # "FEE_CONSOLIDATION"
    /\ Render([page EXCEPT !.price = p, !.auto = FALSE], calls)

HandleSubmit ==
    /\ ~page.closed /\ Changes(habits, calls)
    /\ ~page.saving
    /\ Chosen(page)
    /\ page.price > 0 \/ page.type = "FEE_CONSOLIDATION"
    /\ page' = [page EXCEPT !.saving = TRUE]
    /\ calls' = Send(calls, "save", None)
    /\ UNCHANGED <<habits, server>>

--------------------------------------------------------------------------------
Network(i) == Serve(i) \/ Lose(i) \/ ListArrives(i) \/ NavArrives(i) \/ SaveArrives(i)

User ==
    \/ \E type \in Type : HandleTypeChange(type)
    \/ \E x \in Instrument \cup {None} : SelectInstrument(x)
    \/ \E d \in Day \cup {0} : EnterDate(d)
    \/ \E p \in Typed \cup {0} : EnterPrice(p)
    \/ HandleSubmit

Next == (\E i \in DOMAIN calls : Network(i)) \/ User

--------------------------------------------------------------------------------
(* Properties.                                                                  *)

\* In whatever order the answers come, a price that was filled in is the NAV of
\* the fund and the date in the form once the form says so; and when all is
\* answered and a NAV was found, the form says so and has a price.  A price that
\* was filled in stays, for another fund too, when no NAV is found for that one.
AutoPriceMatches ==
    LET nav == Nav[page.instrument][page.date] IN
    /\ page.hint => Chosen(page) /\ (page.auto => page.price = nav)
    /\ calls = <<>> /\ Chosen(page) /\ ~page.missing =>
          page.hint /\ ~page.navLoading /\ page.price # 0

\* A price that was typed is not replaced by a NAV, not even by one that was
\* asked for before it was typed: only typing changes it.
TypedPriceKept ==
    page.price # 0 /\ ~page.auto /\ page'.price # page.price => ~page'.auto
================================================================================
