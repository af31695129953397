-------------------------------- MODULE Frontend -------------------------------
(***************************************************************************)
(* The views of the browser (App.tsx and what its pages open), but for the *)
(* page of a portfolio, which is PortfolioPage.                            *)
(*                                                                         *)
(* The router mounts one page at a time, and a page that is left keeps     *)
(* nothing: its state goes, and the answers to its calls are dropped.  So  *)
(* a behaviour of this module is the life of one view, from its mounting   *)
(* on any state of the database.  The parts of the page of strategies      *)
(* that share no state are views of their own here.                        *)
(***************************************************************************)
EXTENDS Naturals, FiniteSets

CONSTANTS
    None, MaxCalls,
    Profiles,  \* of each view: the sets of habits it is used with
    Portfolio, Name, Period,                    \* PortfolioList
    Template, Content, Instrument,              \* StrategyList, SyncAll
    FixedRange, Day, Available, MaxVersion,     \* TemplateChart
    MaxJobs,                                    \* InstrumentDetail
    Typed, Nav,                                 \* TransactionForm
    Today                                       \* TemplateBuy

ASSUME FrontendAssumption ==
    /\ MaxCalls \in Nat \ {0} /\ MaxVersion \in Nat
    /\ Day \cup Typed \subseteq Nat \ {0}
    /\ Today \in Day /\ \A d \in Day : d <= Today
    /\ IsFiniteSet(Instrument)
    /\ IsFiniteSet(Portfolio) /\ \A ids \in SUBSET Portfolio : ids # None
    /\ {None, "deleted"} \cap (Content \cup Name) = {}
    /\ Nav \in [Instrument -> [Day -> (Nat \ {0}) \cup {None}]]
    /\ None \notin [template : Template, date : Day, complete : BOOLEAN]
    /\ None \notin [type : {"create", "edit", "delete"}, id : Portfolio \cup {None}, working : BOOLEAN]

VARIABLES
    view,
    habits,  \* of the user and the network; neither ever changes
    server,  \* what the view uses of the database
    page,    \* the state of its components
    calls    \* its calls of the backend, oldest first

vars == <<view, habits, server, page, calls>>

List        == INSTANCE PortfolioList
Strategies  == INSTANCE StrategyList
Chart       == INSTANCE TemplateChart
SyncButton  == INSTANCE SyncAll
Fund        == INSTANCE InstrumentDetail
Transaction == INSTANCE TransactionForm
Buy         == INSTANCE TemplateBuy

View == {"list", "strategies", "chart", "syncAll", "fund", "transaction", "buy"}

Init ==
    /\ view \in View
    /\ habits \in Profiles[view]
    /\ CASE view = "list"        -> List!Init
         [] view = "strategies"  -> Strategies!Init
         [] view = "chart"       -> Chart!Init
         [] view = "syncAll"     -> SyncButton!Init
         [] view = "fund"        -> Fund!Init
         [] view = "transaction" -> Transaction!Init
         [] view = "buy"         -> Buy!Init

Next ==
    /\ UNCHANGED view
    /\ \/ view = "list"        /\ List!Next
       \/ view = "strategies"  /\ Strategies!Next
       \/ view = "chart"       /\ Chart!Next
       \/ view = "syncAll"     /\ SyncButton!Next
       \/ view = "fund"        /\ Fund!Next
       \/ view = "transaction" /\ Transaction!Next
       \/ view = "buy"         /\ Buy!Next

Spec == Init /\ [][Next]_vars

--------------------------------------------------------------------------------
(* What the views promise; each is stated in the module of its view.            *)

\* The chart on the start page follows the range and the portfolios chosen.
ListChartFollowsChoice == view = "list" => List!ChartFollowsChoice

\* The rows of the start page follow the portfolios, and none is left loading.
ListRowsSettle == view = "list" => List!RowsSettle

\* The tables of the page of strategies follow the database.
StrategiesFollow == view = "strategies" => Strategies!TablesFollow

\* The chart of a template follows the range chosen and the template.
TemplateChartShowsChoice == view = "chart" => Chart!ChartShowsChoice

\* Each row of a sync of all instruments says how its sync ended.
SyncAllReports == view = "syncAll" => SyncButton!SyncReportsAll

\* The page of an instrument follows its prices and its jobs.
FundHistoryAtRest == view = "fund" => Fund!HistoryAtRest

\* A price that the form of a transaction filled in is the NAV of its fund and date.
FormPriceMatches == view = "transaction" => Transaction!AutoPriceMatches

\* A price that was typed into the form of a transaction is kept.
FormKeepsTypedPrice == [][view = "transaction" => Transaction!TypedPriceKept]_vars

\* Nothing is bought by a template that was not previewed.
TemplateBuysPreviewed == [][view = "buy" => Buy!BuysArePreviewed]_vars
================================================================================
