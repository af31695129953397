# NavTrack in TLA+

NavTrack keeps portfolios of mutual funds: a ledger of transactions, the
positions that follow from it, and the daily prices (NAV) of the funds, which
two programs fetch from Yahoo Finance. This directory holds a model of the parts
of it where the order of steps matters, the TLC runs that check it on small
instances, and theorems about it that TLAPS checks for every instance.

- `PROJECT.json` lists the components, the runs, the mutants, the source lines of
  every definition (`map`), the findings, the hazards and the theorems.
- `tlc -config MCNavSync_Prices.cfg MCNavSync` runs one check;
  `tlapm NavSyncProofs.tla` checks one module of proofs.

## The system

| component | state | operations | interacts with |
|---|---|---|---|
| transactions (`backend/src/transactions`) | table `transactions`, the canonical ledger | create, apply a template, update, remove, clear | after each change calls `recalculateFromTransactions` |
| portfolios (`backend/src/portfolios`) | tables `portfolios`, `portfolio_positions` | CRUD, recalculate, edit positions, import and export, aggregate series | reads the ledger and the prices |
| instruments (`backend/src/instruments`) | table `instruments`, with the cached Yahoo ticker in `external_ids` | CRUD, import and export | deletion cascades into every other table |
| NAV prices (`backend/src/nav-prices`) | table `nav_prices`, one price for an instrument and a day | upsert by hand, latest, on a date | written by both syncs |
| sync (`backend/src/sync`) | table `sync_jobs`; per request: the job row, the range, the points | sync one instrument, sync all | Yahoo Finance over HTTP |
| worker (`worker/worker.py`) | one process with two scheduled jobs | wait for the database, NAV sync, daily valuation | same tables, own Yahoo client |
| templates (`backend/src/templates`) | `allocation_templates` and their items | CRUD, preview, normalised series, import and export | read by the template buy |
| valuation (`backend/src/valuation`) | none | value of a portfolio on a date | positions, prices, ledger |
| frontend (`frontend/src`) | the state of each React page | requests to the backend, rendering | recalculates after each change |

The backend calls Yahoo and the database, the worker the same two, the pages only
the backend. Components share nothing else than tables.

What is hard in it:

- **Concurrency.** Node interleaves requests at every `await`; no handler locks
  anything; the worker writes the same tables from another process. PostgreSQL
  runs at READ COMMITTED.
- **A derived table.** Positions are a copy of the ledger that is rebuilt by a
  read and a later, separate database transaction.
- **Failure.** Handlers commit the first half of their work before they start the
  second; programs die; Yahoo refuses; instruments are deleted by cascade under
  a running sync.
- **Derived numbers.** The value of a portfolio is computed in four places (page,
  chart, worker, template series), each with windows and roundings of its own.
- **Pages.** Answers come late and in any order; a page patches what it shows, and
  effects start calls again when their own answers change the state.
- **Incremental sync.** The next range is computed from the latest stored day, so
  a hole, once there, is never filled.

The properties that make each component correct:

| component | property | where |
|---|---|---|
| ledger and positions | at rest, positions are what the ledger adds up to | `LedgerPositionsAgree` |
| | a replacement of the positions is whole | `ReplaceIsWhole` |
| | even when requests overlap, a position is a total the ledger had | `NoPhantomPosition` |
| | units are valid for their type | `LedgerUnitsValid` |
| | no request reaches into another portfolio | `ForeignRowsUntouched` |
| | overlapping requests do not wait for each other for ever | `RequestsFinish` |
| sync | incremental syncs leave no hole, and implement a mirror of what is published | `NoGaps`, `MirrorsPublished` |
| | SUCCESS is said of prices that are stored | `SuccessIsStored` |
| | every attempt is audited, no audit row stays open | `AttemptsAudited`, `JobsSettle` |
| | "all" takes all | `SyncAllIsWhole` |
| templates | weights add up to the whole | `WeightsWhole` |
| | no request leaves a part of an allocation | `NeverTorn` |
| | overlapping requests end | `RequestsFinish` |
| | a template buy spends exactly the amount | `BuySpendsAmount` |
| | the series has the days the date picker offers | `SeriesMatchesPicker`, `SearchFindsLatest` |
| valuation and charts | both programs compute the same value | `ValuationsAgree` |
| | the chart ends at the value of the page | `ChartEndsAtValuation` |
| | windows and choices of portfolios are consistent with each other | `WindowsAgree`, `ChoicesAddUp` |
| | what happens today does not change yesterday | `PastIsStable` |
| import and export | both formats say the same, and a backup is whole | `CsvAgreesWithJson`, `PlainCsvAgrees`, `CatalogueCsvIsFaithful`, `BackupIsWhole` |
| | an import only adds, and tells what it left out | `ImportOnlyAdds`, `ImportTellsAll` |
| page of a portfolio | at rest, the valuation shown is of the chosen date | `RestShowsChosenDate` |
| | at rest, it is computed from all the transactions | `RestShowsPositions` |
| | the patched list of transactions is the ledger | `ListFollowsLedger` |
| other views | what is shown at rest is what was chosen and stored | the properties of `Frontend` |

## Modules

| module | what it is |
|---|---|
| `PortfolioLedger` | transactions, positions, portfolios and the requests on them |
| `LedgerHistory` | the same with a history variable, for `NoPhantomPosition` |
| `NavSync` | the NAV sync of the backend and of the worker on the same tables |
| `PriceMirror` | the abstract specification that `NavSync` implements |
| `Catalogue` | allocation templates and their instruments under overlapping requests |
| `Reports` | valuations, series and shares, as operators over ledger and prices |
| `Exchange` | export and import of instruments, templates and portfolios |
| `PortfolioPage` | the page of a portfolio: its requests, and answers in any order |
| `Frontend` | all other views of the browser, one at a time; it composes `PortfolioList`, `StrategyList`, `TemplateChart`, `SyncAll`, `InstrumentDetail`, `TransactionForm` and `TemplateBuy`, which share `Browser` |
| `MCPortfolioLedger`, `MCLedgerHistory`, `MCNavSync`, `MCCatalogue`, `MCReports`, `MCExchange`, `MCPortfolioPage`, `MCFrontend` | instances for TLC |
| `PortfolioLedgerProofs` | `TypeOK`, `ForeignRowsUntouched`, `LedgerUnitsValid`, `ReplaceIsWhole` and `LedgerPositionsAgree`, and `NoPhantomPosition` of `LedgerHistory` |
| `NavSyncProofs` | `TypeOK`, `SuccessIsStored`, `AttemptsAudited`, `NoGaps` and `MirrorsPublished` |
| `CatalogueProofs` | `TypeOK`, `WeightsWhole` and `NeverTorn` |
| `PageProofs` | `TypeOK`, `RestShowsChosenDate`, `ListFollowsLedger` and `RestShowsPositions` |
| `FrontendProofs` | the nine properties of `Frontend` |
| `ReportsProofs` | the eight agreements of `Reports` |
| `ExchangeProofs` | the types, `ImportOnlyAdds`, `ImportTellsAll` and the three agreements of export and import |
| `SumProofs` | lemmas about sums over finite sets, for `CatalogueProofs`, `ReportsProofs` and `ExchangeProofs` |

### PortfolioLedger

Tables are functions: `ledger` from transaction ids to rows, `positions` from
portfolio and instrument to units (zero for no row). A request is a slot with a
program counter `pc`, the portfolio it is about (`target`) and what it holds
across an `await`: the transaction it read (`entity`), the totals it read
(`snap`), the rows its DELETE found (`rows`).

A handler is cut where other requests can run, at each `await` of a statement:

    create, applyTemplateBuy, clearAll            -> recalc
    update:  UpdateFind -> SaveReload -> SaveUpdate | SaveInsert -> recalc
    remove:  RemoveFind -> RemoveWrite            -> recalc
    recalc:  Select -> DeleteBegins -> DeleteEnds -> Commit | Rollback

`update` has three steps because TypeORM's `save` reads the row again and writes
only the columns that differ from it, and inserts the row if it is gone.
The DELETE has two because at READ COMMITTED it sees the rows committed when it
starts, and may then wait for another transaction to release them. The INSERTs
and COMMIT are one step: what they write is not visible before it, and if one of
them conflicts all is rolled back. Rows deleted by an open transaction are locked
(`Locked`); a statement that touches one waits. Deletions of portfolios and
instruments cascade. `Crash` forgets all requests.

`Behaviour` says what clients do beyond waiting for each answer: `"overlap"`,
`"partialUpdate"`, `"manualEdit"`, `"import"`. The pages of the frontend do
overlap requests: `PortfolioDetail` starts its own recalculation after each
change and does not keep a second change from starting.

Abstracted: prices, fees, dates and notes of a transaction; the average cost of a
position; how a template buy computes units. Units are integers; PostgreSQL's
NUMERIC is exact, so no rounding is lost in the sums.

### NavSync

A syncer is a request to the backend (`Caller`) or a run of the worker (`Run`).
Both go through the steps `next`, `resolve`, `from`, `fetch`, `store`, `close`;
where the two programs do the same on the tables they share an action
(`ResolveTicker` .. `StoreFails`), where they do not they have their own:

- the backend inserts a RUNNING audit row first and updates it last (`BeginJob`,
  `CloseJob`), the worker inserts the row last (`BeginAttempt`, `RecordJob`);
- an instrument that is gone ends the whole backend request at its beginning
  (`BeginGone`), or at its end, because the audit row went with it (`CloseGone`);
  in the worker it ends the run when the audit row is inserted (`RecordFails`).

Days are numbered from the first day of the five-year window the worker starts
with. Yahoo publishes a growing set of days for an instrument (`Publish`); some
days never have a close. A price is the program that stored it. Retries and back-off are
abstracted to their outcome: the step succeeds or fails. `setDate(getDate() + 1)`
around a change to summer time can give the latest day again instead of the one
after it, which fetches one day twice and is left out.

`Behaviour` adds explicit windows, prices put by hand, days published late,
deletions and crashes.

`PriceMirror` knows two things only: the days that are published, and the days
that are stored. Its one interesting action extends the stored days, which are a
prefix of the published ones, to a longer prefix, in one step. `MirrorsPublished`
is that specification with `mirror` replaced by the days for which `NavSync` has a
price: of all the steps of a syncer only the statement that stores is one of the
mirror, and it must be whole.

### Catalogue

`PUT templates/:id` reads the template with its items, saves this entity in a
database transaction and replaces the items in it. TypeORM reads again and writes
the difference, so what the handler writes depends on two reads at two times:

    update:  UpdateFind -> Reload -> WriteNothing | WriteUpdate | WriteMisses | WriteInsert
               -> DeleteBegins -> DeleteEnds -> InsertItems
    remove:  RemoveFind -> RemoveTemplate -> RemoveItems

`DeleteBegins` and what follows it run only when the client sent items. Each
statement that locks rows is a step, `Blockers` says whom it waits for, and
`Deadlock` is PostgreSQL ending a circle of waiting transactions by aborting one of
them. What an open transaction wrote is kept in the plan of the request and becomes
visible at its COMMIT, one step with its last statement. `Create`, and the creation
and deletion of instruments, are one step each: they hold no lock another statement
here waits for in the middle.

`flaw` and `alone` are auxiliary. They record why the weights of a template may fail
to add up: overlapping updates (`"mixed"`) or the deletion of one of its instruments
(`"cut"`). No guard reads them.

### Reports

No step of this part waits for another, so what is modelled is the arithmetic:
`TotalValue` and `TotalCost` are `ValuationService.compute`, `WorkerValue` and
`WorkerCost` are `run_valuation`, `Series` is `aggregateValuationSeries` with its
window, opening, grid of days and carried prices, `NavSeries` is `navSeries` with
`FindLatest`, its binary search over the intervals of a history, and `Shares` is the split of a template buy. The
state is the ledger and the prices, and the actions change one row of these, so
TLC visits every ledger and price table within the bounds and checks that the
computations agree with each other. Units, prices and fees are integers, in millionths;
`One` and `Cent` are how many of them are one and a cent. A product has twice the
decimals, and each program loses them in its own place: the chart casts the cash of the
opening and of each day to six decimals (`Cast`) before it adds them and rounds to the cent;
the worker rounds each position; the page adds doubles and rounds the total with
`Math.round`. At half a cent a double can lie on either side (1.005 becomes 1.00, where
PostgreSQL and the worker get 1.01), so `Round2` is the set of the cents that it can lead
to, `Drift` being how far a total of doubles is from the exact one. The properties hold
for each member and say by how much two computations can differ. `round6` of a share
and the points of a template series are doubles as well; there the models round a half up,
and no property depends on which way it goes.

### Exchange

Texts are sequences of the characters that the writers and parsers look at. `Escape`
and `EscapeLabel` are the two functions called `csvEscape` (they differ), `Parse`
folds `Scan`, the state machine of `parseCsv`, over a text, `DataLines` folds `Split`,
which is `split('\n')`, and `ReadTemplates` folds `AddItem`, the map that `importCsv`
fills line by line. `Selected` is `filter` by place, a function and not an operator on
operators, so that proofs can reason about it. `ImportedPortfolios` is
`importPortfoliosData` with its validation of rows. The limits on the length of a
file and of a line are left out. No text has a carriage return, which the parsers
do not treat alike. An import of instruments or templates is a
`job` that looks up and stores row by row, with requests of others in between
(`Disturb`); an import of portfolios is one transaction.

### PortfolioPage

`PortfolioDetail.tsx` in the browser. A `task` is an async function of the page
with the request it waits for:

| task | function | steps |
|---|---|---|
| `reload` | the effect that loads the page | `AnswerValuation`, `AnswerList`, then `Loaded` or `LoadFails` |
| `fetch` | `fetchValuation`, after the debounce | `FetchValuation`, `AnswerValuation`, then `FetchAnswered` or `FetchFails` |
| `save` | `handleSubmit` or `handleConfirm` of a form or a dialog | `Submit`, `AnswerSave` or an error, then `SaveAnswered` or `SaveFails` |
| `recalc` | `autoRecalculate`, which a save turns into | `AnswerRecalculate`, `AnswerValuation`, then `RecalcAnswered` or `RecalcFails` |

`Answer...` is the backend handling a request, some time between its sending and
its answer; the others are the page going on, each up to its next `await`. The
page tells answers apart by date: `ref` is `valuationDateRef`, the date of the
latest fetch. The backend is abstract and handles a request in one step, as
overlapping handlers are the subject of `PortfolioLedger`. Positions, and a
valuation computed from them, are the ledger they were calculated from.

A user acts only when nothing is under way, unless it has the habit `"hasty"`;
`"close"` closes forms that are being saved, `"clearDate"` empties the date
field, and with `"fail"` requests fail. The habits are chosen once. `Reopen`
leaves the page only when it is quiet. Abstracted: the fields of the forms, prices
and totals. Left out: editing and deleting the portfolio itself, and the charts.

### Frontend

The router mounts one page at a time, and a page that is left keeps nothing, so a
behaviour of `Frontend` is the life of one view: `view` says which, `server` is what
the view uses of the database, `page` its React state, `calls` its calls under way.
A view is a module with one action for each handler, effect and answer:

| module | component | `page` |
|---|---|---|
| `PortfolioList` | `PortfolioList.tsx`, `PortfolioImportExport.tsx` | rows with their valuations, the chart of the total, its range and exclusions, the dialog |
| `StrategyList` | `StrategyList.tsx`, `TemplateFormModal.tsx`, `ImportExportModal.tsx` | both tables and the dialog |
| `TemplateChart` | `TemplatePerformanceChart.tsx` | range, dates, available days, series, pause |
| `SyncAll` | `SyncAllButton.tsx` | the loop, its rows, the dialog of a forced refresh |
| `InstrumentDetail` | `InstrumentDetail.tsx`, `SyncButton.tsx`, `SyncJobHistory.tsx` | prices, jobs, form |
| `TransactionForm` | `TransactionFormModal.tsx` | fund, date, price and where the price came from |
| `TemplateBuy` | `TemplateBuyModal.tsx` | template, date, preview |

A continuation after an `await` uses the values of the render that made the call;
they are in the `about` of the call. An effect is run by the action that changes one
of its dependencies, and its cleanup by the same action. `Browser` defines how calls
are sent, handled, answered, lost and overtaken, and the habits of users and of the
network:

- `"hasty"`: the user chooses, types, opens and closes while calls are under way;
- `"close"`: the user closes a form that is being saved;
- `"multitask"`: the user changes something while calls are under way;
- `"reorder"`: calls of one kind overtake each other;
- `"fail"`: calls fail, before or after the backend has handled them.

Each view is checked with the sets of habits in `MCProfiles`. A property names
the habits it does not hold for in its premise, and those are behaviours of the code:

- `ListChartFollowsChoice`: series that overtake each other have no token, so the
  slower wins; a hasty user who excludes every portfolio makes no call, and the
  answer of the call before draws a chart nobody chose; changes made meanwhile
  write back the rows of an older render.
- `TemplateChartShowsChoice`: a form that is closed while it is saved ends the
  pause before the template has changed, and the chart stays the old one.
- `SyncAllReports`: the dialog of a forced refresh can be opened before a run and
  confirmed during it, which starts a second loop over the same rows.
- `FormPriceMatches`: a price that was filled in stays in the form when the fund or
  date is changed to one without a NAV.

## Runs

| run | instance | shows |
|---|---|---|
| `ledger_serial` | 2 portfolios, 2 funds, 2 transactions, 1 request, units -1 and 2, at most 2 held | one request at a time, with edits by hand, imports, crashes, failures and cascades between its steps: `TypeOK`, `LedgerPositionsAgree`, `LedgerUnitsValid`, `ReplaceIsWhole`, `ForeignRowsUntouched` |
| `ledger_overlap` | 1 portfolio, 2 funds, 2 transactions, 2 requests | overlapping requests store no phantom and end: `NoPhantomPosition`, `RequestsFinish` |
| `sync_prices` | 1 instrument, 2 requests, 1 run, 3 days, 3 audit rows | syncs in any interleaving, with deletion and crashes: `NoGaps`, `MirrorsPublished` |
| `sync_audit` | 2 instruments, 1 request, 1 run, 1 day, 2 audit rows | deletions, explicit windows and prices by hand under a sync of all: `SuccessIsStored`, `JobsSettle`, `AttemptsAudited` |
| `catalogue` | 1 template, 2 instruments, 2 codes, 2 requests, weights of a half and of almost the whole | overlapping updates and removals, deletion of instruments, deadlocks, crashes: `WeightsWhole`, `NeverTorn`, `RequestsFinish` |
| `reports` | 2 portfolios, 2 funds, 2 transactions, 4 days, two of them traded on and three priced, prices 4 and 12, a cent of 4 and one of 2, 4 rows in all | the eight agreements of `Reports` |
| `exchange` | 2 instruments, 2 templates, 2 portfolios, 2 rows, texts with commas, quotes, newlines and bars, rows that an update has left invalid, three files of each kind, with rows and items that lack their key | `PlainCsvAgrees`, `BackupIsWhole`, `CatalogueCsvIsFaithful`, `ImportOnlyAdds`, `ImportTellsAll` |
| `portfolio_page` | 1 transaction, 2 contents, 2 dates, 3 tasks; a user who waits, a hasty one, one whose requests fail | answers in any order: `RestShowsChosenDate`, `ListFollowsLedger`, `RestShowsPositions` |
| `frontend` | two of each thing, 2 calls that a user starts, the habits of `MCProfiles` | the nine of `Frontend` |

Three runs show that the code does not do what is written about it:

| run | what TLC finds |
|---|---|
| `ledger_stale_replace` | Two changes of one ledger overlap. The recalculation that read first replaces last, and the positions miss a committed transaction with no error anywhere. |
| `sync_all_aborted` | An instrument is deleted while `POST sync/all` is at another: `syncInstrument` throws outside its `try`, and the rest is not synced. |
| `exchange_comma` | A portfolio has a comma in its name. `csvEscape` of `portfolios.service.ts` opens a quote and does not close it, and its CSV cannot be read back. |

Other places where what is written and the code differ, which the models follow
the code in, without a run of their own:

- `portfolios.service.ts:649` says "Existing positions are replaced atomically". With
  two funds and overlapping recalculations the DELETE of one waits for the other and
  does not see the rows it inserts; rows of both remain. `ReplaceIsWhole` is
  therefore about clients who wait.
- `HANDOVER.md:88` says that the worker "performs the same calculation". It rounds each
  position, not the total (`worker.py:158-175`, `valuation.service.ts:81-85`), and
  leaves the cost of positions without a price out; `ValuationsAgree` allows for both.
- `HANDOVER.md:96` and `README.md:452` say that an import skips duplicates.
  `importPortfoliosData` looks for none and creates each portfolio anew.
- `TemplatePerformanceChart.tsx:41` says "once on mount"; the effect also runs
  after each pause.
- `PUT transactions/:id` takes a `Partial<CreateTransactionDto>`, which no pipe validates
  (`transactions.controller.ts:37`). It can store a price of zero (4e-7, rounded to six
  decimals) or negative fees, and the import of a backup skips such a row
  (`portfolios.service.ts:578`). `BackupIsWhole` is about rows that a creation lets through.
- The import of instruments passes over a row without an ISIN and tells of it nowhere
  (`instruments.service.ts:105`), as that of templates does without a code. An item
  of a template without an ISIN gets any instrument: `findOneBy` with `undefined` has no
  condition (`templates.service.ts:428`). `ImportTellsAll` says what is told of the rest.
- Rows of a CSV of portfolios are grouped by `name||description`
  (`portfolios.service.ts:472`). The portfolio "a" described as "|b" and the portfolio "a|"
  described as "b" have one key and are imported as one. `PlainCsvAgrees` excepts
  names with a bar.

The models also say which promises depend on the behaviour of clients, and the
hazards in `PROJECT.json` list the main ones: with `"partialUpdate"` or `"overlap"` a
transaction can end with units that are not valid for its type; with `"import"`
positions are missing until the page asks for them; with `"window"`, `"manual"`
or `"late"` an incremental sync starts beyond days that were never fetched; a
worker that is killed leaves no audit row, a backend that is killed leaves one
that says RUNNING. Overlapping updates of one template leave weights that add up to
twice the whole; the deletion of an instrument leaves less than the whole; an import
takes a weight that is no number. On the page only `RestShowsChosenDate` holds for
every user and for requests that fail. Two answers to the same date carry the same
token, so for a hasty user an older valuation can replace a newer one; a form
that was closed while it was saving closes the form opened after it; an error
of the recalculation is swallowed and leaves the valuation as it was.

**Bounds.** Two requests suffice for the races here: each is between a request
that has read and another that writes in between. Two transactions make a ledger that
has changed since it was read, and two portfolios a request that reaches
into the wrong one. Three days make a hole: a stored day, a missing one, and a later one.
`Txn`, `Job` and `MaxDay` bound the number of rows and days; when no id is free the
operations that need one wait, the rest goes on. `RoomForJob` keeps an attempt from
beginning without an id for its audit row, because the database never runs out of them. `MaxUnits`
is small so that the overflow of NUMERIC(18,6) happens. In `catalogue` two funds of
a half make an allocation of which a part can be left, one fund that misses the
whole by the tolerance makes two more, disjoint ones. No
code is `Reserved` there: an update that asks for a taken code ends like every other
whose statement fails, and the theorems hold for any reserved codes. Four rows in `reports` are two
trades and two prices, before, on and after the boundary of a window; `One = 2`, `Cent = 4`
and `Drift = 1` make totals at half a cent and casts that lose a half. `MaxRows` in `exchange` bounds the rows of
all portfolios. Three tasks are two
fetches that overtake each other and a recalculation between them; when all are
taken the debounce and the submit wait. Two contents and two dates
are an old one and a new one. `MaxCalls` keeps a user of a view from starting more while
two calls are under way; the calls that answers and effects start are not bounded by it.

**Symmetry** is used in safety runs only. The deadlock check is off in `frontend`: a
view whose changes are used up (`MaxVersion`, `MaxJobs`) has nothing left to do.

**Fairness.** `FairSpec` of `PortfolioLedger` (and `FairHSpec`, the same with the
history) is strong fairness of each request
that has started: Node runs every handler to its end, and PostgreSQL queues
waiting transactions, so a request whose rows are free again and again gets them.
`FairSpec` of `Catalogue` is the same, with deadlocks ended by PostgreSQL.
Nothing makes a client start a request. `FairSpec` of `NavSync` is weak fairness
of each syncer: each step is enabled until it is taken, HTTP calls end with an answer or an
error, and Node and the worker go on. Nothing makes Yahoo publish or a client
ask.

**Mutants.** For each property of a passing run, a definition `...` has a
neighbour that changes it the way a plausible mistake would (no HAVING, a deletion
that does not recalculate, one day too many, a failed fetch that is not
audited, a DELETE that commits on its own, a missing cleanup of an effect), and TLC
finds the property violated with it. The comment "Mutant of"
marks them; the specification does not use them.

## Proofs

| theorem | assumes | says |
|---|---|---|
| `TypeCorrect` | | `Spec => []TypeOK` of the ledger |
| `RequestsStayAtHome` | | `Spec => ForeignRowsUntouched`, for any clients |
| `UnitsStayValid` | no overlap, no partial update | `Spec => []LedgerUnitsValid` |
| `ReplacementIsWhole` | no overlap | `Spec => ReplaceIsWhole` |
| `SerialAgreement` | no overlap | `Spec => []LedgerPositionsAgree` |
| `NoPhantoms` | no manual edit | `HSpec => []NoPhantomPosition` |
| `SyncTypeCorrect` | | `Spec => []TypeOK` of the sync |
| `SuccessMeansStored` | | `Spec => []SuccessIsStored` |
| `EveryAttemptAudited` | no crash | `Spec => AttemptsAudited` |
| `IncrementalNoGaps` | no explicit window, manual price or late day | `Spec => []NoGaps` |
| `SyncImplementsMirror` | no explicit window, manual price or late day | `Spec => MirrorsPublished`, the refinement |
| `CatalogueTypeCorrect` | | `Spec => []TypeOK` of the templates |
| `WeightsAddUp` | | `Spec => []WeightsWhole` |
| `NoTornTemplate` | | `Spec => []NeverTorn` |
| `PageTypeCorrect` | | `Spec => []TypeOK` of the page |
| `ChosenDateShown` | | `Spec => []RestShowsChosenDate`, for any habits |
| `ListIsLedger` | | `Spec => []ListFollowsLedger` |
| `PositionsShown` | | `Spec => []RestShowsPositions` |
| `FilledPriceIsNav`, `TypedPriceStays` | | `FormPriceMatches` and `FormKeepsTypedPrice` of `Frontend` |
| `BoughtAsPreviewed` | | `Spec => TemplateBuysPreviewed` |
| `EveryRowReported` | | `Spec => []SyncAllReports` |
| `FundPageAtRest` | | `Spec => []FundHistoryAtRest` |
| `TemplateChartAtRest` | | `Spec => []TemplateChartShowsChoice` |
| `RangesAgree`, `ChoicesAdd`, `PastStays` | | `WindowsAgree`, `ChoicesAddUp` and `PastIsStable` of `Reports` |
| `ChartEnds`, `WorkerAgrees` | | `ChartEndsAtValuation` and `ValuationsAgree` |
| `BuySpends` | | `Spec => []BuySpendsAmount` |
| `SearchFinds`, `SeriesMatches` | | `SearchFindsLatest` and `SeriesMatchesPicker` |
| `StrategyTablesFollow` | | `Spec => []StrategiesFollow` |
| `ListRowsAtRest`, `ListChartAtRest` | | `ListRowsSettle` and `ListChartFollowsChoice` |
| `TypesCorrect` | | the types of the tables and of a running import |
| `ImportAddsOnly`, `ImportTellsEveryRow` | | `ImportOnlyAdds` and `ImportTellsAll` |
| `BackupsAreWhole` | | `Spec => []BackupIsWhole` |
| `CellsReadBack` | | a row of any cells, written as a line of CSV by the `csvEscape` of instruments and templates, is parsed to these cells |
| `CatalogueCsvReadsBack` | | `Spec => []CatalogueCsvIsFaithful` |
| `FormatsAgree` | | `Spec => []PlainCsvAgrees` |

They hold for any sets of portfolios, instruments, templates, transactions, requests
and runs, any number of days, dates, tasks and calls, and files and texts of any length,
under the assumptions named in
the modules (`ConstantsAssumption`, `NavSyncAssumption`, `PageAssumption`,
`ModalAssumption`, `FrontendAssumption`, `ReportsAssumption`, `ExchangeAssumption`):
constants have their types; `None` is none of the other values, neither an id nor a
record that is stored where `None` may be; prices are positive, which the DTO asks of those
put by hand and which is taken for granted of Yahoo's; and sets that something is summed,
counted or listed over are finite. The trades of `Reports` are such as a creation lets through; those that
an update without validation can leave are in `PortfolioLedger` and `Exchange`. `ExchangeAssumption` says of texts that the characters the parsers tell apart are
different from each other and from the values of plain columns (numbers, ISINs, types, the
header), and that `externalIds`, which is written by `JSON.stringify`, has no newline in it and no
blank at its end.

Ledger and positions:

- **RequestsStayAtHome.** Of positions, each action says which it changes
  (`NextPositions`). A request holds a transaction between its SELECT and its
  save. `HeldInOwn`: what it holds is of the portfolio it is about, and so is the row
  with that id; requests that hold the same one are about one portfolio.
  `save` never writes the portfolio of a row. Nothing is assumed of clients.
- **UnitsStayValid.** `save` writes only the columns that differ from the row it
  reads again. `ValidWrites`: what a request wants to store is valid as a whole, and the
  type and units it leaves out are in the row as it wants them. With `OneRequest`, at
  most one request is about a portfolio, nobody else
  changes the row in between; two valid overlapping updates do not have this.
- **ReplacementIsWhole.** `AllRowsRead`: from the DELETE to the COMMIT the rows that
  the recalculation has found are all the rows there are, less what an instrument took
  with it. Overlap breaks just this.
- **SerialAgreement.** `LedgerPositionsAgree` speaks of portfolios without a
  request, so it says nothing while one is running. The inductive invariant adds
  what each step of it has established: the rows it found are all the rows there
  are, and what it is about to store is the total of the ledger as it still is, less
  what a deletion of an instrument has taken from it. Edits by hand and imports may come
  in between: the property excepts a portfolio until it is recalculated, and a
  request that puts a position by hand is about one instrument whose row, if it has read one,
  is still there (`UpsertRead`).
  Totals are sums over the rows of one fund; the proofs use only that a total
  depends on no other rows.
- **NoPhantoms.** `ever` collects every total. The invariant adds that what a
  recalculation is about to store was a total when it was read, and that a
  portfolio that does not exist has no positions, so that a portfolio created
  with the same id starts clean.

NAV synchronisation:

- **SuccessMeansStored.** The audit row is closed after the prices were stored, in
  another statement. `AuditInv`: an attempt that is about to be audited has stored what it
  is going to say, unless its instrument is gone; the row that a backend attempt began
  with is about its instrument and is there as long as that is; and every row is about
  an instrument that exists. Prices go only with their instrument.
- **EveryAttemptAudited.** An action property: from the same invariant, each of the
  steps that ends an attempt writes the row. A crash is excluded because
  the worker writes its row last.
- **IncrementalNoGaps.** A syncer stores long after it has looked.
  `FetchOK` says that the day before its range is still stored and so is all that is
  published before it; `StoreOK` that the fetched points, with what is stored
  now, are complete up to the last of them. Others only add days, and a deletion makes
  both vacuous, because the instrument is not there when the statement runs.
- **SyncImplementsMirror.** The mirror is at any time a prefix of what is published,
  which is `NoGaps` with the strengthening of its proof. What is new is
  the step that stores: by `StoreOK` it extends one prefix to another,
  and every other step leaves the stored days alone or empties them with
  the instrument.

Templates:

- **WeightsAddUp.** `Pending` is what is known of a request in flight: the items it will
  insert were validated; while it is `alone` no other request is about its
  template; and from the start of its DELETE to its INSERTs the template has no item
  that it has not locked. So what an update that is alone leaves are its own items
  and nothing else. A deletion of an instrument in between takes items from the
  table and from what is locked alike. The sum itself is never computed in the
  proof: the items are the very function that was validated.
- **NoTornTemplate.** Here updates overlap, and what remains can be the items of several.
  A transaction that deletes items inserts a whole set over what remains, and a
  sum over more items is not smaller (`SumMonotone`). The case that is easy to miss is `save`
  after a removal, which inserts the template again with the items that were read:
  `KnownInv` says that these are enough, unless an instrument was cut from them.

Page of a portfolio:

- **ChosenDateShown.** The property is about a page at rest, the invariant about how it
  gets there: a date that waits for the debounce is the one in the field
  (`FieldInv`); the latest date that was fetched is shown, or a fetch of it is under way
  (`FetchInv`); before the first fetch every recalculation is for the one date the page was
  loaded with (`FirstInv`); and an answer is of the date that was asked (`AnswerInv`).
- **ListIsLedger.** While a save is under way the list is one patch behind. `ListInv`:
  the list is the ledger, but for the one change whose answer is on its way.
  `ModalInv`: a form that is not closed while it is saved is still open when the answer comes;
  `BusyInv`: for a user who waits, one thing is under way at a time. The patch needs either.
- **PositionsShown.** `PositionsInv`: what the page shows, and each valuation that is
  on its way, is computed from the ledger, except while a recalculation after a change is
  awaited, and that one is of a date that the page will accept.

Other views: one invariant each, over the calls under way as a set (`Elems`), so that
a step adds, removes or changes one call.

- **FilledPriceIsNav, TypedPriceStays.** `FormInv`: a call for a NAV that is not cancelled
  is for the fund and date in the form, and knows whether it may fill the price in
  (`LiveMatches`); and when a fund and a date are chosen, such a call is under way, or the form
  says that it has a NAV, or that there is none (`FormWaits`).
- **BoughtAsPreviewed.** `BuyInv`: a call for a preview that is still active is for the
  template and date in the form, and so is the preview on it unless one is loading.
- **EveryRowReported.** `SyncInv`: there is one loop, whose call holds what is left
  (`SyncTurn`): its row is running, those left are pending, all others say how
  their sync ended, as the server has it.
- **FundPageAtRest.** `FundInv`: either a call is under way that will end with a new history
  (`HistoryComes`), or each history that is under way, or the page's if none is, is the one
  stored; the same of the jobs. Of the calls of one kind only the oldest is answered
  (`Turns`), so the last to arrive is the last that was asked for.
- **TemplateChartAtRest.** `ChartInv`: unless the chart is paused, the latest call for a
  series is for the choice on the page and answered with the template as it is; if
  there is none, the chart shows just that or says that it failed. A save is under way only
  while the chart is paused, and the end of the pause loads the series again.
- **StrategyTablesFollow.** `StrategyInv`: each table of the page is what the database
  lists, or a call that brings it is under way; and what the page does with an answer
  makes its table what the database has (`StrategyAnswered`). But for the two loads, at
  most one call is under way, because the page disables its buttons meanwhile.
- **ListRowsAtRest.** `ListInv`: at most one of the calls that change something is under
  way, and no valuation beside it; a row that says it is loading has a call for its valuation;
  and the names in the rows are those stored, or a call that brings them is under way.
- **ListChartAtRest.** `TotalInv`: the latest call for the series is for what is chosen
  now, and there need be none when the chart shows just that or says that it failed; the
  rows are portfolios that are stored, but for the one that is being deleted. Older
  answers are dropped by the page, and only the latest counts.

Import and export:

- **ImportAddsOnly, ImportTellsEveryRow.** An import is many statements without a
  transaction, and others write in between. `JobInv`: what is left of the file is its tail,
  and an import that nobody has disturbed has stored or reported each row that it is past
  (`Told`). An insert that fails and a row that is skipped are both reported; what was
  looked up for a template is its items, each with the instrument found (`Alike`).
- **BackupsAreWhole.** The items of a template are appended one by one to a table that
  is read back by name. `Selected`, the items at a set of places, is followed by
  induction over the places.
- **CellsReadBack, CatalogueCsvReadsBack.** Writers and parser are folds over texts of
  any length. A fold is its value at each place read (`Folds`, `FoldsAgree`), and
  what holds at each place is shown by an induction written over a set of numbers
  (`SeqInduction`). The parser is in one of three states: outside of quotes, within them, or
  behind a quote that may be doubled (`Outside`, `Within`, `Behind`). The lemmas go from a
  cell to a line (`LineReadable`), from lines to a text that is cut again at
  its newlines (`LinesSplit`), and to the items of a template, which the import collects
  from its lines (`FileAdded`). The property needs two exceptions, both the code's:
  a newline in a name, since the importers cut lines before they look at quotes; and a
  blank before the name of an instrument, which is stored as it was sent but trimmed when
  it is imported.
- **FormatsAgree.** The parser of `portfolios.service.ts` reads a whole file at once. After each
  row and each cell it has read the rows before, the cells of the row and the characters of
  the cell so far (`TextNext`, `TextRead`), by the same three states. A key tells name and
  description, because the name ends at its first bar (`KeyTells`). `Grouping` is the
  invariant of the loop of `importPortfoliosFromCsv`: it
  has one portfolio for each name and description, which holds the transactions of the
  rows with these, in their order. So both formats give, under each name and
  description, the transactions of the file that an import accepts (`FormatsGive`, `GroupFlat`):
  validation looks at one row alone and thus does not care for grouping, and trimming
  twice is trimming once (`TrimTwice`).

Valuations and series: `Reports` has no long-lived state; its inductive invariant
`TablesInv` is that the tables have their types and that units are bought in
positive numbers (`BuysAdd`). The work is in the operators, which are sums over sets that
depend on windows and choices. `SumProofs` has the lemmas about such sums (adding an element,
joining two sets, changing the index, adding two functions), all by induction.

- **RangesAgree, PastStays, ChartEnds.** `PointShape`: a point is a function `PointBy` of
  the tables, the portfolios, the day and the first day of the window, and of these its value
  does not depend on the window. What was invested does, by what is cast at once in one
  and day by day in the other: each cast moves it by half a millionth at most
  (`CastsNear`, `OpeningNear`), and numbers that are close have roundings that are
  (`RoundedNear`). A change that is dated later is not seen (`PointOfPast`). At
  the end of the chart, a fund that was sold has no units, and one that is held has the
  same price on the last day of the chart and on that of the page (`SamePrice`).
- **ChoicesAdd, WorkerAgrees, BuySpends.** `Round2Near`: whichever cent a total of doubles
  leads to, it is off by half a cent and `Drift`. `RoundingsAdd`: n numbers rounded and then
  added are within n/2, rounded down, of their sum rounded; it is the strictness of one side of
  each rounding that makes it n/2 and not one more. `JoinAdds` and
  `PortfoliosAdd` say that what is summed is additive before it is rounded;
  `SharesNear` carries the error to the last fund of a template.
- **SearchFinds, SeriesMatches.** The search is a recursive function, which exists because
  both halves of an interval are smaller (`SearchExists`). `Narrowed` is the loop
  invariant of `findLatestNavOnOrBefore`: what is before `lo` is not later than the day,
  what is after `hi` is, and the last before `lo` is the one found. The days of the series
  follow: a day has a point exactly from the first day with all prices on.

TLC checked every property before it was proved, and the inductive invariants of the
ledger, the sync, the page of a portfolio, `Reports` and `Exchange` (`JobInv`), `KnownInv`,
and those of the two list pages (`StrategyInv`, `ListInv`, `TotalInv`); those of the other
views were proved as they were found.

Only model-checked is liveness under fairness (`RequestsFinish`, `JobsSettle`), and with it
ENABLED, which this prover does not reason about. Every other property of a run that passes
is stated by a theorem.

Stated weaker than one might expect: `SerialAgreement`, `UnitsStayValid`,
`ReplacementIsWhole`, `EveryAttemptAudited` and `IncrementalNoGaps` are about
behaviours without the events named in the second column of the table. The code does
not exclude these events, and the properties are false with them; the runs with a
violation show the first and the last.

`PlainCsvAgrees` is about portfolios whose texts have no comma, quote, newline or backslash,
since for others the two formats differ: `csvEscape` of
`portfolios.service.ts` leaves the quote open that it begins (the run `exchange_comma`). A name of
blanks only is dropped by the import of JSON and refuses the whole file as CSV; a bar in a name
can make its key that of another portfolio; notes with
blanks around them are trimmed by the CSV alone.

`WindowsAgree`, `ChoicesAddUp`, `ChartEndsAtValuation` and `ValuationsAgree` say "up to" a cent
or more, which is what the roundings of the code cost. That two ranges of the chart can
differ by a cent on one day, or the page from the chart, is a behaviour of the code.

## Not modelled

- Rendering, formatting and theming (`TemplatesPage` is no route of the
  application); the seed data; authentication (there is none); wiring of the
  framework.
- `instruments.update`: no page calls it. It writes back an instrument that it read
  before, so that a ticker cached in between is lost.
- `wait_for_db` and the scheduler of the worker: a run starts at any time in the
  model, which covers every schedule. The retries and the back-off of both Yahoo
  clients are abstracted to their outcome; three answers 429 in a row end in a
  generic message, which no property is about.
- The calendar. A candle is dated in UTC by the backend and in the time zone of
  the exchange by the worker, so one close can be stored under two days; days
  are those of one calendar here.
- A price put by hand that a sync overwrites, and the entries before a bad one that
  a bulk upsert leaves stored, are behaviours of `NavSync` that no property
  forbids: the API promises neither.
- `"late"`, a day that is published after later ones, is in `SyncTypeCorrect` and in no
  run: `NoGaps` is about publication in order.

## What could come next

`FormatsAgree` for any labels, once `csvEscape` of the portfolios quotes like that of the
instruments and the key of a row is a pair: `RowsReadBack`, a lemma, is already about any
texts. Properties for the
hazards that have none: an update that leaves out the units or is not validated, the start of an incremental sync
after a late day, two answers for one date, and weights of an import that are
no numbers. Liveness stays with TLC.
