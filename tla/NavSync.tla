-------------------------------- MODULE NavSync --------------------------------
(***************************************************************************)
(* The synchronisation of NAV prices from Yahoo Finance.                   *)
(*                                                                         *)
(* Two programs do it, each in its own way, on the same tables: the        *)
(* backend (SyncService.syncInstrument and syncAll, one HTTP request each) *)
(* and the worker (run_nav_sync, at startup and twice a day).  Both take   *)
(* an instrument, find its ticker, ask the database for the latest stored  *)
(* price, fetch what Yahoo publishes from the day after, and store it in   *)
(* one statement.  The backend writes the audit row of the attempt before  *)
(* it starts and updates it at the end; the worker inserts it at the end.  *)
(* Each `await` and each SQL statement or HTTP call is a step; requests    *)
(* and runs, deletions of instruments, prices put by hand and restarts of  *)
(* either program interleave.                                              *)
(*                                                                         *)
(* A price is abstracted to where it came from.  Days are numbered from    *)
(* the first one of the five-year window that the worker starts with, so   *)
(* the full history and that window are the same here.                     *)
(***************************************************************************)
EXTENDS Integers, FiniteSets

CONSTANTS
    Instrument,   \* ids of instruments
    Caller,       \* slots for sync requests to the backend
    Run,          \* slots for runs of the worker's sync job
    Job,          \* ids of rows of sync_jobs: bounds how many attempts are made
    MaxDay,       \* the last day of the calendar
    Behaviour,    \* what happens beyond incremental syncs of a growing history
    None

\* "window"  a request with explicit dates: ?from=, ?to=, or ?overwrite=true
\* "manual"  a price is put by hand
\* "late"    Yahoo publishes a day after a later one
\* "delete"  instruments are deleted
\* "crash"   the backend or the worker dies
Behaviours == {"window", "manual", "late", "delete", "crash"}

ASSUME NavSyncAssumption ==
    /\ MaxDay \in Nat \ {0}
    /\ Behaviour \subseteq Behaviours
    /\ Caller \cap Run = {}
    /\ None \notin Instrument /\ None \notin Job /\ None \notin Int
    /\ None \notin {"YAHOO", "MANUAL"}
    /\ None \notin [ins : Instrument, status : {"RUNNING", "SUCCESS", "FAILED"},
                    got : SUBSET (1..MaxDay)]

Day    == 1..MaxDay
Syncer == Caller \cup Run

VARIABLES
    today,        \* the UTC date
    published,    \* the days for which Yahoo has a valid close
    instruments,  \* rows of the table instruments
    cached,       \* the instruments whose external_ids hold a yahoo_ticker
    nav,          \* the table nav_prices: the source of each price, or None
    jobs,         \* the table sync_jobs: a row, or None, for each id
    pc,           \* the next step of each syncer
    todo,         \* the instruments a syncer has still to take
    cur,          \* the instrument it is at
    opts,         \* the dates the client asked for
    job,          \* the audit row of a backend attempt
    range,        \* fromDate and effectiveToDate, once computed
    points,       \* the days of the prices that were fetched
    outcome       \* status and stored days of the attempt, before it is audited

world == <<today, published>>
local == <<pc, todo, cur, opts, job, range, points, outcome>>
vars  == <<today, published, instruments, cached, nav, jobs, local>>

Status  == {"RUNNING", "SUCCESS", "FAILED"}
Steps   == {"idle", "next", "resolve", "from", "fetch", "store", "close"}
Options == [lo : Day \cup {None}, hi : Day \cup {None}]
Default == [lo |-> None, hi |-> None]
NoRange == [lo |-> 1, hi |-> 0]
JobRow  == [ins : Instrument, status : Status, got : SUBSET Day]
Outcome == [status : Status, got : SUBSET Day]
Running == [status |-> "RUNNING", got |-> {}]

Stored(i) == {d \in Day : nav[i][d] # None}

\* Mutant of IsNextDay: one day too many is added to the latest.
IsNextDayButOne(i, d) ==
    IF Stored(i) = {} THEN d = 1
    ELSE d - 2 \in Stored(i) /\ \A e \in Stored(i) : e < d - 1

\* d is the day after the latest stored price, or the first day of all.
IsNextDay(i, d) ==
    IF Stored(i) = {} THEN d = 1
    ELSE d - 1 \in Stored(i) /\ \A e \in Stored(i) : e < d

\* A fresh uuid: not the id of a row, nor of one that a request still holds.
FreeJobs == {j \in Job : jobs[j] = None /\ \A s \in Syncer : job[s] # j}

\* Runs that are at an instrument and will insert a row for it.
Attempting == {w \in Run : pc[w] \notin {"idle", "next"}}

\* A bound of the model: no attempt is begun without a row left for it.
RoomForJob == Cardinality(Attempting) < Cardinality(FreeJobs)

--------------------------------------------------------------------------------
Init ==
    /\ today = 1
    /\ published = [i \in Instrument |-> {}]
    /\ instruments = Instrument
    /\ cached = {}
    /\ nav = [i \in Instrument |-> [d \in Day |-> None]]
    /\ jobs = [j \in Job |-> None]
    /\ pc = [s \in Syncer |-> "idle"]
    /\ todo = [s \in Syncer |-> {}]
    /\ cur = [s \in Syncer |-> None]
    /\ opts = [s \in Syncer |-> Default]
    /\ job = [s \in Syncer |-> None]
    /\ range = [s \in Syncer |-> NoRange]
    /\ points = [s \in Syncer |-> {}]
    /\ outcome = [s \in Syncer |-> Running]

--------------------------------------------------------------------------------
(* Beginnings and ends.                                                         *)

At(s, step) == pc[s] = step
GoTo(s, step) == pc' = [pc EXCEPT ![s] = step]

\* The request or the run is over; what it had not done is forgotten.
StopAll(S) ==
    /\ pc' = [s \in Syncer |-> IF s \in S THEN "idle" ELSE pc[s]]
    /\ todo' = [s \in Syncer |-> IF s \in S THEN {} ELSE todo[s]]
    /\ cur' = [s \in Syncer |-> IF s \in S THEN None ELSE cur[s]]
    /\ opts' = [s \in Syncer |-> IF s \in S THEN Default ELSE opts[s]]
    /\ job' = [s \in Syncer |-> IF s \in S THEN None ELSE job[s]]
    /\ range' = [s \in Syncer |-> IF s \in S THEN NoRange ELSE range[s]]
    /\ points' = [s \in Syncer |-> IF s \in S THEN {} ELSE points[s]]
    /\ outcome' = [s \in Syncer |-> IF s \in S THEN Running ELSE outcome[s]]

\* On to the next instrument, if one is left.
Proceed(s) ==
    IF todo[s] = {} THEN StopAll({s})
    ELSE /\ GoTo(s, "next")
         /\ cur' = [cur EXCEPT ![s] = None]
         /\ job' = [job EXCEPT ![s] = None]
         /\ range' = [range EXCEPT ![s] = NoRange]
         /\ points' = [points EXCEPT ![s] = {}]
         /\ outcome' = [outcome EXCEPT ![s] = Running]
         /\ UNCHANGED <<todo, opts>>

\* The attempt has succeeded or failed, with the prices of the days got stored.
Conclude(s, status, got) ==
    /\ GoTo(s, "close")
    /\ outcome' = [outcome EXCEPT ![s] = [status |-> status, got |-> got]]

AllowedOptions == IF "window" \in Behaviour THEN Options ELSE {Default}

\* POST instruments/:id/sync takes one instrument; POST sync/all and the job of
\* the worker take the instruments there are when they start.
StartSync(s, S, o) ==
    /\ At(s, "idle") /\ S # {} /\ S \subseteq instruments
    /\ Cardinality(S) > 1 => S = instruments
    /\ s \in Run => S = instruments /\ o = Default
    /\ todo' = [todo EXCEPT ![s] = S]
    /\ opts' = [opts EXCEPT ![s] = o]
    /\ GoTo(s, "next")
    /\ UNCHANGED <<world, instruments, cached, nav, jobs, cur, job, range, points, outcome>>

\* syncInstrument: findOneBy, then the insertion of the RUNNING row.  A ticker
\* that is not cached, or that the client wants refreshed, is looked up.
BeginJob(c, i, refresh) ==
    /\ c \in Caller /\ At(c, "next") /\ i \in todo[c]
    /\ i \in instruments /\ RoomForJob
    /\ \E j \in FreeJobs :
         /\ jobs' = [jobs EXCEPT ![j] = [ins |-> i, status |-> "RUNNING", got |-> {}]]
         /\ job' = [job EXCEPT ![c] = j]
    /\ cur' = [cur EXCEPT ![c] = i]
    /\ todo' = [todo EXCEPT ![c] = @ \ {i}]
    /\ GoTo(c, IF i \in cached /\ ~refresh THEN "from" ELSE "resolve")
    /\ UNCHANGED <<world, instruments, cached, nav, opts, range, points, outcome>>

\* An instrument that is gone: NotFoundException, thrown outside the try block,
\* ends the whole request.
BeginGone(c, i) ==
    /\ c \in Caller /\ At(c, "next") /\ i \in todo[c]
    /\ i \notin instruments
    /\ StopAll({c})
    /\ UNCHANGED <<world, instruments, cached, nav, jobs>>

\* run_nav_sync: _resolve_ticker reads the row of the instrument, if there is one.
BeginAttempt(w, i) ==
    /\ w \in Run /\ At(w, "next") /\ i \in todo[w]
    /\ RoomForJob
    /\ cur' = [cur EXCEPT ![w] = i]
    /\ todo' = [todo EXCEPT ![w] = @ \ {i}]
    /\ GoTo(w, IF i \in cached THEN "from" ELSE "resolve")
    /\ UNCHANGED <<world, instruments, cached, nav, jobs, opts, job, range, points, outcome>>

--------------------------------------------------------------------------------
(* The attempt: what both programs do.                                          *)

\* Yahoo knows the ISIN: the ticker is saved with the instrument, if it is there.
ResolveTicker(s) ==
    /\ At(s, "resolve")
    /\ cached' = cached \cup ({cur[s]} \cap instruments)
    /\ GoTo(s, "from")
    /\ UNCHANGED <<world, instruments, nav, jobs, todo, cur, opts, job, range, points, outcome>>

\* Mutant of ResolveFails: gives up without failJob.
ResolveFailsSilently(s) ==
    /\ At(s, "resolve")
    /\ Proceed(s)
    /\ UNCHANGED <<world, instruments, cached, nav, jobs>>

\* Yahoo does not know it, or does not answer in spite of the retries.
ResolveFails(s) ==
    /\ At(s, "resolve")
    /\ Conclude(s, "FAILED", {})
    /\ UNCHANGED <<world, instruments, cached, nav, jobs, todo, cur, opts, job, range, points>>

\* The dates to fetch: those asked for, or the day after the latest price stored
\* now, up to today.  Nothing is fetched for an empty range.
ReadLatest(s) ==
    /\ At(s, "from")
    /\ \E lo \in 1..MaxDay + 1 :
         LET hi == IF opts[s].hi = None THEN today ELSE opts[s].hi IN
         /\ IF opts[s].lo = None THEN IsNextDay(cur[s], lo) ELSE lo = opts[s].lo
         /\ range' = [range EXCEPT ![s] = [lo |-> lo, hi |-> hi]]
         /\ IF lo > hi THEN Conclude(s, "SUCCESS", {})
            ELSE GoTo(s, "fetch") /\ UNCHANGED outcome
    /\ UNCHANGED <<world, instruments, cached, nav, jobs, todo, cur, opts, job, points>>

Within(r) == r.lo..r.hi

\* Yahoo answers with the closes of the range; the days without a valid close
\* are dropped.  Nothing new is a success.
FetchHistory(s) ==
    LET fetched == published[cur[s]] \cap Within(range[s]) IN
    /\ At(s, "fetch")
    /\ points' = [points EXCEPT ![s] = fetched]
    /\ IF fetched = {} THEN Conclude(s, "SUCCESS", {})
       ELSE GoTo(s, "store") /\ UNCHANGED outcome
    /\ UNCHANGED <<world, instruments, cached, nav, jobs, todo, cur, opts, job, range>>

\* Mutant of FetchFails: a failed fetch is not audited.
FetchFailsUnaudited(s) ==
    /\ At(s, "fetch")
    /\ Proceed(s)
    /\ UNCHANGED <<world, instruments, cached, nav, jobs>>

FetchFails(s) ==
    /\ At(s, "fetch")
    /\ Conclude(s, "FAILED", {})
    /\ UNCHANGED <<world, instruments, cached, nav, jobs, todo, cur, opts, job, range, points>>

\* Mutant of StorePrices: the days from the first one fetched on are replaced.
StorePricesAnew(s) ==
    /\ At(s, "store") /\ cur[s] \in instruments
    /\ nav' = [nav EXCEPT ![cur[s]] =
                 [d \in Day |-> IF d \in points[s] THEN "YAHOO"
                               ELSE IF \E x \in points[s] : x < d THEN None ELSE @[d]]]
    /\ Conclude(s, "SUCCESS", points[s])
    /\ UNCHANGED <<world, instruments, cached, jobs, todo, cur, opts, job, range, points>>

\* INSERT ... ON CONFLICT (instrument_id, date) DO UPDATE, all days in one statement.
StorePrices(s) ==
    /\ At(s, "store") /\ cur[s] \in instruments
    /\ nav' = [nav EXCEPT ![cur[s]] =
                 [d \in Day |-> IF d \in points[s] THEN "YAHOO" ELSE @[d]]]
    /\ Conclude(s, "SUCCESS", points[s])
    /\ UNCHANGED <<world, instruments, cached, jobs, todo, cur, opts, job, range, points>>

\* The instrument is gone, or Yahoo gave two candles for a day, which one ON
\* CONFLICT statement does not accept: no price is stored.
StoreFails(s) ==
    /\ At(s, "store")
    /\ Conclude(s, "FAILED", {})
    /\ UNCHANGED <<world, instruments, cached, nav, jobs, todo, cur, opts, job, range, points>>

--------------------------------------------------------------------------------
(* The audit row.                                                               *)

Audited(s) == [ins |-> cur[s], status |-> outcome[s].status, got |-> outcome[s].got]

\* completeJob and failJob save the row that the backend began with.
CloseJob(c) ==
    /\ c \in Caller /\ At(c, "close") /\ jobs[job[c]] # None
    /\ jobs' = [jobs EXCEPT ![job[c]] = Audited(c)]
    /\ Proceed(c)
    /\ UNCHANGED <<world, instruments, cached, nav>>

\* The row went with its instrument: save inserts it again and violates the
\* foreign key, so does failJob in the catch block, and the request ends.
CloseGone(c) ==
    /\ c \in Caller /\ At(c, "close") /\ jobs[job[c]] = None
    /\ StopAll({c})
    /\ UNCHANGED <<world, instruments, cached, nav, jobs>>

\* _record_sync_job inserts the row of the worker's attempt ...
RecordJob(w) ==
    /\ w \in Run /\ At(w, "close") /\ cur[w] \in instruments
    /\ \E j \in FreeJobs : jobs' = [jobs EXCEPT ![j] = Audited(w)]
    /\ Proceed(w)
    /\ UNCHANGED <<world, instruments, cached, nav>>

\* ... and raises when the instrument is gone, outside the try block of the loop.
RecordFails(w) ==
    /\ w \in Run /\ At(w, "close") /\ cur[w] \notin instruments
    /\ StopAll({w})
    /\ UNCHANGED <<world, instruments, cached, nav, jobs>>

--------------------------------------------------------------------------------
(* Everything else that happens to the tables.                                  *)

NextDay ==
    /\ today < MaxDay
    /\ today' = today + 1
    /\ UNCHANGED <<published, instruments, cached, nav, jobs, local>>

\* Some days never have a price.
Publish(i, d) ==
    /\ d <= today /\ d \notin published[i]
    /\ "late" \in Behaviour \/ \A e \in published[i] : e < d
    /\ published' = [published EXCEPT ![i] = @ \cup {d}]
    /\ UNCHANGED <<today, instruments, cached, nav, jobs, local>>

\* POST instruments/:id/nav: each entry is a statement of its own.
PutPrice(i, d) ==
    /\ "manual" \in Behaviour /\ i \in instruments
    /\ nav' = [nav EXCEPT ![i][d] = "MANUAL"]
    /\ UNCHANGED <<world, instruments, cached, jobs, local>>

\* Mutant of DeleteInstrument: the audit rows do not go with the instrument.
DeleteInstrumentOnly(i) ==
    /\ "delete" \in Behaviour /\ i \in instruments
    /\ instruments' = instruments \ {i}
    /\ cached' = cached \ {i}
    /\ nav' = [nav EXCEPT ![i] = [d \in Day |-> None]]
    /\ UNCHANGED <<world, jobs, local>>

\* Prices and audit rows go with the instrument.
DeleteInstrument(i) ==
    /\ "delete" \in Behaviour /\ i \in instruments
    /\ instruments' = instruments \ {i}
    /\ cached' = cached \ {i}
    /\ nav' = [nav EXCEPT ![i] = [d \in Day |-> None]]
    /\ jobs' = [j \in Job |-> IF jobs[j] # None /\ jobs[j].ins = i THEN None ELSE jobs[j]]
    /\ UNCHANGED <<world, local>>

\* A new id: nothing refers to it.
CreateInstrument(i) ==
    /\ i \notin instruments
    /\ \A s \in Syncer : i \notin todo[s] /\ cur[s] # i
    /\ instruments' = instruments \cup {i}
    /\ UNCHANGED <<world, cached, nav, jobs, local>>

\* One of the two programs dies and is started again.
Crash(S) ==
    /\ "crash" \in Behaviour
    /\ \E s \in S : pc[s] # "idle"
    /\ StopAll(S)
    /\ UNCHANGED <<world, instruments, cached, nav, jobs>>

--------------------------------------------------------------------------------
Attempt(s) ==
    \/ ResolveTicker(s) \/ ResolveFails(s)
    \/ ReadLatest(s)
    \/ FetchHistory(s) \/ FetchFails(s)
    \/ StorePrices(s) \/ StoreFails(s)

Progress(s) ==
    \/ \E i \in Instrument, refresh \in BOOLEAN : BeginJob(s, i, refresh)
    \/ \E i \in Instrument : BeginGone(s, i) \/ BeginAttempt(s, i)
    \/ Attempt(s)
    \/ CloseJob(s) \/ CloseGone(s) \/ RecordJob(s) \/ RecordFails(s)

Environment ==
    \/ NextDay
    \/ \E i \in Instrument :
         \/ \E d \in Day : Publish(i, d) \/ PutPrice(i, d)
         \/ DeleteInstrument(i)
         \/ CreateInstrument(i)
    \/ Crash(Caller)
    \/ Crash(Run)

Next ==
    \/ \E s \in Syncer :
         \/ \E S \in SUBSET Instrument, o \in AllowedOptions : StartSync(s, S, o)
         \/ Progress(s)
    \/ Environment

Spec == Init /\ [][Next]_vars

\* Node and the worker run what they have begun; every HTTP call ends.
FairSpec == Spec /\ \A s \in Syncer : WF_vars(Progress(s))

--------------------------------------------------------------------------------
(* Properties.                                                                  *)

\* Type invariant: the tables hold rows of their types, a syncer is at an
\* instrument from the first step of an attempt to the last, and only the
\* backend holds an audit row.
TypeOK ==
    /\ today \in Day
    /\ published \in [Instrument -> SUBSET (1..today)]
    /\ instruments \subseteq Instrument
    /\ cached \subseteq instruments
    /\ nav \in [Instrument -> [Day -> {"YAHOO", "MANUAL", None}]]
    /\ jobs \in [Job -> JobRow \cup {None}]
    /\ pc \in [Syncer -> Steps]
    /\ todo \in [Syncer -> SUBSET Instrument]
    /\ cur \in [Syncer -> Instrument \cup {None}]
    /\ opts \in [Syncer -> Options]
    /\ job \in [Syncer -> Job \cup {None}]
    /\ range \in [Syncer -> [lo : 1..MaxDay + 1, hi : 0..MaxDay]]
    /\ points \in [Syncer -> SUBSET Day]
    /\ outcome \in [Syncer -> Outcome]
    /\ \A s \in Syncer : pc[s] \in {"idle", "next"} <=> cur[s] = None
    /\ \A s \in Syncer : job[s] # None <=> s \in Caller /\ cur[s] # None

\* Incremental syncs leave no hole: when a day is stored, so is every earlier
\* day that Yahoo publishes.  Each sync starts after the latest day that it
\* found, so what the others store meanwhile, in whatever order, must not make
\* it skip a day that will then never be fetched again.
NoGaps ==
    \A i \in Instrument : \A d \in published[i], e \in Stored(i) : d < e => d \in Stored(i)

\* An audit row that says SUCCESS says so of prices that are in the table.
SuccessIsStored ==
    \A j \in Job : jobs[j] # None /\ jobs[j].status = "SUCCESS" =>
        jobs[j].got \subseteq Stored(jobs[j].ins)

\* No audit row stays RUNNING for ever: it is closed, or goes with its instrument.
JobsSettle ==
    \A j \in Job :
        (jobs[j] # None /\ jobs[j].status = "RUNNING")
            ~> (jobs[j] = None \/ jobs[j].status # "RUNNING")

\* An attempt at an instrument that is still there when it ends leaves one audit
\* row that says how it ended: whatever failed, it is never skipped.
AttemptsAudited ==
    [][\A s \in Syncer : cur[s] # None /\ cur'[s] = None /\ cur[s] \in instruments' =>
         \E j \in Job : /\ IF s \in Caller THEN j = job[s] ELSE jobs[j] = None
                        /\ jobs'[j] # None /\ jobs'[j].ins = cur[s]
                        /\ jobs'[j].status = outcome[s].status
                        /\ jobs'[j].status # "RUNNING"]_vars

\* A request or a run that takes several instruments ends by itself only when it
\* has taken all of those that still exist.
SyncAllIsWhole ==
    [][\A s \in Syncer : pc[s] # "idle" /\ pc'[s] = "idle" =>
         todo[s] \cap instruments = {}]_vars

\* Incremental syncs implement PriceMirror: whatever requests and runs overlap,
\* fail or die, the stored days are those published up to some day, and each
\* statement that stores prices moves that day forward.
Mirror == INSTANCE PriceMirror WITH mirror <- [i \in Instrument |-> Stored(i)]

MirrorsPublished == Mirror!Spec

================================================================================
