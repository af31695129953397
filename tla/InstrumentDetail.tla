--------------------------- MODULE InstrumentDetail ----------------------------
(***************************************************************************)
(* The page of an instrument (InstrumentDetail.tsx): its prices, the form  *)
(* that adds one, the button that syncs it (SyncButton.tsx) and the list   *)
(* of its sync jobs (SyncJobHistory.tsx).                                  *)
(*                                                                         *)
(* A price is where it comes from; the jobs are their number.              *)
(***************************************************************************)
EXTENDS Browser

CONSTANTS
    Day,
    MaxJobs  \* bound on the jobs

VARIABLES habits, server, page, calls

Prices == [Day -> {None, "manual", "yahoo"}]

\* The history is None until it was loaded; the jobs are 0 when they cannot be.
Fresh == [
    loading |-> TRUE, error |-> FALSE, history |-> None, saving |-> FALSE,
    sync |-> "idle", jobs |-> 0, jobsLoading |-> FALSE]

Openings ==
    {[server |-> [prices |-> ps, jobs |-> 0], page |-> Fresh,
      calls |-> Send(<<>>, "load", None)] : ps \in Prices}

Init == \E o \in Openings : server = o.server /\ page = o.page /\ calls = o.calls

Usable == ~page.loading /\ ~page.error

--------------------------------------------------------------------------------
(* The backend.                                                                 *)

Serve(i) ==
    /\ Waiting(habits, calls, i)
    /\ LET c == calls[i] IN
       \/ /\ c.kind \in {"load", "history"}
          /\ calls' = Served(calls, i, server.prices)
          /\ UNCHANGED server
       \/ /\ c.kind = "jobs"
          /\ calls' = Served(calls, i, server.jobs)
          /\ UNCHANGED server
       \/ /\ c.kind = "add"
          /\ server' = [server EXCEPT !.prices[c.about] = "manual"]
          /\ calls' = Served(calls, i, None)
       \/ /\ c.kind = "sync"
          /\ \E fetched \in SUBSET Day, status \in {"SUCCESS", "FAILED"} :
                /\ status = "FAILED" => fetched = {}
                /\ server' = [prices |-> [d \in Day |-> IF d \in fetched THEN "yahoo"
                                                        ELSE server.prices[d]],
                              jobs |-> server.jobs + 1]
                /\ calls' = Served(calls, i, status)
    /\ UNCHANGED <<habits, page>>

Lose(i) ==
    /\ "fail" \in habits
    /\ calls[i].status # "failed"
    /\ calls' = Lost(calls, i)
    /\ UNCHANGED <<habits, server, page>>

--------------------------------------------------------------------------------
(* Answers.                                                                     *)

Arrives(i, kind) ==
    /\ Arriving(habits, calls, i)
    /\ calls[i].kind = kind
    /\ UNCHANGED <<habits, server>>

Rest(i) == RemoveAt(calls, i)

\* The jobs are first asked for when the page is there.
LoadArrives(i) ==
    /\ Arrives(i, "load")
    /\ IF Succeeds(calls[i])
       THEN /\ page' = [page EXCEPT !.loading = FALSE, !.history = calls[i].answer,
                                    !.jobsLoading = TRUE]
            /\ calls' = Send(Rest(i), "jobs", None)
       ELSE /\ page' = [page EXCEPT !.loading = FALSE, !.error = TRUE]
            /\ calls' = Rest(i)

JobsArrive(i) ==
    /\ Arrives(i, "jobs")
    /\ page' = [page EXCEPT !.jobsLoading = FALSE,
                            !.jobs = IF Succeeds(calls[i]) THEN calls[i].answer ELSE 0]
    /\ calls' = Rest(i)

\* handleAddNav asks for the history, handleSyncSuccess too.
AddArrives(i) ==
    /\ Arrives(i, "add")
    /\ IF Succeeds(calls[i])
       THEN calls' = Send(Rest(i), "history", [after |-> "add"]) /\ UNCHANGED page
       ELSE calls' = Rest(i) /\ page' = [page EXCEPT !.saving = FALSE]

\* What handleSyncSuccess falls back on is the history of the render it was called in.
SyncArrives(i) ==
    /\ Arrives(i, "sync")
    /\ LET successful == Succeeds(calls[i]) /\ calls[i].answer = "SUCCESS" IN
       /\ page' = [page EXCEPT !.sync = IF successful THEN "done" ELSE "error"]
       /\ calls' = IF successful THEN Send(Rest(i), "history", calls[i].about) ELSE Rest(i)

\* Mutant of AfterHistory: a sync does not load the jobs again.
AfterHistoryOnly(c, cs) == cs

\* After a sync, syncRefreshKey has the jobs loaded again.
AfterHistory(c, cs) == IF c.about.after = "add" THEN cs ELSE Send(cs, "jobs", None)

HistoryArrives(i) ==
    /\ Arrives(i, "history")
    /\ LET c == calls[i]
           fallback == IF c.about.after = "add" THEN page.history ELSE c.about.history
       IN /\ page' = [page EXCEPT !.history = IF Succeeds(c) THEN c.answer ELSE fallback,
                                  !.saving = @ /\ c.about.after # "add",
                                  !.jobsLoading = @ \/ c.about.after # "add"]
          /\ calls' = AfterHistory(c, Rest(i))

--------------------------------------------------------------------------------
(* The user.                                                                    *)

UserChanges == Usable /\ Changes(habits, calls) /\ UNCHANGED <<habits, server>>

AddNav(d) ==
    /\ UserChanges
    /\ ~page.saving
    /\ page' = [page EXCEPT !.saving = TRUE]
    /\ calls' = Send(calls, "add", d)

Sync ==
    /\ UserChanges
    /\ page.sync # "loading"
    /\ server.jobs < MaxJobs
    /\ page' = [page EXCEPT !.sync = "loading"]
    /\ calls' = Send(calls, "sync", [after |-> "sync", history |-> page.history])

--------------------------------------------------------------------------------
Network(i) ==
    \/ Serve(i) \/ Lose(i)
    \/ LoadArrives(i) \/ JobsArrive(i) \/ AddArrives(i) \/ SyncArrives(i) \/ HistoryArrives(i)

User == (\E d \in Day : AddNav(d)) \/ Sync

Next == (\E i \in DOMAIN calls : Network(i)) \/ User

--------------------------------------------------------------------------------
(* Properties.                                                                  *)

\* A price can be added while a sync goes on, and a sync started while a price
\* is added: when all is answered the page has all the prices, and all the jobs
\* unless the last sync failed, after which the list of jobs is not loaded.
\* Left out are histories that overtake each other, and failing calls.
HistoryAtRest ==
    /\ Usable /\ calls = <<>>
    /\ habits \cap {"reorder", "fail"} = {}
    =>  /\ page.history = server.prices
        /\ ~page.saving /\ ~page.jobsLoading
        /\ page.jobs = server.jobs \/ page.sync = "error"
================================================================================
