-------------------------------- MODULE SyncAll --------------------------------
(***************************************************************************)
(* The buttons that synchronise all instruments (SyncAllButton.tsx): a     *)
(* loop in the browser that syncs one instrument after the other, with a   *)
(* row for each in a window that shows the progress.                       *)
(*                                                                         *)
(* The backend keeps the outcome of the last sync of each instrument and   *)
(* the mode it was made in.                                                *)
(***************************************************************************)
EXTENDS Browser

CONSTANT Instrument

VARIABLES habits, server, page, calls

Mode    == {"incremental", "force"}
Outcome == {"success", "partial", "failed"}
NoRows  == [i \in {} |-> None]

Fresh == [open |-> FALSE, loading |-> FALSE, rows |-> NoRows, fetchError |-> FALSE,
          mode |-> "incremental", confirmForce |-> FALSE, listed |-> None]

Openings ==
    {[server |-> [instruments |-> db, synced |-> [i \in Instrument |-> None]],
      page |-> Fresh, calls |-> <<>>] : db \in SUBSET Instrument}

Init == \E o \in Openings : server = o.server /\ page = o.page /\ calls = o.calls

--------------------------------------------------------------------------------
(* The backend, and answers.                                                    *)

\* An instrument that was deleted meanwhile is not found.
Serve(i) ==
    /\ Waiting(habits, calls, i)
    /\ LET c == calls[i] IN
       IF c.kind # "sync"
       THEN calls' = Served(calls, i, server.instruments) /\ UNCHANGED server
       ELSE IF c.about.instrument \notin server.instruments
       THEN calls' = Lost(calls, i) /\ UNCHANGED server
       ELSE \E outcome \in Outcome :
               /\ server' = [server EXCEPT !.synced[c.about.instrument] =
                                [outcome |-> outcome, mode |-> c.about.mode]]
               /\ calls' = Served(calls, i, outcome)
    /\ UNCHANGED <<habits, page>>

Lose(i) ==
    /\ "fail" \in habits
    /\ calls[i].status # "failed"
    /\ calls' = Lost(calls, i)
    /\ UNCHANGED <<habits, server, page>>

\* An instrument is deleted in another window.
DeleteInstrument(x) ==
    /\ x \in server.instruments
    /\ server' = [server EXCEPT !.instruments = @ \ {x}, !.synced[x] = None]
    /\ UNCHANGED <<habits, page, calls>>

Arrives(i, kind) ==
    /\ Arriving(habits, calls, i)
    /\ calls[i].kind = kind
    /\ UNCHANGED <<habits, server>>

Rest(i) == RemoveAt(calls, i)

Patched(rows, x, status) == [y \in DOMAIN rows |-> IF y = x THEN status ELSE rows[y]]

\* The next turn of a loop, which keeps its mode and what is left to do, or its end.
Continue(rows, mode, todo, cs) ==
    IF todo = <<>>
    THEN /\ page' = [page EXCEPT !.rows = rows, !.loading = FALSE]
         /\ calls' = Send(cs, "complete", None)
    ELSE /\ page' = [page EXCEPT !.rows = Patched(rows, Head(todo), "running")]
         /\ calls' = Send(cs, "sync", [instrument |-> Head(todo), mode |-> mode,
                                       todo |-> Tail(todo)])

\* Steps 1 and 2 of runSync: the instruments, each with a pending row.
ListArrives(i) ==
    /\ Arrives(i, "list")
    /\ IF Succeeds(calls[i]) /\ calls[i].answer # {}
       THEN Continue([x \in calls[i].answer |-> "pending"], calls[i].about,
                     Ordered(calls[i].answer), Rest(i))
       ELSE /\ page' = [page EXCEPT !.fetchError = TRUE, !.loading = FALSE]
            /\ calls' = Rest(i)

\* Mutant of Left: a call that fails ends the loop.
LeftIfSynced(c) == IF Succeeds(c) THEN c.about.todo ELSE <<>>

\* What a loop has left to do after a call: a failure is the end of one row only.
Left(c) == c.about.todo

SyncArrives(i) ==
    /\ Arrives(i, "sync")
    /\ LET c == calls[i] IN
       Continue(Patched(page.rows, c.about.instrument,
                        IF Succeeds(c) THEN c.answer ELSE "failed"),
                c.about.mode, Left(c), Rest(i))

\* onComplete of the page of strategies; its errors are swallowed.
CompleteArrives(i) ==
    /\ Arrives(i, "complete")
    /\ page' = IF Succeeds(calls[i]) THEN [page EXCEPT !.listed = calls[i].answer] ELSE page
    /\ calls' = Rest(i)

--------------------------------------------------------------------------------
(* The user.                                                                    *)

RunSync(mode, confirm) ==
    /\ page' = [page EXCEPT !.mode = mode, !.fetchError = FALSE, !.rows = NoRows, !.open = TRUE,
                            !.loading = TRUE, !.confirmForce = confirm]
    /\ calls' = Send(calls, "list", mode)
    /\ UNCHANGED <<habits, server>>

\* The buttons do nothing during a run.
MayStart == Len(calls) < MaxCalls /\ ~page.loading

\* The dialog of the other button does not keep the keyboard from this one.
Start ==
    /\ MayStart
    /\ page.confirmForce => "hasty" \in habits
    /\ RunSync("incremental", page.confirmForce)

AskForce ==
    /\ MayStart
    /\ ~page.confirmForce
    /\ page' = [page EXCEPT !.confirmForce = TRUE]
    /\ UNCHANGED <<habits, server, calls>>

\* The confirmation does not ask whether a run was started since.
ConfirmForce ==
    /\ Len(calls) < MaxCalls
    /\ page.confirmForce
    /\ RunSync("force", FALSE)

CancelForce ==
    /\ page.confirmForce
    /\ page' = [page EXCEPT !.confirmForce = FALSE]
    /\ UNCHANGED <<habits, server, calls>>

Close ==
    /\ page.open /\ ~page.loading
    /\ page' = [page EXCEPT !.open = FALSE]
    /\ UNCHANGED <<habits, server, calls>>

--------------------------------------------------------------------------------
Network(i) == Serve(i) \/ Lose(i) \/ ListArrives(i) \/ SyncArrives(i) \/ CompleteArrives(i)

User == Start \/ AskForce \/ ConfirmForce \/ CancelForce \/ Close

Next ==
    \/ \E i \in DOMAIN calls : Network(i)
    \/ \E x \in Instrument : DeleteInstrument(x)
    \/ User

--------------------------------------------------------------------------------
(* Properties.                                                                  *)

\* When a run is over, each of its rows says how its sync ended, and in the mode
\* that was chosen, also when calls failed and instruments were deleted on the
\* way; while it goes on one sync is under way and its row is the one that is
\* running.  Left out is a hasty user, who can start a second run behind the
\* dialog of the first.
SyncReportsAll ==
    "hasty" \notin habits =>
    LET syncs == {i \in DOMAIN calls : calls[i].kind = "sync"} IN
    /\ Cardinality(syncs) <= 1
    /\ {x \in DOMAIN page.rows : page.rows[x] = "running"}
          = {calls[i].about.instrument : i \in syncs}
    /\ ~page.loading => \A x \in DOMAIN page.rows :
          /\ page.rows[x] \in Outcome
          /\ "fail" \notin habits /\ x \in server.instruments =>
                server.synced[x] = [outcome |-> page.rows[x], mode |-> page.mode]
================================================================================
