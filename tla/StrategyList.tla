----------------------------- MODULE StrategyList ------------------------------
(***************************************************************************)
(* The page of strategies (StrategyList.tsx): the templates and the        *)
(* instruments, the form of a template (TemplateFormModal.tsx), and the    *)
(* import and export of both (ImportExportModal.tsx).  The charts of the   *)
(* templates are in TemplateChart, the button that syncs all in SyncAll.   *)
(*                                                                         *)
(* A template is its id and a content, an instrument its id.               *)
(***************************************************************************)
EXTENDS Browser

CONSTANTS Template, Content, Instrument

VARIABLES habits, server, page, calls

Deleted == "deleted"
Table   == {"templates", "instruments"}
Stored(db) == {t \in Template : db[t] \notin {None, Deleted}}
Unused(db) == {t \in Template : db[t] = None}

Fresh == [
    templates |-> [t \in {} |-> None], instruments |-> {},
    loading |-> Table, error |-> {}, modal |-> None,
    dialog |-> [k \in Table |-> "closed"]]

FirstCalls == Send(Send(<<>>, "instruments", None), "templates", None)

Openings ==
    {[server |-> [templates |-> ts, instruments |-> is], page |-> Fresh, calls |-> FirstCalls] :
        ts \in [Template -> Content \cup {None}], is \in SUBSET Instrument}

Init == \E o \in Openings : server = o.server /\ page = o.page /\ calls = o.calls

\* The page is a spinner until both tables are there.
Usable == page.loading = {}

--------------------------------------------------------------------------------
(* The backend.                                                                 *)

Reads(i) ==
    /\ calls[i].kind \in Table \cup {"export"}
    /\ calls' = Served(calls, i,
          CASE calls[i].kind = "templates" ->
                  [t \in Stored(server.templates) |-> server.templates[t]]
            [] calls[i].kind = "instruments" -> server.instruments
            [] OTHER -> None)
    /\ UNCHANGED server

\* A template is created under a new id; of one that is gone nothing is changed.
Writes(i) ==
    LET c == calls[i] IN
    \/ /\ c.kind = "create"
       /\ \E t \in Unused(server.templates) :
             /\ server' = [server EXCEPT !.templates[t] = c.about.content]
             /\ calls' = Served(calls, i, [id |-> t, content |-> c.about.content])
    \/ /\ c.kind \in {"edit", "delete"}
       /\ IF c.about.id \in Stored(server.templates)
          THEN /\ server' = [server EXCEPT !.templates[c.about.id] =
                                IF c.kind = "edit" THEN c.about.content ELSE Deleted]
               /\ calls' = Served(calls, i, [id |-> c.about.id, content |-> c.about.content])
          ELSE calls' = Lost(calls, i) /\ UNCHANGED server
    \/ /\ c.kind = "import" /\ c.about = "templates"
       /\ \E new \in [Unused(server.templates) -> Content \cup {None}] :
             server' = [server EXCEPT !.templates =
                 [t \in Template |-> IF t \in DOMAIN new THEN new[t] ELSE server.templates[t]]]
       /\ calls' = Served(calls, i, None)
    \/ /\ c.kind = "import" /\ c.about = "instruments"
       /\ \E new \in SUBSET Instrument :
             server' = [server EXCEPT !.instruments = server.instruments \cup new]
       /\ calls' = Served(calls, i, None)

Serve(i) ==
    /\ Waiting(habits, calls, i)
    /\ Reads(i) \/ Writes(i)
    /\ UNCHANGED <<habits, page>>

Lose(i) ==
    /\ "fail" \in habits
    /\ calls[i].status # "failed"
    /\ calls' = Lost(calls, i)
    /\ UNCHANGED <<habits, server, page>>

--------------------------------------------------------------------------------
(* Answers.                                                                     *)

Arrives(i, kinds) ==
    /\ Arriving(habits, calls, i)
    /\ calls[i].kind \in kinds
    /\ UNCHANGED <<habits, server>>

Rest(i) == RemoveAt(calls, i)

\* loadTemplates and loadInstruments: after a failure the table stays as it was.
TableArrives(i) ==
    /\ Arrives(i, Table)
    /\ LET k == calls[i].kind
           loaded == [page EXCEPT !.loading = page.loading \ {k}]
       IN page' = IF ~Succeeds(calls[i]) THEN [loaded EXCEPT !.error = page.error \cup {k}]
                  ELSE IF k = "templates"
                  THEN [loaded EXCEPT !.error = page.error \ {k}, !.templates = calls[i].answer]
                  ELSE [loaded EXCEPT !.error = page.error \ {k}, !.instruments = calls[i].answer]
    /\ calls' = Rest(i)

\* The call of a form that is closed no longer has a form.
Orphaned(cs) ==
    [i \in DOMAIN cs |-> IF cs[i].kind \in {"create", "edit"}
                         THEN [cs[i] EXCEPT !.about.form = FALSE] ELSE cs[i]]

\* Mutant of WithSaved: a template that is shown already is not replaced.
WithNew(shown, saved) ==
    [t \in DOMAIN shown \cup {saved.id} |-> IF t \in DOMAIN shown THEN shown[t] ELSE saved.content]

WithSaved(shown, saved) ==
    [t \in DOMAIN shown \cup {saved.id} |-> IF t = saved.id THEN saved.content ELSE shown[t]]

\* handleSaved closes whatever form or dialog is open.
SaveArrives(i) ==
    /\ Arrives(i, {"create", "edit"})
    /\ IF Succeeds(calls[i])
       THEN /\ page' = [page EXCEPT !.modal = None,
                                    !.templates = WithSaved(page.templates, calls[i].answer)]
            /\ calls' = Orphaned(Rest(i))
       ELSE /\ page' = IF calls[i].about.form THEN [page EXCEPT !.modal.working = FALSE] ELSE page
            /\ calls' = Rest(i)

\* handleDelete does not catch: after a failure its dialog is still there.
DeleteArrives(i) ==
    /\ Arrives(i, {"delete"})
    /\ IF Succeeds(calls[i])
       THEN /\ page' = [page EXCEPT !.modal = None,
                  !.templates = Restrict(page.templates, DOMAIN page.templates \ {calls[i].about.id})]
            /\ calls' = Orphaned(Rest(i))
       ELSE /\ page' = IF page.modal # None THEN [page EXCEPT !.modal.working = FALSE] ELSE page
            /\ calls' = Rest(i)

\* onImported: the table is loaded again, and the dialog does not wait for it.
ImportArrives(i) ==
    /\ Arrives(i, {"import"})
    /\ page' = [page EXCEPT !.dialog[calls[i].about] = "open"]
    /\ calls' = IF Succeeds(calls[i]) THEN Send(Rest(i), calls[i].about, None) ELSE Rest(i)

ExportArrives(i) ==
    /\ Arrives(i, {"export"})
    /\ page' = [page EXCEPT !.dialog[calls[i].about] = "open"]
    /\ calls' = Rest(i)

--------------------------------------------------------------------------------
(* The user.                                                                    *)

UserChooses == Usable /\ Chooses(habits, calls) /\ UNCHANGED <<habits, server>>
UserChanges == Usable /\ Changes(habits, calls) /\ UNCHANGED <<habits, server>>

OpenModal(type, t) ==
    /\ UserChooses
    /\ page.modal = None
    /\ IF type = "create" THEN t = None ELSE t \in DOMAIN page.templates
    /\ page' = [page EXCEPT !.modal = [type |-> type, id |-> t, working |-> FALSE]]
    /\ UNCHANGED calls

\* A form can be closed while it saves, the dialog of a deletion cannot.
CloseModal ==
    /\ UserChooses
    /\ page.modal # None
    /\ page.modal.working => page.modal.type # "delete" /\ "close" \in habits
    /\ page' = [page EXCEPT !.modal = None]
    /\ calls' = Orphaned(calls)

\* The form is sent when its weights add up.
Submit(c) ==
    /\ UserChanges
    /\ page.modal # None
    /\ ~page.modal.working
    /\ page.modal.type = "delete" <=> c = None
    /\ page' = [page EXCEPT !.modal.working = TRUE]
    /\ calls' = Send(calls, page.modal.type, [id |-> page.modal.id, content |-> c, form |-> TRUE])

OpenOrCloseDialog(k) ==
    /\ UserChooses
    /\ page.dialog[k] # "working"
    /\ page' = [page EXCEPT !.dialog[k] = IF @ = "open" THEN "closed" ELSE "open"]
    /\ UNCHANGED calls

Transfer(kind, k) ==
    /\ UserChanges
    /\ page.dialog[k] = "open"
    /\ page' = [page EXCEPT !.dialog[k] = "working"]
    /\ calls' = Send(calls, kind, k)

--------------------------------------------------------------------------------
Network(i) ==
    \/ Serve(i) \/ Lose(i)
    \/ TableArrives(i) \/ SaveArrives(i) \/ DeleteArrives(i)
    \/ ImportArrives(i) \/ ExportArrives(i)

User ==
    \/ \E type \in {"create", "edit", "delete"}, t \in Template \cup {None} : OpenModal(type, t)
    \/ CloseModal
    \/ \E c \in Content \cup {None} : Submit(c)
    \/ \E k \in Table : OpenOrCloseDialog(k)
    \/ \E kind \in {"import", "export"}, k \in Table : Transfer(kind, k)

Next == (\E i \in DOMAIN calls : Network(i)) \/ User

--------------------------------------------------------------------------------
(* Properties.                                                                  *)

\* The templates are patched with the answer of each form and loaded again after
\* imports only; when all is answered the page has the templates and instruments
\* of the database, also when forms are closed while they are saved and other
\* ones opened.  Left out are users who change something before the last change
\* is answered, and failures.
TablesFollow ==
    /\ Usable /\ calls = <<>>
    /\ habits \cap {"multitask", "fail"} = {}
    =>  /\ page.templates = [t \in Stored(server.templates) |-> server.templates[t]]
        /\ page.instruments = server.instruments
================================================================================
