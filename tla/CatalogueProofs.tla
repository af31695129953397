---------------------------- MODULE CatalogueProofs ----------------------------
(***************************************************************************)
(* The weights of a template add up to the whole, for any number of        *)
(* templates, instruments, codes and requests, in any interleaving with    *)
(* failures, deadlocks and crashes, unless updates overlapped or an        *)
(* instrument of it was deleted; and they never add up to less than the    *)
(* whole unless an instrument was deleted.                                 *)
(***************************************************************************)
EXTENDS Catalogue, SumProofs, TLAPS

\* What a request knows at each step: the items it is to insert, and the code
\* that it found or was given, for as long as it may have to write one.
Planned ==
    \A r \in Request :
        /\ pc[r] \in {"delete", "wait", "insert"} => plan[r].put # None
        /\ pc[r] = "reload" => plan[r].code # None /\ plan[r].mode = "none"
        /\ pc[r] # "idle" /\ plan[r].mode # "none" => plan[r].code # None

TypeInv == TypeOK /\ Planned

\* A request in flight has a target and a plan.
LEMMA InFlightPlan ==
  ASSUME TypeOK, NEW r \in Request, pc[r] # "idle"
  PROVE  plan[r] \in Plan /\ target[r] \in Template
  BY DEF TypeOK

LEMMA InitType ==
  ASSUME Init
  PROVE  TypeInv
  BY ConstantsAssumption
  DEF Init, TypeInv, TypeOK, Planned, NoItems, NoItem, ItemSet, Funds, Steps, Flaw

\* The local state of the requests, after a step that leaves the tables alone.
LEMMA LocalType ==
  ASSUME TypeInv, UNCHANGED <<tables, flaw>>,
         pc' \in [Request -> Steps], target' \in [Request -> Template \cup {None}],
         plan' \in [Request -> Plan \cup {None}], rows' \in [Request -> SUBSET Instrument],
         \A r \in Request : pc'[r] = "idle" <=> target'[r] = None,
         \A r \in Request : target'[r] = None <=> plan'[r] = None
  PROVE  TypeOK'
  BY DEF TypeInv, TypeOK, tables, Funds

\* A request that ends and writes nothing.
LEMMA FinishLocal ==
  ASSUME NEW r \in Request, TypeInv, Finish(r)
  PROVE  /\ pc' \in [Request -> Steps] /\ target' \in [Request -> Template \cup {None}]
         /\ plan' \in [Request -> Plan \cup {None}]
         /\ \A q \in Request : pc'[q] = "idle" <=> target'[q] = None
         /\ \A q \in Request : target'[q] = None <=> plan'[q] = None
         /\ Planned'
  BY ConstantsAssumption DEF Finish, TypeInv, TypeOK, Planned, Steps

LEMMA AnswerType ==
  ASSUME NEW r \in Request, TypeInv, Answer(r), UNCHANGED <<tables, flaw>>
  PROVE  TypeInv'
<1>1. rows' \in [Request -> SUBSET Instrument]
  BY DEF Answer, TypeInv, TypeOK
<1>. QED BY <1>1, FinishLocal, LocalType DEF Answer, TypeInv

\* A request that goes on to another of its steps with the plan it has.
LEMMA StepType ==
  ASSUME NEW r \in Request, NEW step \in Steps \ {"idle", "reload"}, TypeInv, pc[r] # "idle",
         step \in {"delete", "wait", "insert"} => plan[r].put # None,
         pc' = [pc EXCEPT ![r] = step], rows' \in [Request -> SUBSET Instrument],
         UNCHANGED <<tables, target, plan, flaw>>
  PROVE  TypeInv'
<1>1. pc' \in [Request -> Steps] /\ Planned'
  BY DEF TypeInv, TypeOK, Planned
<1>2. \A q \in Request : pc'[q] = "idle" <=> pc[q] = "idle"
  BY DEF TypeInv, TypeOK
<1>3. TypeOK'
  BY <1>1, <1>2, LocalType DEF TypeInv, TypeOK
<1>. QED BY <1>1, <1>3 DEF TypeInv

LEMMA EnterType ==
  ASSUME NEW r \in Request, NEW t \in Template, NEW step \in {"reload", "remove"},
         NEW p \in Plan, TypeInv, pc[r] = "idle", Enter(r, t, step, p),
         p.mode = "none", step = "reload" => p.code # None,
         rows' \in [Request -> SUBSET Instrument], UNCHANGED <<tables, flaw>>
  PROVE  TypeInv'
<1> USE ConstantsAssumption
<1>1. \A q \in Request \ {r} : target[q] = t =>
        /\ plan[q] \in Plan /\ plan'[q] \in Plan
        /\ plan'[q].put = plan[q].put /\ plan'[q].code = plan[q].code
        /\ plan'[q].mode = plan[q].mode
  <2> SUFFICES ASSUME NEW q \in Request \ {r}, target[q] = t
               PROVE  /\ plan[q] \in Plan /\ plan'[q] \in Plan
                      /\ plan'[q].put = plan[q].put /\ plan'[q].code = plan[q].code
                      /\ plan'[q].mode = plan[q].mode
    OBVIOUS
  <2>1. plan[q] \in Plan
    BY DEF TypeInv, TypeOK
  <2>2. plan'[q] = [plan[q] EXCEPT !.alone = FALSE]
    BY DEF Enter
  <2>. QED BY <2>1, <2>2 DEF Plan
<1>2. \A q \in Request \ {r} : target[q] # t => plan'[q] = plan[q]
  BY DEF Enter
<1>3. /\ pc'[r] = step /\ target'[r] = t /\ plan'[r] = p
      /\ \A q \in Request \ {r} : pc'[q] = pc[q] /\ target'[q] = target[q]
  BY DEF Enter, TypeInv, TypeOK
<1>4. plan' \in [Request -> Plan \cup {None}]
  <2>1. \A q \in Request : plan'[q] \in Plan \cup {None}
    BY <1>1, <1>2, <1>3 DEF TypeInv, TypeOK
  <2>. QED BY <2>1 DEF Enter
<1>5. /\ pc' \in [Request -> Steps] /\ target' \in [Request -> Template \cup {None}]
  BY DEF Enter, TypeInv, TypeOK, Steps
<1>6. /\ \A q \in Request : pc'[q] = "idle" <=> target'[q] = None
      /\ \A q \in Request : target'[q] = None <=> plan'[q] = None
  BY <1>1, <1>2, <1>3 DEF TypeInv, TypeOK
<1>7. Planned'
  BY <1>1, <1>2, <1>3 DEF TypeInv, Planned
<1>. QED BY <1>4, <1>5, <1>6, <1>7, LocalType DEF TypeInv

\* PUT templates/:id up to the end of em.save, and DELETE templates/:id up to the
\* row lock: nothing is written yet.
LEMMA StartType ==
  ASSUME NEW r \in Request, NEW t \in Template, TypeInv,
         \/ \E code \in Code \cup {None}, put \in ItemSet \cup {None} :
               UpdateFind(r, t, code, put)
         \/ RemoveFind(r, t)
  PROVE  TypeInv'
<1> USE ConstantsAssumption
<1>1. ASSUME NEW code \in Code \cup {None}, NEW put \in ItemSet \cup {None},
             UpdateFind(r, t, code, put)
      PROVE  TypeInv'
  <2> DEFINE p == [code |-> IF code = None THEN templates[t] ELSE code, known |-> items[t],
                   put |-> put, mode |-> "none", flaw |-> flaw[t],
                   alone |-> put # None /\ InFlight(t) = {}]
  <2>1. (put # None /\ InFlight(t) = {}) \in BOOLEAN
    OBVIOUS
  <2>2. p \in Plan /\ p.code # None /\ p.mode = "none"
    BY <1>1, <2>1 DEF UpdateFind, Plan, Mode, TypeInv, TypeOK
  <2>3. rows' \in [Request -> SUBSET Instrument]
    BY <1>1 DEF UpdateFind, TypeInv, TypeOK, Funds
  <2>4. Enter(r, t, "reload", p)
    BY <1>1 DEF UpdateFind
  <2> HIDE DEF p
  <2>. QED BY <1>1, <2>2, <2>3, <2>4, EnterType DEF UpdateFind
<1>2. ASSUME RemoveFind(r, t)
      PROVE  TypeInv'
  <2> DEFINE p == [code |-> None, known |-> NoItems, put |-> None, mode |-> "none",
                   flaw |-> "none", alone |-> FALSE]
  <2>1. p \in Plan /\ p.mode = "none"
    BY DEF Plan, Mode, Flaw, ItemSet, NoItems
  <2>2. Enter(r, t, "remove", p)
    BY <1>2 DEF RemoveFind
  <2> HIDE DEF p
  <2>3. pc[r] = "idle" /\ rows' \in [Request -> SUBSET Instrument] /\ UNCHANGED <<tables, flaw>>
    BY <1>2 DEF RemoveFind, TypeInv, TypeOK
  <2>. QED BY <2>1, <2>2, <2>3, EnterType
<1>. QED BY <1>1, <1>2

LEMMA ReloadType ==
  ASSUME NEW r \in Request, TypeInv, Reload(r)
  PROVE  TypeInv'
<1> USE ConstantsAssumption
<1>1. /\ plan[r] \in Plan /\ plan[r].code # None /\ plan[r].mode = "none"
      /\ pc' = [pc EXCEPT ![r] = "write"] /\ UNCHANGED <<tables, target, flaw>>
  BY InFlightPlan DEF Reload, TypeInv, Planned
<1>2. /\ plan'[r] \in Plan
      /\ plan'[r].mode # "none" => plan'[r].code # None
      /\ \A q \in Request \ {r} : plan'[q] = plan[q]
  <2>1. \/ plan'[r] = [plan[r] EXCEPT !.mode = "insert"]
        \/ plan'[r] = [plan[r] EXCEPT !.mode = "update", !.known = NoItems, !.flaw = "none"]
        \/ plan'[r] = [plan[r] EXCEPT !.code = None, !.known = NoItems, !.flaw = "none"]
    BY DEF Reload, TypeInv, TypeOK
  <2>2. NoItems \in ItemSet
    BY DEF NoItems, ItemSet
  <2>3. \A q \in Request \ {r} : plan'[q] = plan[q]
    BY DEF Reload, TypeInv, TypeOK
  <2>4. CASE plan'[r] = [plan[r] EXCEPT !.mode = "insert"]
    BY <1>1, <2>3, <2>4 DEF Plan, Mode
  <2>5. CASE plan'[r] = [plan[r] EXCEPT !.mode = "update", !.known = NoItems, !.flaw = "none"]
    BY <1>1, <2>2, <2>3, <2>5 DEF Plan, Mode, Flaw
  <2>6. CASE plan'[r] = [plan[r] EXCEPT !.code = None, !.known = NoItems, !.flaw = "none"]
    BY <1>1, <2>2, <2>3, <2>6 DEF Plan, Mode, Flaw
  <2>. QED BY <2>1, <2>4, <2>5, <2>6
<1>3. pc[r] # "idle"
  BY DEF Reload
<1>4. /\ pc' \in [Request -> Steps] /\ target' \in [Request -> Template \cup {None}]
      /\ plan' \in [Request -> Plan \cup {None}] /\ rows' \in [Request -> SUBSET Instrument]
  <2>1. rows' \in [Request -> SUBSET Instrument]
    BY DEF Reload, TypeInv, TypeOK
  <2>2. \A q \in Request : plan'[q] \in Plan \cup {None}
    BY <1>2 DEF TypeInv, TypeOK
  <2>3. plan' \in [Request -> Plan \cup {None}]
    BY <2>2 DEF Reload, TypeInv, TypeOK
  <2>. QED BY <1>1, <2>1, <2>3 DEF TypeInv, TypeOK, Steps
<1>5. /\ \A q \in Request : pc'[q] = "idle" <=> target'[q] = None
      /\ \A q \in Request : target'[q] = None <=> plan'[q] = None
  BY <1>1, <1>2, <1>3 DEF TypeInv, TypeOK
<1>6. Planned'
  BY <1>1, <1>2 DEF TypeInv, TypeOK, Planned
<1>. QED BY <1>1, <1>4, <1>5, <1>6, LocalType DEF TypeInv

\* The steps of a request that leave the tables alone: it ends, or it goes on.
LEMMA QuietType ==
  ASSUME NEW r \in Request, TypeInv,
         \/ ReloadFails(r) \/ WriteNothing(r) \/ WriteMisses(r) \/ WriteFails(r)
         \/ DeleteBegins(r) \/ DeleteEnds(r) \/ InsertItemsFails(r) \/ RemoveTemplate(r)
         \/ Deadlock(r)
  PROVE  TypeInv'
<1>1. CASE Answer(r) /\ UNCHANGED <<tables, flaw>>
  BY <1>1, AnswerType
<1>2. CASE Abort(r)
  BY <1>2, AnswerType DEF Abort, Answer
<1>3. CASE DeleteBegins(r)
  <2>1. rows' \in [Request -> SUBSET Instrument]
    BY <1>3 DEF DeleteBegins, TypeInv, TypeOK, Funds
  <2>. QED BY <1>3, <2>1, StepType DEF DeleteBegins, TypeInv, Planned, Steps
<1>4. CASE DeleteEnds(r)
  <2>1. rows' \in [Request -> SUBSET Instrument]
    BY <1>4 DEF DeleteEnds, TypeInv, TypeOK
  <2>. QED BY <1>4, <2>1, StepType DEF DeleteEnds, At, TypeInv, Planned, Steps
<1>5. CASE WriteNothing(r) /\ ~Answer(r)
  <2>1. rows' \in [Request -> SUBSET Instrument]
    BY <1>5 DEF WriteNothing, TypeInv, TypeOK
  <2>. QED BY <1>5, <2>1, StepType DEF WriteNothing, At, Steps
<1>6. CASE RemoveTemplate(r) /\ ~Answer(r)
  <2>1. rows' \in [Request -> SUBSET Instrument]
    BY <1>6 DEF RemoveTemplate, TypeInv, TypeOK
  <2>. QED BY <1>6, <2>1, StepType DEF RemoveTemplate, At, Steps
<1>7. CASE WriteMisses(r) /\ ~Answer(r)
  <2> USE ConstantsAssumption
  <2>1. /\ plan[r] \in Plan /\ plan[r].put # None /\ pc[r] = "write"
        /\ plan' = [plan EXCEPT ![r] = [[plan[r] EXCEPT !.mode = "none"] EXCEPT !.code = None]]
        /\ pc' = [pc EXCEPT ![r] = "delete"] /\ UNCHANGED <<tables, target, rows, flaw>>
    <3>1. /\ pc[r] = "write" /\ plan[r].put # None
          /\ plan' = [plan EXCEPT ![r].mode = "none", ![r].code = None]
          /\ pc' = [pc EXCEPT ![r] = "delete"] /\ UNCHANGED <<tables, target, rows, flaw>>
      BY <1>7 DEF WriteMisses, At
    <3>2. plan[r] \in Plan
      BY <3>1, InFlightPlan DEF TypeInv
    <3>. QED BY <3>1, <3>2 DEF TypeInv, TypeOK
  <2>2. /\ plan'[r] \in Plan /\ plan'[r].put # None /\ plan'[r].mode = "none"
        /\ \A q \in Request \ {r} : plan'[q] = plan[q]
    BY <2>1 DEF Plan, Mode, TypeInv, TypeOK
  <2>3. \A q \in Request : plan'[q] \in Plan \cup {None}
    BY <2>2 DEF TypeInv, TypeOK
  <2>4. plan' \in [Request -> Plan \cup {None}]
    BY <2>1, <2>3 DEF TypeInv, TypeOK
  <2>5. /\ pc' \in [Request -> Steps] /\ target' \in [Request -> Template \cup {None}]
        /\ rows' \in [Request -> SUBSET Instrument]
    BY <2>1 DEF TypeInv, TypeOK, Steps
  <2>6. /\ \A q \in Request : pc'[q] = "idle" <=> target'[q] = None
        /\ \A q \in Request : target'[q] = None <=> plan'[q] = None
    BY <2>1, <2>2 DEF TypeInv, TypeOK
  <2>7. Planned'
    BY <2>1, <2>2 DEF TypeInv, TypeOK, Planned
  <2>. QED BY <2>1, <2>4, <2>5, <2>6, <2>7, LocalType DEF TypeInv
<1>. QED
  BY <1>1, <1>2, <1>3, <1>4, <1>5, <1>6, <1>7
  DEF ReloadFails, WriteNothing, WriteMisses, WriteFails, InsertItemsFails, RemoveTemplate, Deadlock

--------------------------------------------------------------------------------
(* The steps that write the tables.                                             *)

TablesType ==
    /\ instruments \subseteq Instrument
    /\ templates \in [Template -> Code \cup {None}]
    /\ items \in [Template -> ItemSet]
    /\ \A t \in Template : /\ Funds(items[t]) \subseteq instruments
                           /\ templates[t] = None => items[t] = NoItems
    /\ flaw \in [Template -> Flaw]

\* A request whose last step writes the tables.
LEMMA CommitType ==
  ASSUME NEW r \in Request, TypeInv, Finish(r), TablesType', rows' \in [Request -> SUBSET Instrument]
  PROVE  TypeInv'
  BY FinishLocal DEF TypeInv, TypeOK, TablesType

LEMMA WriteUpdateType ==
  ASSUME NEW r \in Request, TypeInv, WriteUpdate(r)
  PROVE  TypeInv'
<1> USE ConstantsAssumption
<1>1. /\ pc[r] = "write" /\ plan[r].mode = "update" /\ plan[r] \in Plan /\ target[r] \in Template
      /\ plan[r].code \in Code
  <2>1. pc[r] = "write" /\ plan[r].mode = "update"
    BY DEF WriteUpdate, At
  <2>2. plan[r] \in Plan /\ target[r] \in Template
    BY <2>1, InFlightPlan DEF TypeInv
  <2>. QED BY <2>1, <2>2 DEF TypeInv, Planned, Plan
<1>2. CASE Answer(r)
  <2>1. TablesType'
    BY <1>1 DEF WriteUpdate, TablesType, TypeInv, TypeOK, Funds
  <2>2. rows' \in [Request -> SUBSET Instrument] /\ Finish(r)
    BY <1>2 DEF Answer, TypeInv, TypeOK
  <2>. QED BY <2>1, <2>2, CommitType
<1>3. CASE ~Answer(r)
  <2>1. /\ pc' = [pc EXCEPT ![r] = "delete"] /\ plan[r].put # None
        /\ UNCHANGED <<tables, target, plan, rows, flaw>>
    BY <1>3 DEF WriteUpdate, tables
  <2>2. rows' \in [Request -> SUBSET Instrument]
    BY <2>1 DEF TypeInv, TypeOK
  <2>. QED BY <1>1, <2>1, <2>2, StepType DEF Steps
<1>. QED BY <1>2, <1>3

LEMMA WriteInsertType ==
  ASSUME NEW r \in Request, TypeInv, WriteInsert(r)
  PROVE  TypeInv'
<1> USE ConstantsAssumption
<1> DEFINE t == target[r]
           new == IF plan[r].put = None THEN plan[r].known ELSE plan[r].put
<1>1. plan[r] \in Plan /\ t \in Template /\ plan[r].code \in Code /\ new \in ItemSet
  <2>1. pc[r] = "write" /\ plan[r].mode = "insert"
    BY DEF WriteInsert, At
  <2>2. plan[r] \in Plan /\ target[r] \in Template
    BY <2>1, InFlightPlan DEF TypeInv
  <2>. QED BY <2>1, <2>2 DEF TypeInv, Planned, Plan
<1>2. Funds(new) \subseteq instruments
  BY DEF WriteInsert, InsertPossible
<1>3. /\ items' = [items EXCEPT ![t] = new] /\ templates' = [templates EXCEPT ![t] = plan[r].code]
      /\ flaw' \in [Template -> Flaw] /\ Answer(r) /\ UNCHANGED instruments
  BY <1>1 DEF WriteInsert, TypeInv, TypeOK, Flaw
<1>4. TablesType'
  <2> HIDE DEF new
  <2>. QED BY <1>1, <1>2, <1>3 DEF TablesType, TypeInv, TypeOK, Funds
<1>5. rows' \in [Request -> SUBSET Instrument] /\ Finish(r)
  BY <1>3 DEF Answer, TypeInv, TypeOK
<1>. QED BY <1>4, <1>5, CommitType

\* The items of a template after its INSERTs: the new ones, and those the DELETE
\* did not see.
LEMMA InsertItemsType ==
  ASSUME NEW r \in Request, TypeInv, InsertItems(r)
  PROVE  TypeInv'
<1> USE ConstantsAssumption
<1> DEFINE t == target[r]
           put == plan[r].put
           new == [i \in Instrument |-> IF put[i] # NoItem THEN put[i]
                                        ELSE IF i \in rows[r] THEN NoItem ELSE items[t][i]]
<1>1. /\ plan[r] \in Plan /\ t \in Template /\ put \in ItemSet
      /\ plan[r].mode = "update" => plan[r].code \in Code
  <2>1. pc[r] = "insert"
    BY DEF InsertItems, At
  <2>2. plan[r] \in Plan /\ target[r] \in Template
    BY <2>1, InFlightPlan DEF TypeInv
  <2>. QED BY <2>1, <2>2 DEF TypeInv, Planned, Plan
<1>2. templates[t] # None /\ Funds(put) \subseteq instruments
  BY DEF InsertItems, ItemsInsertable
<1>3. new \in ItemSet /\ Funds(new) \subseteq instruments
  BY <1>1, <1>2 DEF ItemSet, Funds, TypeInv, TypeOK
<1>4. /\ items' = [items EXCEPT ![t] = new] /\ UNCHANGED instruments /\ Finish(r)
      /\ templates' = [templates EXCEPT ![t] = IF plan[r].mode = "update" THEN plan[r].code ELSE @]
      /\ flaw' \in [Template -> Flaw] /\ rows' \in [Request -> SUBSET Instrument]
  BY <1>1 DEF InsertItems, ItemsGone, TypeInv, TypeOK, Flaw
<1>5. TablesType'
  <2> HIDE DEF new, t
  <2>1. templates' \in [Template -> Code \cup {None}] /\ templates'[t] # None
    BY <1>1, <1>2, <1>4 DEF TypeInv, TypeOK
  <2>2. \A u \in Template \ {t} : templates'[u] = templates[u] /\ items'[u] = items[u]
    BY <1>4 DEF TypeInv, TypeOK
  <2>3. items' \in [Template -> ItemSet] /\ items'[t] = new
    BY <1>1, <1>3, <1>4 DEF TypeInv, TypeOK
  <2>. QED BY <1>1, <1>3, <1>4, <2>1, <2>2, <2>3 DEF TablesType, TypeInv, TypeOK
<1>. QED BY <1>4, <1>5, CommitType

LEMMA RemoveItemsType ==
  ASSUME NEW r \in Request, TypeInv, RemoveItems(r)
  PROVE  TypeInv'
<1> USE ConstantsAssumption
<1>1. target[r] \in Template
  BY InFlightPlan DEF RemoveItems, At, TypeInv
<1>2. NoItems \in ItemSet /\ Funds(NoItems) = {}
  BY DEF NoItems, ItemSet, Funds
<1>3. /\ rows' \in [Request -> SUBSET Instrument] /\ Finish(r)
      /\ flaw' \in [Template -> Flaw]
  BY DEF RemoveItems, ItemsGone, TypeInv, TypeOK, Flaw
<1>4. TablesType'
  BY <1>1, <1>2, <1>3 DEF RemoveItems, TablesType, TypeInv, TypeOK
<1>. QED BY <1>3, <1>4, CommitType

\* Steps of nobody's request: its local state stays.
LEMMA OtherType ==
  ASSUME TypeInv, TablesType', UNCHANGED <<pc, target, plan>>,
         rows' \in [Request -> SUBSET Instrument]
  PROVE  TypeInv'
  BY DEF TypeInv, TypeOK, TablesType, Planned

LEMMA CreateType ==
  ASSUME TypeInv, NEW t \in Template, NEW code \in Code, NEW put \in ItemSet, Create(t, code, put)
  PROVE  TypeInv'
<1> USE ConstantsAssumption
<1>1. TablesType'
  BY DEF Create, TablesType, TypeInv, TypeOK, Flaw
<1>. QED BY <1>1, OtherType DEF Create, requests, TypeInv, TypeOK

LEMMA InstrumentType ==
  ASSUME TypeInv, NEW i \in Instrument, DeleteInstrument(i) \/ CreateInstrument(i)
  PROVE  TypeInv'
<1> USE ConstantsAssumption
<1>1. CASE DeleteInstrument(i)
  <2>1. /\ instruments' = instruments \ {i} /\ UNCHANGED <<templates, pc, target, plan>>
        /\ items' = [t \in Template |-> [items[t] EXCEPT ![i] = NoItem]]
        /\ rows' \in [Request -> SUBSET Instrument] /\ flaw' \in [Template -> Flaw]
    BY <1>1 DEF DeleteInstrument, TypeInv, TypeOK, Flaw
  <2>2. ASSUME NEW t \in Template
        PROVE  /\ items'[t] \in ItemSet /\ Funds(items'[t]) = Funds(items[t]) \ {i}
               /\ items[t] = NoItems => items'[t] = NoItems
    BY <2>1 DEF ItemSet, Funds, NoItems, TypeInv, TypeOK
  <2>3. TablesType'
    BY <2>1, <2>2 DEF TablesType, TypeInv, TypeOK
  <2>. QED BY <2>1, <2>3, OtherType
<1>2. CASE CreateInstrument(i)
  <2>1. TablesType'
    BY <1>2 DEF CreateInstrument, TablesType, TypeInv, TypeOK, Funds
  <2>. QED BY <1>2, <2>1, OtherType DEF CreateInstrument, requests, TypeInv, TypeOK
<1>. QED BY <1>1, <1>2

LEMMA CrashType ==
  ASSUME TypeInv, Crash
  PROVE  TypeInv'
  BY DEF Crash, TypeInv, TypeOK, Planned, tables, Steps, Funds

LEMMA ContinueType ==
  ASSUME NEW r \in Request, TypeInv, Continue(r)
  PROVE  TypeInv'
  BY ReloadType, QuietType, WriteUpdateType, WriteInsertType, InsertItemsType, RemoveItemsType
  DEF Continue

LEMMA NextType ==
  ASSUME TypeInv, [Next]_vars
  PROVE  TypeInv'
<1>1. CASE \E t \in Template, code \in Code, put \in ItemSet : Create(t, code, put)
  BY <1>1, CreateType
<1>2. CASE \E r \in Request, t \in Template :
             \/ \E code \in Code \cup {None}, put \in ItemSet \cup {None} :
                  UpdateFind(r, t, code, put)
             \/ RemoveFind(r, t)
  BY <1>2, StartType
<1>3. CASE \E r \in Request : Continue(r)
  BY <1>3, ContinueType
<1>4. CASE \E i \in Instrument : DeleteInstrument(i) \/ CreateInstrument(i)
  BY <1>4, InstrumentType
<1>5. CASE Crash
  BY <1>5, CrashType
<1>6. CASE UNCHANGED vars
  BY <1>6 DEF vars, TypeInv, TypeOK, Planned, Funds
<1>. QED BY <1>1, <1>2, <1>3, <1>4, <1>5, <1>6 DEF Next

\* The tables and the requests keep their types: no item outlives its template or
\* its instrument, whatever requests overlap, fail, deadlock or are cut off by a
\* crash of the backend.
THEOREM CatalogueTypeCorrect == Spec => []TypeOK
<1>1. Init => TypeInv
  BY InitType
<1>2. TypeInv /\ [Next]_vars => TypeInv'
  BY NextType
<1>3. TypeInv => TypeOK
  BY DEF TypeInv
<1>. QED BY <1>1, <1>2, <1>3, PTL DEF Spec

--------------------------------------------------------------------------------
(* The weights of a template.  What makes WeightsWhole inductive: the items a   *)
(* request will insert were validated, nobody else is about the template of a   *)
(* request that is alone, and such a request has locked every item there is     *)
(* before it inserts, so that its own items are all that remains.               *)

Pending ==
    \A r \in Request : pc[r] # "idle" =>
        /\ plan[r].put # None => ValidItems(plan[r].put)
        /\ plan[r].alone => \A q \in Request \ {r} : target[q] # target[r]
        /\ plan[r].alone /\ pc[r] \in {"wait", "insert"} =>
             Funds(items[target[r]]) \subseteq rows[r]

WholeInv == TypeInv /\ WeightsWhole /\ Pending

\* A request ends, after changes to the items of its own template at most.
LEMMA FinishPending ==
  ASSUME NEW r \in Request, TypeInv, Pending, pc[r] # "idle", Finish(r),
         \A u \in Template \ {target[r]} : items'[u] = items[u],
         \A q \in Request \ {r} : target[q] # target[r] => rows'[q] = rows[q]
  PROVE  Pending'
<1> USE ConstantsAssumption
<1>1. /\ pc'[r] = "idle" /\ target'[r] = None
      /\ \A q \in Request \ {r} :
           pc'[q] = pc[q] /\ target'[q] = target[q] /\ plan'[q] = plan[q]
  BY DEF Finish, TypeInv, TypeOK
<1>2. SUFFICES ASSUME NEW q \in Request, pc'[q] # "idle"
               PROVE  /\ plan'[q].put # None => ValidItems(plan'[q].put)
                      /\ plan'[q].alone => \A w \in Request \ {q} : target'[w] # target'[q]
                      /\ plan'[q].alone /\ pc'[q] \in {"wait", "insert"} =>
                           Funds(items'[target'[q]]) \subseteq rows'[q]
  BY DEF Pending, ValidItems, Funds, Sum
<1>3. q # r /\ pc[q] # "idle" /\ target[q] \in Template
  BY <1>1, <1>2, InFlightPlan DEF TypeInv
<1>4. plan[q].put # None => ValidItems(plan[q].put)
  BY <1>3 DEF Pending
<1>5. ASSUME plan[q].alone
      PROVE  /\ \A w \in Request \ {q} : target[w] # target[q]
             /\ target[q] # target[r] /\ rows'[q] = rows[q] /\ items'[target[q]] = items[target[q]]
             /\ pc[q] \in {"wait", "insert"} => Funds(items[target[q]]) \subseteq rows[q]
  BY <1>3, <1>5 DEF Pending
<1>6. plan[q].alone => \A w \in Request \ {q} : target'[w] # target'[q]
  BY <1>1, <1>3, <1>5
<1>. QED BY <1>1, <1>3, <1>4, <1>5, <1>6

\* A request goes on with the items it has, and the tables stay.
LEMMA StepPending ==
  ASSUME NEW r \in Request, TypeInv, Pending, pc[r] # "idle",
         UNCHANGED <<items, target>>,
         plan'[r].put = plan[r].put, plan'[r].alone = plan[r].alone,
         pc'[r] \in {"wait", "insert"} /\ plan[r].alone => Funds(items[target[r]]) \subseteq rows'[r],
         \A q \in Request \ {r} :
            pc'[q] = pc[q] /\ plan'[q] = plan[q] /\ rows'[q] = rows[q]
  PROVE  Pending'
<1>1. SUFFICES ASSUME NEW q \in Request, pc'[q] # "idle"
               PROVE  /\ plan'[q].put # None => ValidItems(plan'[q].put)
                      /\ plan'[q].alone => \A w \in Request \ {q} : target'[w] # target'[q]
                      /\ plan'[q].alone /\ pc'[q] \in {"wait", "insert"} =>
                           Funds(items'[target'[q]]) \subseteq rows'[q]
  BY DEF Pending, ValidItems, Funds, Sum
<1>2. CASE q = r
  BY <1>1, <1>2 DEF Pending
<1>3. CASE q # r
  BY <1>1, <1>3 DEF Pending
<1>. QED BY <1>2, <1>3

LEMMA TablesWhole ==
  ASSUME WeightsWhole, UNCHANGED <<items, flaw>>,
         \A t \in Template : templates'[t] # None => templates[t] # None
  PROVE  WeightsWhole'
  BY DEF WeightsWhole, ValidItems, Funds, Sum

LEMMA AnswerWhole ==
  ASSUME NEW r \in Request, WholeInv, pc[r] # "idle", Answer(r), UNCHANGED items
  PROVE  Pending'
<1>1. \A q \in Request \ {r} : target[q] # target[r] => rows'[q] = rows[q]
  BY DEF Answer, WholeInv, TypeInv, TypeOK
<1>. QED BY <1>1, FinishPending DEF Answer, WholeInv

\* The steps of a request in flight that leave the items alone.
LEMMA QuietWhole ==
  ASSUME NEW r \in Request, WholeInv,
         \/ Reload(r) \/ ReloadFails(r) \/ WriteNothing(r) \/ WriteUpdate(r) \/ WriteMisses(r)
         \/ WriteFails(r) \/ DeleteBegins(r) \/ DeleteEnds(r) \/ InsertItemsFails(r)
         \/ RemoveTemplate(r) \/ Deadlock(r)
  PROVE  WeightsWhole' /\ Pending'
<1> USE DEF WholeInv
<1>1. pc[r] # "idle" /\ plan[r] \in Plan /\ target[r] \in Template
  <2>1. pc[r] # "idle"
    BY DEF Reload, ReloadFails, WriteNothing, WriteUpdate, WriteMisses, WriteFails, At,
           DeleteBegins, DeleteEnds, InsertItemsFails, RemoveTemplate, Deadlock, Blockers
  <2>. QED BY <2>1, InFlightPlan DEF TypeInv
<1>2. WeightsWhole'
  <2>1. UNCHANGED <<items, flaw>>
    BY DEF Reload, ReloadFails, WriteNothing, WriteUpdate, WriteMisses, WriteFails, DeleteBegins,
           DeleteEnds, InsertItemsFails, RemoveTemplate, Deadlock, Abort, tables
  <2>2. ASSUME NEW t \in Template, templates'[t] # None
        PROVE  templates[t] # None
    <3>1. CASE WriteUpdate(r)
      BY <1>1, <2>2, <3>1 DEF WriteUpdate, TypeInv, TypeOK
    <3>2. CASE ~WriteUpdate(r)
      BY <2>2, <3>2
      DEF Reload, ReloadFails, WriteNothing, WriteMisses, WriteFails, DeleteBegins,
          DeleteEnds, InsertItemsFails, RemoveTemplate, Deadlock, Abort, tables
    <3>. QED BY <3>1, <3>2
  <2>. QED BY <2>1, <2>2, TablesWhole
<1>. SUFFICES Pending'
  BY <1>2
<1>3. CASE Answer(r) /\ UNCHANGED items
  BY <1>1, <1>3, AnswerWhole
<1>4. CASE Abort(r)
  BY <1>1, <1>4, AnswerWhole DEF Abort, Answer, tables
<1>5. CASE Reload(r)
  <2>1. \/ plan' = [plan EXCEPT ![r] = [plan[r] EXCEPT !.mode = "insert"]]
        \/ plan' = [plan EXCEPT ![r] =
                      [plan[r] EXCEPT !.mode = "update", !.known = NoItems, !.flaw = "none"]]
        \/ plan' = [plan EXCEPT ![r] =
                      [plan[r] EXCEPT !.code = None, !.known = NoItems, !.flaw = "none"]]
    BY <1>5 DEF Reload
  <2>2. plan'[r].put = plan[r].put /\ plan'[r].alone = plan[r].alone
    <3>1. \/ plan'[r] = [plan[r] EXCEPT !.mode = "insert"]
          \/ plan'[r] = [plan[r] EXCEPT !.mode = "update", !.known = NoItems, !.flaw = "none"]
          \/ plan'[r] = [plan[r] EXCEPT !.code = None, !.known = NoItems, !.flaw = "none"]
      BY <2>1 DEF TypeInv, TypeOK
    <3>. QED BY <1>1, <3>1 DEF Plan
  <2>3. /\ UNCHANGED <<items, target>> /\ pc'[r] = "write"
        /\ \A q \in Request \ {r} : pc'[q] = pc[q] /\ plan'[q] = plan[q] /\ rows'[q] = rows[q]
    BY <1>5, <2>1 DEF Reload, tables, TypeInv, TypeOK
  <2>. QED BY <1>1, <2>2, <2>3, StepPending
<1>6. CASE DeleteBegins(r) \/ DeleteEnds(r)
  <2>1. /\ UNCHANGED <<items, target, plan>>
        /\ \A q \in Request \ {r} : pc'[q] = pc[q] /\ rows'[q] = rows[q]
    BY <1>6 DEF DeleteBegins, DeleteEnds, tables, TypeInv, TypeOK
  <2>2. plan[r].alone => Funds(items[target[r]]) \subseteq rows'[r]
    BY <1>1, <1>6 DEF DeleteBegins, DeleteEnds, At, Pending, TypeInv, TypeOK
  <2>. QED BY <1>1, <2>1, <2>2, StepPending
<1>7. CASE (WriteNothing(r) \/ WriteUpdate(r) \/ RemoveTemplate(r)) /\ ~Answer(r)
  <2>1. /\ UNCHANGED <<items, target, plan, rows>> /\ pc'[r] \notin {"wait", "insert"}
        /\ \A q \in Request \ {r} : pc'[q] = pc[q]
    BY <1>7 DEF WriteNothing, WriteUpdate, RemoveTemplate, tables, TypeInv, TypeOK
  <2>. QED BY <1>1, <2>1, StepPending
<1>8. CASE WriteMisses(r) /\ ~Answer(r)
  <2>1. /\ plan' = [plan EXCEPT ![r].mode = "none", ![r].code = None]
        /\ pc' = [pc EXCEPT ![r] = "delete"] /\ UNCHANGED <<items, target, rows>>
    BY <1>8 DEF WriteMisses, tables
  <2>2. /\ plan'[r].put = plan[r].put /\ plan'[r].alone = plan[r].alone
        /\ \A q \in Request \ {r} : plan'[q] = plan[q]
    BY <1>1, <2>1 DEF TypeInv, TypeOK, Plan
  <2>. QED BY <1>1, <2>1, <2>2, StepPending DEF TypeInv, TypeOK
<1>. QED
  BY <1>1, <1>3, <1>4, <1>5, <1>6, <1>7, <1>8
  DEF ReloadFails, WriteNothing, WriteUpdate, WriteMisses, WriteFails, InsertItemsFails,
      RemoveTemplate, Deadlock, tables

\* A removed template that is stored again is flawed.
LEMMA WriteInsertWhole ==
  ASSUME NEW r \in Request, WholeInv, WriteInsert(r)
  PROVE  WeightsWhole' /\ Pending'
<1> USE DEF WholeInv
<1>1. pc[r] # "idle" /\ target[r] \in Template
  BY InFlightPlan DEF WriteInsert, At, TypeInv
<1>2. /\ flaw'[target[r]] # "none"
      /\ \A u \in Template \ {target[r]} :
           items'[u] = items[u] /\ templates'[u] = templates[u] /\ flaw'[u] = flaw[u]
  BY <1>1 DEF WriteInsert, TypeInv, TypeOK
<1>3. WeightsWhole'
  BY <1>2 DEF WeightsWhole, ValidItems, Funds, Sum
<1>4. Finish(r) /\ \A q \in Request \ {r} : rows'[q] = rows[q]
  BY DEF WriteInsert, Answer, TypeInv, TypeOK
<1>5. Pending'
  BY <1>1, <1>2, <1>4, FinishPending
<1>. QED BY <1>3, <1>5

\* The items that an update inserts when it is alone are all that the template has.
LEMMA InsertItemsWhole ==
  ASSUME NEW r \in Request, WholeInv, InsertItems(r)
  PROVE  WeightsWhole' /\ Pending'
<1> USE DEF WholeInv
<1> DEFINE t == target[r]
           put == plan[r].put
<1>1. /\ pc[r] = "insert" /\ t \in Template /\ put \in ItemSet /\ put # None
  <2>1. pc[r] = "insert"
    BY DEF InsertItems, At
  <2>2. plan[r] \in Plan /\ target[r] \in Template
    BY <2>1, InFlightPlan DEF TypeInv
  <2>. QED BY <2>1, <2>2 DEF TypeInv, Planned, Plan
<1>2. /\ items' = [items EXCEPT ![t] = [i \in Instrument |->
                     IF put[i] # NoItem THEN put[i]
                     ELSE IF i \in rows[r] THEN NoItem ELSE items[t][i]]]
      /\ flaw' = [flaw EXCEPT ![t] = IF plan[r].alone THEN "none" ELSE "mixed"]
      /\ \A u \in Template \ {t} : templates'[u] = templates[u]
  BY DEF InsertItems, TypeInv, TypeOK
<1>3. \A u \in Template \ {t} : items'[u] = items[u] /\ flaw'[u] = flaw[u]
  BY <1>2 DEF TypeInv, TypeOK
<1>4. ASSUME plan[r].alone
      PROVE  items'[t] = put
  <2>1. \A i \in Instrument : i \notin rows[r] => items[t][i] = NoItem
    BY <1>1, <1>4 DEF Pending, Funds
  <2>2. items'[t] = [i \in Instrument |->
                       IF put[i] # NoItem THEN put[i]
                       ELSE IF i \in rows[r] THEN NoItem ELSE items[t][i]]
    BY <1>1, <1>2 DEF TypeInv, TypeOK
  <2>3. \A i \in Instrument : items'[t][i] = put[i]
    BY <2>1, <2>2
  <2>. QED BY <1>1, <2>2, <2>3 DEF ItemSet
<1>5. ValidItems(put)
  BY <1>1 DEF Pending
<1>6. flaw'[t] = "none" => items'[t] = put
  BY <1>1, <1>2, <1>4 DEF TypeInv, TypeOK
<1>7. WeightsWhole'
  <2>1. SUFFICES ASSUME NEW u \in Template, templates'[u] # None, flaw'[u] = "none"
                 PROVE  ValidItems(items'[u])
    BY DEF WeightsWhole, ValidItems, Funds, Sum
  <2>. QED BY <1>2, <1>3, <1>5, <1>6, <2>1 DEF WeightsWhole
<1>8. /\ Finish(r)
      /\ \A q \in Request \ {r} : target[q] # t => rows'[q] = rows[q]
  BY DEF InsertItems, ItemsGone, TypeInv, TypeOK
<1>9. Pending'
  BY <1>1, <1>3, <1>8, FinishPending
<1>. QED BY <1>7, <1>9

LEMMA RemoveItemsWhole ==
  ASSUME NEW r \in Request, WholeInv, RemoveItems(r)
  PROVE  WeightsWhole' /\ Pending'
<1> USE DEF WholeInv
<1>1. pc[r] # "idle" /\ target[r] \in Template
  BY InFlightPlan DEF RemoveItems, At, TypeInv
<1>2. /\ templates'[target[r]] = None
      /\ \A u \in Template \ {target[r]} :
           items'[u] = items[u] /\ templates'[u] = templates[u] /\ flaw'[u] = flaw[u]
  BY <1>1 DEF RemoveItems, TypeInv, TypeOK
<1>3. WeightsWhole'
  BY <1>2 DEF WeightsWhole, ValidItems, Funds, Sum
<1>4. Finish(r) /\ \A q \in Request \ {r} : target[q] # target[r] => rows'[q] = rows[q]
  BY DEF RemoveItems, ItemsGone, TypeInv, TypeOK
<1>5. Pending'
  BY <1>1, <1>2, <1>4, FinishPending
<1>. QED BY <1>3, <1>5

\* Whoever is about the template that a new request enters is alone no more.
LEMMA EnterWhole ==
  ASSUME NEW r \in Request, NEW t \in Template, NEW step \in {"reload", "remove"}, NEW p \in Plan,
         WholeInv, pc[r] = "idle", Enter(r, t, step, p), UNCHANGED <<tables, flaw>>,
         p.put # None => ValidItems(p.put), p.alone => InFlight(t) = {},
         \A q \in Request \ {r} : rows'[q] = rows[q]
  PROVE  WeightsWhole' /\ Pending'
<1> USE DEF WholeInv
<1>1. WeightsWhole'
  BY TablesWhole DEF tables
<1>2. /\ pc'[r] = step /\ target'[r] = t /\ plan'[r] = p
      /\ \A q \in Request \ {r} : pc'[q] = pc[q] /\ target'[q] = target[q]
  BY DEF Enter, TypeInv, TypeOK
<1>3. SUFFICES ASSUME NEW q \in Request, pc'[q] # "idle"
               PROVE  /\ plan'[q].put # None => ValidItems(plan'[q].put)
                      /\ plan'[q].alone => \A w \in Request \ {q} : target'[w] # target'[q]
                      /\ plan'[q].alone /\ pc'[q] \in {"wait", "insert"} =>
                           Funds(items'[target'[q]]) \subseteq rows'[q]
  BY <1>1 DEF Pending, ValidItems, Funds, Sum
<1>4. CASE q = r
  BY <1>2, <1>4 DEF InFlight
<1>5. CASE q # r /\ target[q] = t
  <2>1. plan[q] \in Plan /\ pc[q] # "idle"
    BY <1>2, <1>3, <1>5, InFlightPlan DEF TypeInv
  <2>2. plan'[q] = [plan[q] EXCEPT !.alone = FALSE]
    BY <1>5 DEF Enter
  <2>3. ~plan'[q].alone /\ plan'[q].put = plan[q].put
    BY <2>1, <2>2 DEF Plan
  <2>. QED BY <2>1, <2>3 DEF Pending
<1>6. CASE q # r /\ target[q] # t
  <2>1. plan'[q] = plan[q]
    BY <1>6 DEF Enter
  <2>. QED BY <1>2, <1>3, <1>6, <2>1 DEF Pending, tables
<1>. QED BY <1>4, <1>5, <1>6

LEMMA StartWhole ==
  ASSUME NEW r \in Request, NEW t \in Template, WholeInv,
         \/ \E code \in Code \cup {None}, put \in ItemSet \cup {None} :
               UpdateFind(r, t, code, put)
         \/ RemoveFind(r, t)
  PROVE  WeightsWhole' /\ Pending'
<1> USE ConstantsAssumption DEF WholeInv
<1>1. ASSUME NEW code \in Code \cup {None}, NEW put \in ItemSet \cup {None},
             UpdateFind(r, t, code, put)
      PROVE  WeightsWhole' /\ Pending'
  <2> DEFINE p == [code |-> IF code = None THEN templates[t] ELSE code, known |-> items[t],
                   put |-> put, mode |-> "none", flaw |-> flaw[t],
                   alone |-> put # None /\ InFlight(t) = {}]
  <2>1. (put # None /\ InFlight(t) = {}) \in BOOLEAN
    OBVIOUS
  <2>2. p \in Plan
    BY <1>1, <2>1 DEF UpdateFind, Plan, Mode, TypeInv, TypeOK
  <2>3. /\ p.put # None => ValidItems(p.put)
        /\ p.alone => InFlight(t) = {}
    BY <1>1 DEF UpdateFind
  <2>4. /\ Enter(r, t, "reload", p) /\ pc[r] = "idle" /\ UNCHANGED <<tables, flaw>>
        /\ \A q \in Request \ {r} : rows'[q] = rows[q]
    BY <1>1 DEF UpdateFind, TypeInv, TypeOK
  <2> HIDE DEF p
  <2>. QED BY <2>2, <2>3, <2>4, EnterWhole
<1>2. ASSUME RemoveFind(r, t)
      PROVE  WeightsWhole' /\ Pending'
  <2> DEFINE p == [code |-> None, known |-> NoItems, put |-> None, mode |-> "none",
                   flaw |-> "none", alone |-> FALSE]
  <2>1. p \in Plan /\ p.put = None /\ ~p.alone
    BY DEF Plan, Mode, Flaw, ItemSet, NoItems
  <2>2. Enter(r, t, "remove", p) /\ pc[r] = "idle" /\ UNCHANGED <<tables, flaw, rows>>
    BY <1>2 DEF RemoveFind
  <2> HIDE DEF p
  <2>. QED BY <2>1, <2>2, EnterWhole
<1>. QED BY <1>1, <1>2

LEMMA CreateWhole ==
  ASSUME WholeInv, NEW t \in Template, NEW code \in Code, NEW put \in ItemSet, Create(t, code, put)
  PROVE  WeightsWhole' /\ Pending'
<1> USE ConstantsAssumption DEF WholeInv
<1>1. /\ items'[t] = put /\ ValidItems(put) /\ UNCHANGED requests
      /\ \A u \in Template \ {t} :
           items'[u] = items[u] /\ templates'[u] = templates[u] /\ flaw'[u] = flaw[u]
      /\ \A q \in Request : target[q] # t
  BY DEF Create, InFlight, TypeInv, TypeOK
<1>2. WeightsWhole'
  <2>1. SUFFICES ASSUME NEW u \in Template, templates'[u] # None, flaw'[u] = "none"
                 PROVE  ValidItems(items'[u])
    BY DEF WeightsWhole, ValidItems, Funds, Sum
  <2>. QED BY <1>1, <2>1 DEF WeightsWhole
<1>3. Pending'
  <2>1. SUFFICES ASSUME NEW q \in Request, pc'[q] # "idle"
                 PROVE  /\ plan'[q].put # None => ValidItems(plan'[q].put)
                        /\ plan'[q].alone => \A w \in Request \ {q} : target'[w] # target'[q]
                        /\ plan'[q].alone /\ pc'[q] \in {"wait", "insert"} =>
                             Funds(items'[target'[q]]) \subseteq rows'[q]
    BY DEF Pending, ValidItems, Funds, Sum
  <2>2. pc[q] # "idle" /\ target[q] \in Template \ {t}
    BY <1>1, <2>1, InFlightPlan DEF TypeInv, requests
  <2>. QED BY <1>1, <2>2 DEF Pending, requests
<1>. QED BY <1>2, <1>3

\* Only the templates without an item of the deleted instrument stay unflawed.
LEMMA InstrumentWhole ==
  ASSUME WholeInv, NEW i \in Instrument, DeleteInstrument(i) \/ CreateInstrument(i)
  PROVE  WeightsWhole' /\ Pending'
<1> USE DEF WholeInv
<1>1. CASE DeleteInstrument(i)
  <2>1. /\ items' = [t \in Template |-> [items[t] EXCEPT ![i] = NoItem]]
        /\ flaw' = [t \in Template |-> IF items[t][i] # NoItem THEN "cut" ELSE flaw[t]]
        /\ rows' = [r \in Request |-> rows[r] \ {i}]
        /\ UNCHANGED <<templates, pc, target, plan>>
    BY <1>1 DEF DeleteInstrument
  <2>2. ASSUME NEW t \in Template
        PROVE  /\ Funds(items'[t]) = Funds(items[t]) \ {i}
               /\ flaw'[t] = "none" => items'[t] = items[t] /\ flaw[t] = "none"
    BY <2>1 DEF ItemSet, Funds, TypeInv, TypeOK
  <2>3. WeightsWhole'
    <3>1. SUFFICES ASSUME NEW u \in Template, templates'[u] # None, flaw'[u] = "none"
                   PROVE  ValidItems(items'[u])
      BY DEF WeightsWhole, ValidItems, Funds, Sum
    <3>2. items'[u] = items[u] /\ flaw[u] = "none" /\ templates[u] # None
      BY <2>1, <2>2, <3>1
    <3>. QED BY <3>2 DEF WeightsWhole
  <2>4. Pending'
    <3>1. SUFFICES ASSUME NEW q \in Request, pc'[q] # "idle"
                   PROVE  /\ plan'[q].put # None => ValidItems(plan'[q].put)
                          /\ plan'[q].alone => \A w \in Request \ {q} : target'[w] # target'[q]
                          /\ plan'[q].alone /\ pc'[q] \in {"wait", "insert"} =>
                               Funds(items'[target'[q]]) \subseteq rows'[q]
      BY DEF Pending, ValidItems, Funds, Sum
    <3>2. pc[q] # "idle" /\ target[q] \in Template
      BY <2>1, <3>1, InFlightPlan DEF TypeInv
    <3>3. Funds(items'[target[q]]) = Funds(items[target[q]]) \ {i} /\ rows'[q] = rows[q] \ {i}
      BY <2>1, <2>2, <3>2
    <3>. QED BY <2>1, <3>2, <3>3 DEF Pending
  <2>. QED BY <2>3, <2>4
<1>2. CASE CreateInstrument(i)
  BY <1>2 DEF CreateInstrument, requests, WeightsWhole, Pending, ValidItems, Funds, Sum
<1>. QED BY <1>1, <1>2

LEMMA CrashWhole ==
  ASSUME WholeInv, Crash
  PROVE  WeightsWhole' /\ Pending'
<1>1. WeightsWhole'
  BY TablesWhole DEF Crash, tables, WholeInv
<1>2. Pending'
  BY DEF Crash, Pending
<1>. QED BY <1>1, <1>2

LEMMA NextWhole ==
  ASSUME WholeInv, [Next]_vars
  PROVE  WholeInv'
<1>1. TypeInv'
  BY NextType DEF WholeInv
<1>2. CASE \E t \in Template, code \in Code, put \in ItemSet : Create(t, code, put)
  BY <1>1, <1>2, CreateWhole DEF WholeInv
<1>3. CASE \E r \in Request, t \in Template :
             \/ \E code \in Code \cup {None}, put \in ItemSet \cup {None} :
                  UpdateFind(r, t, code, put)
             \/ RemoveFind(r, t)
  BY <1>1, <1>3, StartWhole DEF WholeInv
<1>4. CASE \E r \in Request : Continue(r)
  BY <1>1, <1>4, QuietWhole, WriteInsertWhole, InsertItemsWhole, RemoveItemsWhole
  DEF Continue, WholeInv
<1>5. CASE \E i \in Instrument : DeleteInstrument(i) \/ CreateInstrument(i)
  BY <1>1, <1>5, InstrumentWhole DEF WholeInv
<1>6. CASE Crash
  BY <1>1, <1>6, CrashWhole DEF WholeInv
<1>7. CASE UNCHANGED vars
  BY <1>1, <1>7 DEF vars, WholeInv, WeightsWhole, Pending, ValidItems, Funds, Sum
<1>. QED BY <1>2, <1>3, <1>4, <1>5, <1>6, <1>7 DEF Next

\* The weights of every template add up to the whole, up to the tolerance, as long
\* as its updates did not overlap and none of its instruments was deleted; and they
\* do again after the next update with items that is alone.
THEOREM WeightsAddUp == Spec => []WeightsWhole
<1>1. Init => WholeInv
  BY InitType, ConstantsAssumption DEF Init, WholeInv, WeightsWhole, Pending
<1>2. WholeInv /\ [Next]_vars => WholeInv'
  BY NextWhole
<1>3. WholeInv => WeightsWhole
  BY DEF WholeInv
<1>. QED BY <1>1, <1>2, <1>3, PTL DEF Spec

--------------------------------------------------------------------------------
(* No part of an allocation is left.  Updates that overlap may mix their items, *)
(* but an update leaves at least the items it inserts; and a removed template   *)
(* is stored again with items that were enough when they were read.             *)

Enough(f) == Sum(f) >= Whole - Tolerance

\* The items a request may store again.
Keeps(r) == pc[r] # "idle" /\ (pc[r] = "reload" \/ plan[r].mode = "insert")

KnownInv ==
    \A r \in Request : Keeps(r) /\ plan[r].flaw # "cut" => Enough(plan[r].known)

TornInv == WholeInv /\ NeverTorn /\ KnownInv

LEMMA SumsGrow ==
  ASSUME NEW f \in ItemSet, NEW g \in ItemSet, \A i \in Instrument : f[i] <= g[i], Enough(f)
  PROVE  Enough(g)
<1>1. DOMAIN f = Instrument /\ DOMAIN g = Instrument
  BY DEF ItemSet
<1>2. \A i \in Instrument : f[i] \in Int /\ g[i] \in Int
  <2>1. Weight \cup {NoItem} \subseteq Int
    BY ConstantsAssumption DEF NoItem
  <2>. QED BY <2>1 DEF ItemSet
<1>3. /\ SumFunctionOnSet(f, Instrument) \in Int /\ SumFunctionOnSet(g, Instrument) \in Int
      /\ SumFunctionOnSet(f, Instrument) <= SumFunctionOnSet(g, Instrument)
  BY <1>2, ConstantsAssumption, SumMonotone
<1>. QED BY <1>1, <1>3, ConstantsAssumption DEF Enough, Sum, SumFunction

LEMMA ValidIsEnough == \A f : ValidItems(f) => Enough(f)
  BY ConstantsAssumption DEF ValidItems, Enough

LEMMA KnownKept ==
  ASSUME KnownInv,
         \A q \in Request : Keeps(q)' =>
            Keeps(q) /\ plan'[q].known = plan[q].known /\ plan'[q].flaw = plan[q].flaw
  PROVE  KnownInv'
  BY DEF KnownInv, Enough, Sum

LEMMA TornKept ==
  ASSUME NeverTorn, UNCHANGED <<items, flaw>>,
         \A t \in Template : templates'[t] # None => templates[t] # None
  PROVE  NeverTorn'
  BY DEF NeverTorn, Sum

\* One template is written, with enough if it is not cut.
LEMMA TornWritten ==
  ASSUME NeverTorn, NEW t \in Template,
         templates'[t] # None /\ flaw'[t] # "cut" => Enough(items'[t]),
         \A u \in Template \ {t} :
            items'[u] = items[u] /\ templates'[u] = templates[u] /\ flaw'[u] = flaw[u]
  PROVE  NeverTorn'
<1>1. SUFFICES ASSUME NEW u \in Template, templates'[u] # None, flaw'[u] # "cut"
               PROVE  Enough(items'[u])
  BY DEF NeverTorn, Enough, Sum
<1>. QED BY <1>1 DEF NeverTorn, Enough

LEMMA FinishKnown ==
  ASSUME NEW r \in Request, TypeInv, KnownInv, Finish(r)
  PROVE  KnownInv'
<1>1. /\ pc'[r] = "idle"
      /\ \A q \in Request \ {r} : pc'[q] = pc[q] /\ plan'[q] = plan[q]
  BY DEF Finish, TypeInv, TypeOK
<1>. QED BY <1>1, KnownKept DEF Keeps

LEMMA ReloadKnown ==
  ASSUME NEW r \in Request, TypeInv, KnownInv, Reload(r)
  PROVE  KnownInv'
<1>1. pc[r] = "reload" /\ pc'[r] = "write" /\ plan[r] \in Plan /\ plan[r].mode = "none"
  BY InFlightPlan DEF Reload, TypeInv, TypeOK, Planned
<1>2. \A q \in Request \ {r} : pc'[q] = pc[q] /\ plan'[q] = plan[q]
  BY DEF Reload, TypeInv, TypeOK
<1>3. plan'[r].mode = "insert" =>
        plan'[r].known = plan[r].known /\ plan'[r].flaw = plan[r].flaw
  <2> DEFINE p == plan[r]
  <2>1. plan'[r] \in {[p EXCEPT !.mode = "insert"],
                      [p EXCEPT !.mode = "update", !.known = NoItems, !.flaw = "none"],
                      [p EXCEPT !.code = None, !.known = NoItems, !.flaw = "none"]}
    BY DEF Reload, TypeInv, TypeOK
  <2>. QED BY <1>1, <2>1 DEF Plan
<1>. QED BY <1>1, <1>2, <1>3, KnownKept DEF Keeps

\* A step of an update that is under way and changes no table.
LEMMA StepKnown ==
  ASSUME NEW r \in Request, TypeInv, KnownInv, NEW step \in Steps \ {"idle", "reload"},
         pc[r] # "idle", pc' = [pc EXCEPT ![r] = step],
         \/ UNCHANGED plan
         \/ plan' = [plan EXCEPT ![r].mode = "none", ![r].code = None]
  PROVE  KnownInv'
<1>1. plan[r] \in Plan
  BY InFlightPlan DEF TypeInv
<1>2. pc'[r] = step /\ \A q \in Request \ {r} : pc'[q] = pc[q] /\ plan'[q] = plan[q]
  BY DEF TypeInv, TypeOK
<1>3. plan'[r].mode = "insert" => plan'[r] = plan[r]
  <2>1. CASE UNCHANGED plan
    BY <2>1
  <2>2. CASE plan' = [plan EXCEPT ![r].mode = "none", ![r].code = None]
    <3>1. plan'[r] = [plan[r] EXCEPT !.mode = "none", !.code = None]
      BY <2>2 DEF TypeInv, TypeOK
    <3>2. plan'[r].mode = "none"
      BY <1>1, <3>1 DEF Plan
    <3>. QED BY <3>2
  <2>. QED BY <2>1, <2>2
<1>. QED BY <1>2, <1>3, KnownKept DEF Keeps

LEMMA QuietTorn ==
  ASSUME NEW r \in Request, TornInv,
         \/ Reload(r) \/ ReloadFails(r) \/ WriteNothing(r) \/ WriteUpdate(r) \/ WriteMisses(r)
         \/ WriteFails(r) \/ DeleteBegins(r) \/ DeleteEnds(r) \/ InsertItemsFails(r)
         \/ RemoveTemplate(r) \/ Deadlock(r)
  PROVE  NeverTorn' /\ KnownInv'
<1> USE DEF TornInv, WholeInv
<1>1. /\ UNCHANGED <<items, flaw>>
      /\ \A t \in Template : templates'[t] # None => templates[t] # None
  BY DEF Reload, ReloadFails, WriteNothing, WriteUpdate, WriteMisses, WriteFails, DeleteBegins,
         DeleteEnds, InsertItemsFails, RemoveTemplate, Deadlock, Abort, tables, TypeInv, TypeOK
<1>2. NeverTorn'
  BY <1>1, TornKept
<1>3. CASE Reload(r)
  BY <1>2, <1>3, ReloadKnown
<1>4. CASE Finish(r)
  BY <1>2, <1>4, FinishKnown
<1>5. CASE ~Reload(r) /\ ~Finish(r)
  <2>1. pc[r] # "idle"
    BY <1>5 DEF WriteNothing, WriteUpdate, WriteMisses, DeleteBegins, DeleteEnds, RemoveTemplate,
                ReloadFails, WriteFails, InsertItemsFails, Deadlock, Abort, Answer, At
  <2>2. \/ UNCHANGED plan
        \/ plan' = [plan EXCEPT ![r].mode = "none", ![r].code = None]
    BY <1>5 DEF WriteNothing, WriteUpdate, WriteMisses, DeleteBegins, DeleteEnds, RemoveTemplate,
                ReloadFails, WriteFails, InsertItemsFails, Deadlock, Abort, Answer
  <2>3. \E step \in {"delete", "wait", "insert", "cascade"} : pc' = [pc EXCEPT ![r] = step]
    BY <1>5 DEF WriteNothing, WriteUpdate, WriteMisses, DeleteBegins, DeleteEnds, RemoveTemplate,
                ReloadFails, WriteFails, InsertItemsFails, Deadlock, Abort, Answer
  <2>. QED BY <1>2, <2>1, <2>2, <2>3, StepKnown DEF Steps
<1>. QED BY <1>2, <1>3, <1>4, <1>5

\* A removed template is stored again with what was enough, or as cut.
LEMMA WriteInsertTorn ==
  ASSUME NEW r \in Request, TornInv, WriteInsert(r)
  PROVE  NeverTorn' /\ KnownInv'
<1> USE DEF TornInv, WholeInv
<1>1. /\ pc[r] = "write" /\ target[r] \in Template /\ plan[r] \in Plan
      /\ plan[r].mode = "insert"
  BY InFlightPlan DEF WriteInsert, At, TypeInv
<1>2. /\ items'[target[r]] = IF plan[r].put = None THEN plan[r].known ELSE plan[r].put
      /\ flaw'[target[r]] = IF plan[r].put = None /\ plan[r].flaw = "cut" THEN "cut" ELSE "mixed"
      /\ \A u \in Template \ {target[r]} :
           items'[u] = items[u] /\ templates'[u] = templates[u] /\ flaw'[u] = flaw[u]
  BY <1>1 DEF WriteInsert, TypeInv, TypeOK
<1>3. plan[r].put # None => Enough(plan[r].put)
  BY <1>1, ValidIsEnough DEF Pending
<1>4. plan[r].flaw # "cut" => Enough(plan[r].known)
  BY <1>1 DEF KnownInv, Keeps
<1>5. flaw'[target[r]] # "cut" => Enough(items'[target[r]])
  BY <1>2, <1>3, <1>4
<1>6. Finish(r)
  BY DEF WriteInsert, Answer
<1>. QED BY <1>1, <1>2, <1>5, <1>6, TornWritten, FinishKnown

\* What an update inserts is there, whatever else is left beside it.
LEMMA InsertItemsTorn ==
  ASSUME NEW r \in Request, TornInv, InsertItems(r)
  PROVE  NeverTorn' /\ KnownInv'
<1> USE ConstantsAssumption DEF TornInv, WholeInv
<1> DEFINE t == target[r]
           put == plan[r].put
<1>1. /\ pc[r] = "insert" /\ t \in Template /\ put \in ItemSet /\ put # None
  <2>1. pc[r] = "insert"
    BY DEF InsertItems, At
  <2>2. plan[r] \in Plan /\ target[r] \in Template
    BY <2>1, InFlightPlan DEF TypeInv
  <2>. QED BY <2>1, <2>2 DEF TypeInv, Planned, Plan
<1>2. items'[t] = [i \in Instrument |->
                     IF put[i] # NoItem THEN put[i]
                     ELSE IF i \in rows[r] THEN NoItem ELSE items[t][i]]
  BY <1>1 DEF InsertItems, TypeInv, TypeOK
<1>3. \A u \in Template \ {t} :
         items'[u] = items[u] /\ templates'[u] = templates[u] /\ flaw'[u] = flaw[u]
  BY DEF InsertItems, TypeInv, TypeOK
<1>4. items[t] \in ItemSet
  BY <1>1 DEF TypeInv, TypeOK
<1>5. items'[t] \in ItemSet
  BY <1>1, <1>2, <1>4 DEF ItemSet
<1>6. ASSUME NEW i \in Instrument
      PROVE  put[i] <= items'[t][i]
  <2>1. Weight \cup {NoItem} \subseteq Nat
    BY DEF NoItem
  <2>2. put[i] \in Nat /\ items[t][i] \in Nat
    BY <1>1, <1>4, <2>1 DEF ItemSet
  <2>3. items'[t][i] \in {put[i], NoItem, items[t][i]} /\ (put[i] # NoItem => items'[t][i] = put[i])
    BY <1>2
  <2>. QED BY <2>2, <2>3 DEF NoItem
<1>7. Enough(put)
  BY <1>1, ValidIsEnough DEF Pending
<1>8. Enough(items'[t])
  <2> HIDE DEF t, put
  <2>. QED BY <1>1, <1>5, <1>6, <1>7, SumsGrow
<1>9. Finish(r)
  BY DEF InsertItems
<1>. QED BY <1>1, <1>3, <1>8, <1>9, TornWritten, FinishKnown

LEMMA RemoveItemsTorn ==
  ASSUME NEW r \in Request, TornInv, RemoveItems(r)
  PROVE  NeverTorn' /\ KnownInv'
<1> USE DEF TornInv, WholeInv
<1>1. target[r] \in Template
  BY InFlightPlan DEF RemoveItems, At, TypeInv
<1>2. /\ templates'[target[r]] = None
      /\ \A u \in Template \ {target[r]} :
           items'[u] = items[u] /\ templates'[u] = templates[u] /\ flaw'[u] = flaw[u]
  BY <1>1 DEF RemoveItems, TypeInv, TypeOK
<1>3. Finish(r)
  BY DEF RemoveItems
<1>. QED BY <1>1, <1>2, <1>3, TornWritten, FinishKnown

\* An update keeps the items it has read with the flaw they have.
LEMMA StartTorn ==
  ASSUME NEW r \in Request, NEW t \in Template, TornInv,
         \/ \E code \in Code \cup {None}, put \in ItemSet \cup {None} :
               UpdateFind(r, t, code, put)
         \/ RemoveFind(r, t)
  PROVE  NeverTorn' /\ KnownInv'
<1> USE DEF TornInv, WholeInv
<1>1. NeverTorn'
  BY TornKept DEF UpdateFind, RemoveFind, tables
<1>2. PICK step, p : /\ Enter(r, t, step, p)
                     /\ \/ step = "reload" /\ p.known = items[t] /\ p.flaw = flaw[t]
                        \/ step = "remove" /\ p.mode = "none"
  <2>1. CASE \E code \in Code \cup {None}, put \in ItemSet \cup {None} :
               UpdateFind(r, t, code, put)
    <3>1. PICK code \in Code \cup {None}, put \in ItemSet \cup {None} :
             UpdateFind(r, t, code, put)
      BY <2>1
    <3> DEFINE p == [code |-> IF code = None THEN templates[t] ELSE code, known |-> items[t],
                     put |-> put, mode |-> "none", flaw |-> flaw[t],
                     alone |-> put # None /\ InFlight(t) = {}]
    <3>2. Enter(r, t, "reload", p)
      BY <3>1 DEF UpdateFind
    <3>3. p.known = items[t] /\ p.flaw = flaw[t]
      OBVIOUS
    <3>. HIDE DEF p
    <3>. QED BY <3>2, <3>3
  <2>2. CASE RemoveFind(r, t)
    <3> DEFINE p == [code |-> None, known |-> NoItems, put |-> None, mode |-> "none",
                     flaw |-> "none", alone |-> FALSE]
    <3>1. Enter(r, t, "remove", p)
      BY <2>2 DEF RemoveFind
    <3>2. p.mode = "none"
      OBVIOUS
    <3>. HIDE DEF p
    <3>. QED BY <3>1, <3>2
  <2>. QED BY <2>1, <2>2
<1>3. templates[t] # None
  BY DEF UpdateFind, RemoveFind
<1>4. p.flaw # "cut" /\ step = "reload" => Enough(p.known)
  BY <1>2, <1>3 DEF NeverTorn, Enough
<1>5. pc'[r] = step /\ plan'[r] = p
  BY <1>2 DEF Enter, TypeInv, TypeOK
<1>6. ASSUME NEW q \in Request \ {r}, Keeps(q)'
      PROVE  Keeps(q) /\ plan'[q].known = plan[q].known /\ plan'[q].flaw = plan[q].flaw
  <2>1. pc'[q] = pc[q]
    BY <1>2 DEF Enter, TypeInv, TypeOK
  <2>2. pc[q] # "idle" /\ plan[q] \in Plan
    BY <1>6, <2>1, InFlightPlan DEF Keeps, TypeInv
  <2>3. plan'[q] \in {plan[q], [plan[q] EXCEPT !.alone = FALSE]}
    BY <1>2 DEF Enter
  <2>4. /\ plan'[q].mode = plan[q].mode /\ plan'[q].known = plan[q].known
        /\ plan'[q].flaw = plan[q].flaw
    BY <2>2, <2>3 DEF Plan
  <2>. QED BY <1>6, <2>1, <2>2, <2>4 DEF Keeps
<1>7. SUFFICES ASSUME NEW q \in Request, Keeps(q)', plan'[q].flaw # "cut"
               PROVE  Enough(plan'[q].known)
  BY <1>1 DEF KnownInv, Enough, Sum
<1>8. CASE q = r
  BY <1>2, <1>4, <1>5, <1>7, <1>8 DEF Keeps
<1>9. CASE q # r
  BY <1>6, <1>7, <1>9 DEF KnownInv
<1>. QED BY <1>8, <1>9

LEMMA OtherTorn ==
  ASSUME TornInv,
         \/ \E t \in Template, code \in Code, put \in ItemSet : Create(t, code, put)
         \/ \E i \in Instrument : DeleteInstrument(i) \/ CreateInstrument(i)
         \/ Crash
         \/ UNCHANGED vars
  PROVE  NeverTorn' /\ KnownInv'
<1> USE DEF TornInv, WholeInv
<1>1. ASSUME NEW t \in Template, NEW code \in Code, NEW put \in ItemSet, Create(t, code, put)
      PROVE  NeverTorn' /\ KnownInv'
  <2>1. /\ items'[t] = put /\ Enough(put) /\ UNCHANGED requests
        /\ \A u \in Template \ {t} :
             items'[u] = items[u] /\ templates'[u] = templates[u] /\ flaw'[u] = flaw[u]
    BY <1>1, ValidIsEnough DEF Create, TypeInv, TypeOK
  <2>. QED BY <2>1, TornWritten, KnownKept DEF requests, Keeps
<1>2. ASSUME NEW i \in Instrument, DeleteInstrument(i)
      PROVE  NeverTorn' /\ KnownInv'
  <2>1. /\ items' = [t \in Template |-> [items[t] EXCEPT ![i] = NoItem]]
        /\ flaw' = [t \in Template |-> IF items[t][i] # NoItem THEN "cut" ELSE flaw[t]]
        /\ UNCHANGED <<templates, pc, plan>>
    BY <1>2 DEF DeleteInstrument
  <2>2. \A t \in Template : flaw'[t] # "cut" => items'[t] = items[t] /\ flaw[t] # "cut"
    BY <2>1 DEF ItemSet, TypeInv, TypeOK
  <2>3. NeverTorn'
    <3>1. SUFFICES ASSUME NEW u \in Template, templates'[u] # None, flaw'[u] # "cut"
                   PROVE  Enough(items'[u])
      BY DEF NeverTorn, Enough, Sum
    <3>. QED BY <2>1, <2>2, <3>1 DEF NeverTorn, Enough
  <2>. QED BY <2>1, <2>3, KnownKept DEF Keeps
<1>3. ASSUME NEW i \in Instrument, CreateInstrument(i)
      PROVE  NeverTorn' /\ KnownInv'
  BY <1>3, TornKept, KnownKept DEF CreateInstrument, requests, Keeps
<1>4. CASE Crash
  BY <1>4, TornKept, KnownKept DEF Crash, tables, Keeps
<1>5. CASE UNCHANGED vars
  BY <1>5, TornKept, KnownKept DEF vars, Keeps
<1>. QED BY <1>1, <1>2, <1>3, <1>4, <1>5

LEMMA NextTorn ==
  ASSUME TornInv, [Next]_vars
  PROVE  TornInv'
<1>1. WholeInv'
  BY NextWhole DEF TornInv
<1>2. CASE \E r \in Request : Continue(r)
  BY <1>1, <1>2, QuietTorn, WriteInsertTorn, InsertItemsTorn, RemoveItemsTorn
  DEF Continue, TornInv
<1>3. CASE \E r \in Request, t \in Template :
             \/ \E code \in Code \cup {None}, put \in ItemSet \cup {None} :
                  UpdateFind(r, t, code, put)
             \/ RemoveFind(r, t)
  BY <1>1, <1>3, StartTorn DEF TornInv
<1>. QED BY <1>1, <1>2, <1>3, OtherTorn DEF Next, TornInv

\* Whatever updates overlap, fail or are rolled back, a template has at least the
\* whole of an allocation, unless one of its instruments was deleted.
THEOREM NoTornTemplate == Spec => []NeverTorn
<1>1. Init => TornInv
  BY InitType, ConstantsAssumption
  DEF Init, TornInv, WholeInv, WeightsWhole, Pending, NeverTorn, KnownInv, Keeps
<1>2. TornInv => NeverTorn
  BY DEF TornInv
<1>. QED BY <1>1, <1>2, NextTorn, PTL DEF Spec
================================================================================
