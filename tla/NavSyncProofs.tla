----------------------------- MODULE NavSyncProofs -----------------------------
(***************************************************************************)
(* Type correctness of NavSync, its audit rows and its prices, for any     *)
(* number of instruments, days, requests and runs, in any interleaving,    *)
(* whatever is deleted and whenever the programs die: what sync_jobs says  *)
(* of an attempt is so, and every attempt that ends is in it; incremental  *)
(* syncs leave no hole in the prices and implement PriceMirror, as long as *)
(* nobody asks for explicit dates, puts prices by hand or publishes a day  *)
(* late.                                                                   *)
(***************************************************************************)
EXTENDS NavSync, TLAPS

LEMMA InitSyncTypeOK ==
  ASSUME Init
  PROVE  TypeOK
<1> USE NavSyncAssumption
<1>1. today \in Day /\ range \in [Syncer -> [lo : 1..MaxDay + 1, hi : 0..MaxDay]]
  BY DEF Init, Day, NoRange
<1>2. /\ opts \in [Syncer -> Options]
      /\ outcome \in [Syncer -> Outcome]
  BY DEF Init, Default, Options, Running, Outcome, Status
<1>. QED BY <1>1, <1>2 DEF Init, TypeOK, Steps

\* What the steps that end or move a syncer keep of its local state.
LocalTypeOK ==
    /\ pc \in [Syncer -> Steps]
    /\ todo \in [Syncer -> SUBSET Instrument]
    /\ cur \in [Syncer -> Instrument \cup {None}]
    /\ opts \in [Syncer -> Options]
    /\ job \in [Syncer -> Job \cup {None}]
    /\ range \in [Syncer -> [lo : 1..MaxDay + 1, hi : 0..MaxDay]]
    /\ points \in [Syncer -> SUBSET Day]
    /\ outcome \in [Syncer -> Outcome]
    /\ \A s \in Syncer : pc[s] \in {"idle", "next"} <=> cur[s] = None
    /\ \A s \in Syncer : job[s] # None <=> s \in Caller /\ cur[s] # None

TablesTypeOK ==
    /\ today \in Day
    /\ published \in [Instrument -> SUBSET (1..today)]
    /\ instruments \subseteq Instrument
    /\ cached \subseteq instruments
    /\ nav \in [Instrument -> [Day -> {"YAHOO", "MANUAL", None}]]
    /\ jobs \in [Job -> JobRow \cup {None}]

LEMMA TypeOKSplit == TypeOK <=> LocalTypeOK /\ TablesTypeOK
  BY DEF TypeOK, LocalTypeOK, TablesTypeOK

LEMMA StopAllType ==
  ASSUME NEW S \in SUBSET Syncer, LocalTypeOK, StopAll(S)
  PROVE  LocalTypeOK'
<1> USE NavSyncAssumption
<1>1. NoRange \in [lo : 1..MaxDay + 1, hi : 0..MaxDay]
  BY DEF NoRange
<1>2. Default \in Options /\ Running \in Outcome
  BY DEF Default, Options, Running, Outcome, Status
<1>3. /\ pc' \in [Syncer -> Steps] /\ todo' \in [Syncer -> SUBSET Instrument]
      /\ cur' \in [Syncer -> Instrument \cup {None}]
      /\ job' \in [Syncer -> Job \cup {None}] /\ points' \in [Syncer -> SUBSET Day]
  BY DEF LocalTypeOK, StopAll, Steps
<1>4. /\ opts' \in [Syncer -> Options] /\ outcome' \in [Syncer -> Outcome]
      /\ range' \in [Syncer -> [lo : 1..MaxDay + 1, hi : 0..MaxDay]]
  BY <1>1, <1>2 DEF LocalTypeOK, StopAll
<1>5. \A s \in Syncer : /\ pc'[s] \in {"idle", "next"} <=> cur'[s] = None
                        /\ job'[s] # None <=> s \in Caller /\ cur'[s] # None
  BY DEF LocalTypeOK, StopAll
<1>. QED BY <1>3, <1>4, <1>5 DEF LocalTypeOK

LEMMA ProceedType ==
  ASSUME NEW s \in Syncer, LocalTypeOK, Proceed(s)
  PROVE  LocalTypeOK'
<1> USE NavSyncAssumption
<1>1. CASE todo[s] = {}
  BY <1>1, StopAllType DEF Proceed
<1>2. CASE todo[s] # {}
  <2>0. /\ pc' = [pc EXCEPT ![s] = "next"]
        /\ cur' = [cur EXCEPT ![s] = None]
        /\ job' = [job EXCEPT ![s] = None]
        /\ range' = [range EXCEPT ![s] = NoRange]
        /\ points' = [points EXCEPT ![s] = {}]
        /\ outcome' = [outcome EXCEPT ![s] = Running]
        /\ UNCHANGED <<todo, opts>>
    BY <1>2 DEF Proceed, GoTo
  <2>1. NoRange \in [lo : 1..MaxDay + 1, hi : 0..MaxDay]
    BY DEF NoRange
  <2>2. Running \in Outcome
    BY DEF Running, Outcome, Status
  <2>3. range' \in [Syncer -> [lo : 1..MaxDay + 1, hi : 0..MaxDay]]
    BY <2>0, <2>1 DEF LocalTypeOK
  <2>4. outcome' \in [Syncer -> Outcome]
    BY <2>0, <2>2 DEF LocalTypeOK
  <2>5. pc' \in [Syncer -> Steps]
    BY <2>0 DEF LocalTypeOK, Steps
  <2>6. /\ cur' \in [Syncer -> Instrument \cup {None}]
        /\ job' \in [Syncer -> Job \cup {None}] /\ points' \in [Syncer -> SUBSET Day]
    BY <2>0 DEF LocalTypeOK
  <2>7. \A q \in Syncer : /\ pc'[q] \in {"idle", "next"} <=> cur'[q] = None
                          /\ job'[q] # None <=> q \in Caller /\ cur'[q] # None
    BY <2>0 DEF LocalTypeOK
  <2>. QED BY <2>0, <2>3, <2>4, <2>5, <2>6, <2>7 DEF LocalTypeOK
<1>. QED BY <1>1, <1>2

LEMMA BeginningsType ==
  ASSUME NEW s \in Syncer, TypeOK,
         \/ \E S \in SUBSET Instrument, o \in AllowedOptions : StartSync(s, S, o)
         \/ \E i \in Instrument, refresh \in BOOLEAN : BeginJob(s, i, refresh)
         \/ \E i \in Instrument : BeginGone(s, i) \/ BeginAttempt(s, i)
  PROVE  TypeOK'
<1> USE NavSyncAssumption DEF world
<1>1. ASSUME NEW S \in SUBSET Instrument, NEW o \in AllowedOptions, StartSync(s, S, o)
      PROVE  TypeOK'
  <2>1. o \in Options
    BY DEF AllowedOptions, Options, Default
  <2>2. /\ TablesTypeOK' /\ LocalTypeOK'
    BY <1>1, <2>1 DEF StartSync, At, GoTo, TypeOK, TablesTypeOK, LocalTypeOK, Steps
  <2>. QED BY <2>2 DEF TypeOK, LocalTypeOK, TablesTypeOK
<1>2. ASSUME NEW i \in Instrument, NEW refresh \in BOOLEAN, BeginJob(s, i, refresh)
      PROVE  TypeOK'
  <2>1. PICK j \in FreeJobs :
          /\ jobs' = [jobs EXCEPT ![j] = [ins |-> i, status |-> "RUNNING", got |-> {}]]
          /\ job' = [job EXCEPT ![s] = j]
    BY <1>2 DEF BeginJob
  <2>2. j \in Job /\ [ins |-> i, status |-> "RUNNING", got |-> {}] \in JobRow
    BY DEF FreeJobs, JobRow, Status
  <2>3. TablesTypeOK'
    BY <1>2, <2>1, <2>2 DEF BeginJob, TypeOK, TablesTypeOK
  <2>4. LocalTypeOK'
    BY <1>2, <2>1, <2>2 DEF BeginJob, At, GoTo, TypeOK, LocalTypeOK, Steps
  <2>. QED BY <2>3, <2>4 DEF TypeOK, LocalTypeOK, TablesTypeOK
<1>3. ASSUME NEW i \in Instrument, BeginGone(s, i)
      PROVE  TypeOK'
  <2>1. LocalTypeOK'
    BY <1>3, StopAllType, TypeOKSplit DEF BeginGone
  <2>2. TablesTypeOK'
    BY <1>3 DEF BeginGone, TypeOK, TablesTypeOK
  <2>. QED BY <2>1, <2>2 DEF TypeOK, LocalTypeOK, TablesTypeOK
<1>4. ASSUME NEW i \in Instrument, BeginAttempt(s, i)
      PROVE  TypeOK'
  <2>1. LocalTypeOK'
    BY <1>4 DEF BeginAttempt, At, GoTo, TypeOK, LocalTypeOK, Steps
  <2>2. TablesTypeOK'
    BY <1>4 DEF BeginAttempt, TypeOK, TablesTypeOK
  <2>. QED BY <2>1, <2>2 DEF TypeOK, LocalTypeOK, TablesTypeOK
<1>. QED BY <1>1, <1>2, <1>3, <1>4

LEMMA ConcludeType ==
  ASSUME NEW s \in Syncer, NEW status \in {"SUCCESS", "FAILED"}, NEW got \in SUBSET Day,
         LocalTypeOK, Conclude(s, status, got), pc[s] \notin {"idle", "next"}
  PROVE  /\ pc' \in [Syncer -> Steps] /\ outcome' \in [Syncer -> Outcome]
         /\ \A q \in Syncer : pc'[q] \in {"idle", "next"} <=> cur[q] = None
<1>1. [status |-> status, got |-> got] \in Outcome
  BY DEF Outcome, Status
<1>. QED BY <1>1 DEF Conclude, GoTo, LocalTypeOK, Steps

LEMMA AttemptType ==
  ASSUME NEW s \in Syncer, TypeOK, Attempt(s)
  PROVE  TypeOK'
<1> USE NavSyncAssumption DEF world
<1>a. LocalTypeOK /\ TablesTypeOK
  BY TypeOKSplit
<1>b. cur[s] \in Instrument /\ pc[s] \notin {"idle", "next"}
  BY <1>a DEF LocalTypeOK, Attempt, ResolveTicker, ResolveFails, ReadLatest, FetchHistory,
              FetchFails, StorePrices, StoreFails, At
<1>1. CASE ResolveTicker(s)
  <2>1. LocalTypeOK'
    BY <1>a, <1>b, <1>1 DEF ResolveTicker, GoTo, LocalTypeOK, Steps
  <2>2. TablesTypeOK'
    BY <1>a, <1>1 DEF ResolveTicker, TablesTypeOK
  <2>. QED BY <2>1, <2>2 DEF TypeOK, LocalTypeOK, TablesTypeOK
<1>2. CASE ResolveFails(s) \/ FetchFails(s) \/ StoreFails(s)
  <2>1. LocalTypeOK'
    BY <1>a, <1>b, <1>2, ConcludeType
    DEF ResolveFails, FetchFails, StoreFails, LocalTypeOK
  <2>2. TablesTypeOK'
    BY <1>a, <1>2 DEF ResolveFails, FetchFails, StoreFails, TablesTypeOK
  <2>. QED BY <2>1, <2>2 DEF TypeOK, LocalTypeOK, TablesTypeOK
<1>3. CASE ReadLatest(s)
  <2>1. PICK lo \in 1..MaxDay + 1, hi \in 0..MaxDay :
          /\ range' = [range EXCEPT ![s] = [lo |-> lo, hi |-> hi]]
          /\ Conclude(s, "SUCCESS", {}) \/ (GoTo(s, "fetch") /\ UNCHANGED outcome)
    <3> DEFINE hi == IF opts[s].hi = None THEN today ELSE opts[s].hi
    <3>1. opts[s] \in Options /\ today \in Day
      BY <1>a DEF LocalTypeOK, TablesTypeOK
    <3>2. hi \in 0..MaxDay
      BY <3>1 DEF Options, Day
    <3>3. PICK lo \in 1..MaxDay + 1 :
            /\ range' = [range EXCEPT ![s] = [lo |-> lo, hi |-> hi]]
            /\ Conclude(s, "SUCCESS", {}) \/ (GoTo(s, "fetch") /\ UNCHANGED outcome)
      BY <1>3 DEF ReadLatest
    <3>. QED BY <3>2, <3>3
  <2>2. range' \in [Syncer -> [lo : 1..MaxDay + 1, hi : 0..MaxDay]]
    BY <1>a, <2>1 DEF LocalTypeOK
  <2>3. CASE Conclude(s, "SUCCESS", {})
    BY <1>a, <1>b, <1>3, <2>2, <2>3, ConcludeType
    DEF ReadLatest, TypeOK, LocalTypeOK, TablesTypeOK
  <2>4. CASE GoTo(s, "fetch") /\ UNCHANGED outcome
    BY <1>a, <1>b, <1>3, <2>2, <2>4
    DEF ReadLatest, GoTo, TypeOK, LocalTypeOK, TablesTypeOK, Steps
  <2>. QED BY <2>1, <2>3, <2>4
<1>4. CASE FetchHistory(s)
  <2>1. published[cur[s]] \cap Within(range[s]) \in SUBSET Day
    BY <1>a, <1>b DEF TablesTypeOK, Day
  <2>2. points' \in [Syncer -> SUBSET Day]
    BY <1>a, <1>4, <2>1 DEF FetchHistory, LocalTypeOK
  <2>3. CASE Conclude(s, "SUCCESS", {})
    BY <1>a, <1>b, <1>4, <2>2, <2>3, ConcludeType
    DEF FetchHistory, TypeOK, LocalTypeOK, TablesTypeOK
  <2>4. CASE GoTo(s, "store") /\ UNCHANGED outcome
    BY <1>a, <1>b, <1>4, <2>2, <2>4
    DEF FetchHistory, GoTo, TypeOK, LocalTypeOK, TablesTypeOK, Steps
  <2>. QED BY <1>4, <2>3, <2>4 DEF FetchHistory
<1>5. CASE StorePrices(s)
  <2>1. nav' \in [Instrument -> [Day -> {"YAHOO", "MANUAL", None}]]
    BY <1>a, <1>b, <1>5 DEF StorePrices, TablesTypeOK
  <2>2. points[s] \in SUBSET Day
    BY <1>a DEF LocalTypeOK
  <2>3. TablesTypeOK'
    BY <1>a, <1>5, <2>1 DEF StorePrices, TablesTypeOK
  <2>4. LocalTypeOK'
    BY <1>a, <1>b, <1>5, <2>2, ConcludeType DEF StorePrices, LocalTypeOK
  <2>. QED BY <2>3, <2>4 DEF TypeOK, LocalTypeOK, TablesTypeOK
<1>. QED BY <1>1, <1>2, <1>3, <1>4, <1>5 DEF Attempt

LEMMA AuditType ==
  ASSUME NEW s \in Syncer, TypeOK,
         CloseJob(s) \/ CloseGone(s) \/ RecordJob(s) \/ RecordFails(s)
  PROVE  TypeOK'
<1> USE NavSyncAssumption DEF world
<1>a. LocalTypeOK /\ TablesTypeOK
  BY TypeOKSplit
<1>1. LocalTypeOK'
  BY <1>a, StopAllType, ProceedType DEF CloseJob, CloseGone, RecordJob, RecordFails
<1>2. TablesTypeOK'
  <2>1. CASE CloseJob(s) \/ RecordJob(s)
    <3>1. Audited(s) \in JobRow
      BY <1>a, <2>1 DEF CloseJob, RecordJob, At, Audited, JobRow, LocalTypeOK, Outcome
    <3>. QED BY <1>a, <2>1, <3>1 DEF CloseJob, RecordJob, TablesTypeOK, FreeJobs
  <2>2. CASE CloseGone(s) \/ RecordFails(s)
    BY <1>a, <2>2 DEF CloseGone, RecordFails, TablesTypeOK
  <2>. QED BY <2>1, <2>2
<1>. QED BY <1>1, <1>2 DEF TypeOK, LocalTypeOK, TablesTypeOK

LEMMA EnvironmentType ==
  ASSUME TypeOK, Environment
  PROVE  TypeOK'
<1> USE NavSyncAssumption DEF world
<1>a. LocalTypeOK /\ TablesTypeOK
  BY TypeOKSplit
<1>1. CASE Crash(Caller) \/ Crash(Run)
  <2>1. LocalTypeOK'
    BY <1>a, <1>1, StopAllType DEF Crash, Syncer
  <2>2. TablesTypeOK'
    BY <1>a, <1>1 DEF Crash, TablesTypeOK
  <2>. QED BY <2>1, <2>2 DEF TypeOK, LocalTypeOK, TablesTypeOK
<1>2. ASSUME UNCHANGED local, TablesTypeOK'
      PROVE  TypeOK'
  BY <1>2, <1>a DEF local, TypeOK, LocalTypeOK, TablesTypeOK
<1>3. CASE NextDay
  <2>1. today' \in Day /\ 1..today \subseteq 1..today'
    BY <1>a, <1>3 DEF NextDay, TablesTypeOK, Day
  <2>. QED BY <1>a, <1>2, <1>3, <2>1 DEF NextDay, TablesTypeOK
<1>4. ASSUME NEW i \in Instrument, NEW d \in Day, Publish(i, d) \/ PutPrice(i, d)
      PROVE  TypeOK'
  <2>1. CASE Publish(i, d)
    <3>1. d \in 1..today
      BY <1>a, <2>1 DEF Publish, TablesTypeOK, Day
    <3>. QED BY <1>a, <1>2, <2>1, <3>1 DEF Publish, TablesTypeOK
  <2>2. CASE PutPrice(i, d)
    BY <1>a, <1>2, <2>2 DEF PutPrice, TablesTypeOK
  <2>. QED BY <1>4, <2>1, <2>2
<1>5. ASSUME NEW i \in Instrument, DeleteInstrument(i)
      PROVE  TypeOK'
  BY <1>a, <1>2, <1>5 DEF DeleteInstrument, TablesTypeOK
<1>6. ASSUME NEW i \in Instrument, CreateInstrument(i)
      PROVE  TypeOK'
  BY <1>a, <1>2, <1>6 DEF CreateInstrument, TablesTypeOK
<1>. QED BY <1>1, <1>3, <1>4, <1>5, <1>6 DEF Environment

LEMMA NextSyncTypeOK ==
  ASSUME TypeOK, [Next]_vars
  PROVE  TypeOK'
<1>1. CASE Next
  BY <1>1, BeginningsType, AttemptType, AuditType, EnvironmentType DEF Next, Progress
<1>2. CASE UNCHANGED vars
  BY <1>2 DEF vars, world, local, TypeOK
<1>. QED BY <1>1, <1>2

\* The tables and the local state of requests and runs always have their types.
THEOREM SyncTypeCorrect == Spec => []TypeOK
<1>1. Init => TypeOK
  BY InitSyncTypeOK
<1>2. TypeOK /\ [Next]_vars => TypeOK'
  BY NextSyncTypeOK
<1>. QED BY <1>1, <1>2, PTL DEF Spec

--------------------------------------------------------------------------------
(* The audit rows.                                                              *)

\* The audit row that a backend attempt began with is that of its instrument and
\* is there as long as the instrument is; an attempt that is about to be audited
\* has ended, and has stored what it is going to say it has.
SyncerOK(s) ==
    /\ s \in Caller /\ cur[s] \in instruments => jobs[job[s]] # None
    /\ s \in Caller /\ cur[s] # None /\ jobs[job[s]] # None => jobs[job[s]].ins = cur[s]
    /\ pc[s] = "close" =>
         /\ outcome[s].status # "RUNNING"
         /\ outcome[s].status = "SUCCESS" /\ cur[s] \in instruments =>
              outcome[s].got \subseteq Stored(cur[s])

\* An audit row is about an instrument that exists and prices that are stored.
RowOK(j) ==
    jobs[j] # None =>
        /\ jobs[j].ins \in instruments
        /\ jobs[j].status = "SUCCESS" => jobs[j].got \subseteq Stored(jobs[j].ins)

AuditInv ==
    /\ \A s \in Syncer : SyncerOK(s)
    /\ \A j \in Job : RowOK(j)

LEMMA InitAuditInv == Init => AuditInv
  BY NavSyncAssumption DEF Init, AuditInv, SyncerOK, RowOK

\* A syncer that stays at its instrument, or leaves it, while the tables stay as
\* they are; if it comes to the end of the attempt, it has stored nothing.
LEMMA SyncerMoves ==
  ASSUME NEW s \in Syncer, TypeOK, SyncerOK(s), UNCHANGED <<instruments, nav, jobs>>,
         \/ cur'[s] = None /\ pc'[s] # "close"
         \/ /\ cur'[s] = cur[s] /\ job'[s] = job[s]
            /\ \/ pc'[s] # "close"
               \/ pc'[s] = pc[s] /\ outcome'[s] = outcome[s]
               \/ outcome'[s].status # "RUNNING" /\ outcome'[s].got = {}
  PROVE  SyncerOK(s)'
<1> USE NavSyncAssumption
<1>1. CASE cur'[s] = None /\ pc'[s] # "close"
  BY <1>1 DEF SyncerOK, TypeOK
<1>2. CASE cur'[s] = cur[s] /\ job'[s] = job[s]
  <2>1. Stored(cur[s])' = Stored(cur[s])
    BY <1>2 DEF Stored
  <2>. QED BY <1>2, <2>1 DEF SyncerOK
<1>. QED BY <1>1, <1>2

\* A record is a row, not the absence of one.
LEMMA RowsAreThere == None \notin JobRow
  BY NavSyncAssumption DEF JobRow, Status, Day

LEMMA RowsFrame ==
  ASSUME NEW j \in Job, RowOK(j), UNCHANGED <<instruments, jobs>>,
         \A i \in Instrument : Stored(i) \subseteq Stored(i)',
         jobs[j] \in JobRow \cup {None}
  PROVE  RowOK(j)'
  BY DEF RowOK, JobRow

LEMMA StoredFrame == UNCHANGED nav => \A i \in Instrument : Stored(i)' = Stored(i)
  BY DEF Stored

\* The end of a request or a run, and the way to its next instrument.
LEMMA StopMoves ==
  ASSUME NEW S \in SUBSET Syncer, TypeOK, StopAll(S), NEW s \in Syncer
  PROVE  \/ cur'[s] = None /\ pc'[s] # "close"
         \/ /\ s \notin S /\ cur'[s] = cur[s] /\ job'[s] = job[s]
            /\ pc'[s] = pc[s] /\ outcome'[s] = outcome[s]
  BY DEF StopAll

LEMMA ProceedMoves ==
  ASSUME NEW q \in Syncer, TypeOK, Proceed(q), NEW s \in Syncer
  PROVE  \/ cur'[s] = None /\ pc'[s] # "close"
         \/ /\ s # q /\ cur'[s] = cur[s] /\ job'[s] = job[s]
            /\ pc'[s] = pc[s] /\ outcome'[s] = outcome[s]
<1>1. CASE todo[q] = {}
  BY <1>1, StopMoves DEF Proceed
<1>2. CASE todo[q] # {}
  BY <1>2 DEF Proceed, GoTo, TypeOK
<1>. QED BY <1>1, <1>2

LEMMA QuietAudit ==
  ASSUME TypeOK, AuditInv, UNCHANGED <<instruments, nav, jobs>>,
         \A s \in Syncer :
            \/ cur'[s] = None /\ pc'[s] # "close"
            \/ /\ cur'[s] = cur[s] /\ job'[s] = job[s]
               /\ \/ pc'[s] # "close"
                  \/ pc'[s] = pc[s] /\ outcome'[s] = outcome[s]
                  \/ outcome'[s].status # "RUNNING" /\ outcome'[s].got = {}
  PROVE  AuditInv'
<1>1. \A s \in Syncer : SyncerOK(s)'
  BY SyncerMoves DEF AuditInv
<1>2. \A j \in Job : RowOK(j)'
  BY RowsFrame, StoredFrame DEF AuditInv, TypeOK
<1>. QED BY <1>1, <1>2 DEF AuditInv

LEMMA BeginningsAudit ==
  ASSUME NEW s \in Syncer, TypeOK, AuditInv,
         \/ \E S \in SUBSET Instrument, o \in AllowedOptions : StartSync(s, S, o)
         \/ \E i \in Instrument, refresh \in BOOLEAN : BeginJob(s, i, refresh)
         \/ \E i \in Instrument : BeginGone(s, i) \/ BeginAttempt(s, i)
  PROVE  AuditInv'
<1> USE NavSyncAssumption
<1>1. CASE \E S \in SUBSET Instrument, o \in AllowedOptions : StartSync(s, S, o)
  BY <1>1, QuietAudit DEF StartSync, GoTo, TypeOK
<1>2. ASSUME NEW i \in Instrument, NEW refresh \in BOOLEAN, BeginJob(s, i, refresh)
      PROVE  AuditInv'
  <2>1. PICK j \in FreeJobs :
          /\ jobs' = [jobs EXCEPT ![j] = [ins |-> i, status |-> "RUNNING", got |-> {}]]
          /\ job' = [job EXCEPT ![s] = j]
    BY <1>2 DEF BeginJob
  <2>2. /\ j \in Job /\ \A q \in Syncer : job[q] # j
        /\ cur' = [cur EXCEPT ![s] = i] /\ i \in instruments
        /\ pc'[s] # "close" /\ \A q \in Syncer \ {s} : pc'[q] = pc[q]
        /\ UNCHANGED <<instruments, nav, outcome>>
    BY <1>2 DEF FreeJobs, BeginJob, GoTo, TypeOK
  <2>3. ASSUME NEW q \in Syncer PROVE SyncerOK(q)'
    <3>1. CASE q = s
      <4>1. [ins |-> i, status |-> "RUNNING", got |-> {}] # None
        BY RowsAreThere DEF JobRow, Status
      <4>2. cur'[s] = i /\ job'[s] = j /\ jobs'[j].ins = i /\ jobs'[j] # None
        BY <2>1, <2>2, <4>1 DEF TypeOK
      <4>. QED BY <2>2, <3>1, <4>2 DEF SyncerOK
    <3>2. CASE q # s
      <4>1. /\ cur'[q] = cur[q] /\ job'[q] = job[q] /\ pc'[q] = pc[q]
            /\ outcome'[q] = outcome[q] /\ jobs'[job[q]] = jobs[job[q]]
        BY <2>1, <2>2, <3>2 DEF TypeOK
      <4>2. SyncerOK(q)
        BY DEF AuditInv
      <4>. QED BY <2>2, <4>1, <4>2 DEF SyncerOK, Stored
    <3>. QED BY <3>1, <3>2
  <2>4. ASSUME NEW k \in Job PROVE RowOK(k)'
    BY <2>1, <2>2 DEF AuditInv, RowOK, Stored, TypeOK
  <2>. QED BY <2>3, <2>4 DEF AuditInv
<1>3. ASSUME NEW i \in Instrument, BeginGone(s, i)
      PROVE  AuditInv'
  BY <1>3, QuietAudit, StopMoves DEF BeginGone
<1>4. ASSUME NEW i \in Instrument, BeginAttempt(s, i)
      PROVE  AuditInv'
  <2>1. /\ s \in Run /\ UNCHANGED <<instruments, nav, jobs, job, outcome>>
        /\ pc'[s] # "close"
        /\ \A q \in Syncer \ {s} : pc'[q] = pc[q] /\ cur'[q] = cur[q]
    BY <1>4 DEF BeginAttempt, GoTo, TypeOK
  <2>2. ASSUME NEW q \in Syncer PROVE SyncerOK(q)'
    BY <2>1, SyncerMoves DEF SyncerOK, AuditInv
  <2>3. \A j \in Job : RowOK(j)'
    BY <2>1, RowsFrame, StoredFrame DEF AuditInv, TypeOK
  <2>. QED BY <2>2, <2>3 DEF AuditInv
<1>. QED BY <1>1, <1>2, <1>3, <1>4

\* Prices are added to the table and none is taken away.
LEMMA StoringAudit ==
  ASSUME TypeOK, AuditInv, UNCHANGED <<instruments, jobs>>,
         \A i \in Instrument : Stored(i) \subseteq Stored(i)',
         \A q \in Syncer :
           /\ cur'[q] = cur[q] /\ job'[q] = job[q]
           /\ \/ pc'[q] = pc[q] /\ outcome'[q] = outcome[q]
              \/ outcome'[q].status # "RUNNING" /\ outcome'[q].got \subseteq Stored(cur[q])'
  PROVE  AuditInv'
<1>1. ASSUME NEW q \in Syncer PROVE SyncerOK(q)'
  <2>1. SyncerOK(q) /\ (cur[q] = None \/ cur[q] \in Instrument)
    BY DEF AuditInv, TypeOK
  <2>2. cur[q] \in instruments => Stored(cur[q]) \subseteq Stored(cur[q])'
    <3>1. ASSUME NEW i \in Instrument, cur[q] = i
          PROVE  Stored(cur[q]) = Stored(i) /\ Stored(cur[q])' = Stored(i)'
      BY <3>1 DEF Stored
    <3>. QED BY <3>1 DEF TypeOK
  <2>. QED BY <2>1, <2>2 DEF SyncerOK
<1>2. \A j \in Job : RowOK(j)'
  BY RowsFrame DEF AuditInv, TypeOK
<1>. QED BY <1>1, <1>2 DEF AuditInv

LEMMA AttemptAudit ==
  ASSUME NEW s \in Syncer, TypeOK, AuditInv, Attempt(s)
  PROVE  AuditInv'
<1> USE NavSyncAssumption
<1>1. CASE ResolveTicker(s)
  BY <1>1, QuietAudit DEF ResolveTicker, GoTo, TypeOK
<1>2. CASE ResolveFails(s) \/ FetchFails(s) \/ StoreFails(s)
  BY <1>2, QuietAudit DEF ResolveFails, FetchFails, StoreFails, Conclude, GoTo, TypeOK
<1>3. CASE ReadLatest(s)
  BY <1>3, QuietAudit DEF ReadLatest, Conclude, GoTo, TypeOK
<1>4. CASE FetchHistory(s)
  BY <1>4, QuietAudit DEF FetchHistory, Conclude, GoTo, TypeOK
<1>5. CASE StorePrices(s)
  <2>1. /\ cur[s] \in Instrument /\ points[s] \subseteq Day
        /\ nav' = [nav EXCEPT ![cur[s]] =
                     [d \in Day |-> IF d \in points[s] THEN "YAHOO" ELSE @[d]]]
    BY <1>5 DEF StorePrices, TypeOK
  <2>2. /\ \A i \in Instrument : Stored(i) \subseteq Stored(i)'
        /\ points[s] \subseteq Stored(cur[s])'
    <3>1. PICK k \in Instrument : k = cur[s] /\ k = cur'[s]
      BY <1>5, <2>1 DEF StorePrices
    <3>2. \A i \in Instrument, d \in Day :
            nav'[i][d] = IF i = k /\ d \in points[s] THEN "YAHOO" ELSE nav[i][d]
      BY <2>1, <3>1 DEF TypeOK
    <3>. QED BY <2>1, <3>1, <3>2 DEF Stored
  <2>3. /\ outcome'[s].status = "SUCCESS" /\ outcome'[s].got = points[s]
        /\ \A q \in Syncer \ {s} : pc'[q] = pc[q] /\ outcome'[q] = outcome[q]
        /\ UNCHANGED <<instruments, jobs, cur, job>>
    BY <1>5 DEF StorePrices, Conclude, GoTo, TypeOK
  <2>. QED BY <2>2, <2>3, StoringAudit
<1>. QED BY <1>1, <1>2, <1>3, <1>4, <1>5 DEF Attempt

LEMMA AuditAudit ==
  ASSUME NEW s \in Syncer, TypeOK, AuditInv,
         CloseJob(s) \/ CloseGone(s) \/ RecordJob(s) \/ RecordFails(s)
  PROVE  AuditInv'
<1> USE NavSyncAssumption
<1>a. SyncerOK(s)
  BY DEF AuditInv
<1>1. CASE CloseGone(s) \/ RecordFails(s)
  BY <1>1, QuietAudit, StopMoves DEF CloseGone, RecordFails
<1>2. CASE CloseJob(s) \/ RecordJob(s)
  <2>1. /\ cur[s] \in instruments /\ pc[s] = "close" /\ cur[s] # None
        /\ UNCHANGED <<instruments, nav>>
    <3>1. CASE RecordJob(s)
      BY <3>1 DEF RecordJob, At, TypeOK
    <3>2. CASE CloseJob(s)
      <4>1. job[s] \in Job /\ cur[s] # None /\ jobs[job[s]] # None /\ s \in Caller
        BY <3>2 DEF CloseJob, At, TypeOK
      <4>. QED BY <1>a, <3>2, <4>1 DEF CloseJob, At, SyncerOK, AuditInv, RowOK
    <3>. QED BY <1>2, <3>1, <3>2
  <2>2. PICK j \in Job : /\ jobs' = [jobs EXCEPT ![j] = Audited(s)]
                         /\ \/ s \in Caller /\ j = job[s] /\ jobs[j] # None
                            \/ j \in FreeJobs
    <3>1. CASE CloseJob(s)
      <4>1. /\ job[s] \in Job /\ s \in Caller /\ jobs[job[s]] # None
            /\ jobs' = [jobs EXCEPT ![job[s]] = Audited(s)]
        BY <2>1, <3>1 DEF CloseJob, TypeOK
      <4>. QED BY <4>1
    <3>2. CASE RecordJob(s)
      BY <3>2 DEF RecordJob, FreeJobs
    <3>. QED BY <1>2, <3>1, <3>2
  <2>3. /\ Audited(s).ins = cur[s] /\ Audited(s).got = outcome[s].got
        /\ Audited(s).status = outcome[s].status /\ Audited(s) \in JobRow
    BY <2>1 DEF Audited, TypeOK, Outcome, JobRow
  <2>4. ASSUME NEW k \in Job PROVE RowOK(k)'
    <3>1. CASE k = j
      <4>1. jobs'[k] = Audited(s)
        BY <2>2, <3>1 DEF TypeOK
      <4>2. Stored(jobs[k].ins)' = Stored(cur[s])
        BY <2>1, <2>3, <4>1 DEF Stored
      <4>. QED BY <1>a, <2>1, <2>3, <4>1, <4>2 DEF RowOK, SyncerOK
    <3>2. CASE k # j
      BY <2>1, <2>2, <3>2 DEF AuditInv, RowOK, Stored, TypeOK
    <3>. QED BY <3>1, <3>2
  <2>5. ASSUME NEW q \in Syncer PROVE SyncerOK(q)'
    <3>1. CASE cur'[q] = None /\ pc'[q] # "close"
      BY <2>1, <3>1 DEF SyncerOK, TypeOK
    <3>2. CASE /\ q # s /\ cur'[q] = cur[q] /\ job'[q] = job[q]
               /\ pc'[q] = pc[q] /\ outcome'[q] = outcome[q]
      <4>1. SyncerOK(q)
        BY DEF AuditInv
      <4>2. Stored(cur[q])' = Stored(cur[q])
        BY <2>1, <3>2 DEF Stored
      <4>3. CASE q \in Caller /\ cur[q] # None /\ job[q] = j
        <5>1. /\ s \in Caller /\ j = job[s] /\ jobs[j] # None
          BY <2>2, <4>3 DEF FreeJobs
        <5>2. cur[q] = cur[s] /\ jobs'[j] = Audited(s) /\ jobs'[j] # None
          BY <1>a, <2>1, <2>2, <2>3, <4>1, <4>3, <5>1, RowsAreThere DEF SyncerOK, TypeOK
        <5>. QED BY <2>1, <2>3, <3>2, <4>1, <4>2, <4>3, <5>1, <5>2 DEF SyncerOK, Stored
      <4>4. CASE q \in Caller /\ cur[q] # None /\ job[q] # j
        <5>1. jobs'[job[q]] = jobs[job[q]]
          BY <2>2, <4>4 DEF TypeOK
        <5>. QED BY <2>1, <3>2, <4>1, <4>2, <4>4, <5>1 DEF SyncerOK, Stored
      <4>5. CASE q \notin Caller \/ cur[q] = None
        BY <2>1, <3>2, <4>1, <4>2, <4>5 DEF SyncerOK, Stored, TypeOK
      <4>. QED BY <4>3, <4>4, <4>5
    <3>. QED BY <1>2, <3>1, <3>2, ProceedMoves DEF CloseJob, RecordJob
  <2>. QED BY <2>4, <2>5 DEF AuditInv
<1>. QED BY <1>1, <1>2

LEMMA EnvironmentAudit ==
  ASSUME TypeOK, AuditInv, Environment
  PROVE  AuditInv'
<1> USE NavSyncAssumption
<1>1. CASE NextDay \/ \E i \in Instrument, d \in Day : Publish(i, d)
  BY <1>1, QuietAudit DEF NextDay, Publish, local
<1>2. ASSUME NEW i \in Instrument, NEW d \in Day, PutPrice(i, d)
      PROVE  AuditInv'
  <2>1. \A k \in Instrument : Stored(k) \subseteq Stored(k)'
    BY <1>2 DEF PutPrice, Stored, TypeOK
  <2>. QED BY <1>2, <2>1, StoringAudit DEF PutPrice, local
<1>3. ASSUME NEW i \in Instrument, DeleteInstrument(i)
      PROVE  AuditInv'
  <2>1. /\ instruments' = instruments \ {i} /\ UNCHANGED local
        /\ \A j \in Job : jobs'[j] = IF jobs[j] # None /\ jobs[j].ins = i THEN None ELSE jobs[j]
        /\ \A k \in Instrument \ {i} : Stored(k)' = Stored(k)
    BY <1>3 DEF DeleteInstrument, Stored, TypeOK
  <2>2. ASSUME NEW q \in Syncer PROVE SyncerOK(q)'
    <3>0. SyncerOK(q)
      BY DEF AuditInv
    <3>1. cur'[q] = cur[q] /\ job'[q] = job[q] /\ pc'[q] = pc[q] /\ outcome'[q] = outcome[q]
      BY <2>1 DEF local
    <3>2. q \in Caller /\ cur[q] # None => job[q] \in Job
      BY DEF TypeOK
    <3>3. cur[q] \in instruments' => cur[q] \in instruments /\ cur[q] \in Instrument \ {i}
      BY <2>1 DEF TypeOK
    <3>4. ASSUME NEW k \in Instrument, cur[q] = k
          PROVE  Stored(cur[q]) = Stored(k) /\ Stored(cur[q])' = Stored(k)'
      BY <3>1, <3>4 DEF Stored
    <3>5. cur[q] \in instruments => cur[q] # None
      BY DEF TypeOK
    <3>. QED BY <2>1, <3>0, <3>1, <3>2, <3>3, <3>4, <3>5 DEF SyncerOK
  <2>3. ASSUME NEW j \in Job PROVE RowOK(j)'
    <3>1. CASE jobs[j] # None /\ jobs[j].ins = i
      BY <2>1, <3>1 DEF RowOK
    <3>2. CASE jobs'[j] = jobs[j] /\ jobs[j] # None /\ jobs[j].ins # i
      <4>1. jobs[j].ins \in Instrument \ {i} /\ jobs[j].ins \in instruments
        BY <3>2 DEF AuditInv, RowOK, TypeOK
      <4>2. PICK k \in Instrument \ {i} : k = jobs[j].ins /\ k = jobs'[j].ins
        BY <3>2, <4>1
      <4>3. Stored(jobs[j].ins)' = Stored(k)' /\ Stored(jobs[j].ins) = Stored(k)
        BY <4>2 DEF Stored
      <4>. QED BY <2>1, <3>2, <4>1, <4>2, <4>3 DEF AuditInv, RowOK
    <3>. QED BY <2>1, <3>1, <3>2 DEF RowOK
  <2>. QED BY <2>2, <2>3 DEF AuditInv
<1>4. ASSUME NEW i \in Instrument, CreateInstrument(i)
      PROVE  AuditInv'
  <2>1. /\ instruments' = instruments \cup {i} /\ UNCHANGED <<nav, jobs, pc, cur, job, outcome>>
        /\ \A q \in Syncer : cur[q] # i
    BY <1>4 DEF CreateInstrument, local
  <2>2. ASSUME NEW q \in Syncer PROVE SyncerOK(q)'
    BY <2>1 DEF AuditInv, SyncerOK, Stored
  <2>3. ASSUME NEW j \in Job PROVE RowOK(j)'
    BY <2>1 DEF AuditInv, RowOK, Stored
  <2>. QED BY <2>2, <2>3 DEF AuditInv
<1>5. CASE Crash(Caller) \/ Crash(Run)
  BY <1>5, QuietAudit, StopMoves DEF Crash, Syncer
<1>. QED BY <1>1, <1>2, <1>3, <1>4, <1>5 DEF Environment

LEMMA NextAuditInv ==
  ASSUME TypeOK, AuditInv, [Next]_vars
  PROVE  AuditInv'
<1>1. CASE Next
  BY <1>1, BeginningsAudit, AttemptAudit, AuditAudit, EnvironmentAudit DEF Next, Progress
<1>2. CASE UNCHANGED vars
  BY <1>2, QuietAudit DEF vars, local
<1>. QED BY <1>1, <1>2

\* Whatever is asked for, fetched, put by hand, deleted or interrupted: an audit
\* row that says SUCCESS says so of prices that are in the table.  The attempt
\* says it after the prices were stored, in a statement of its own, so the proof
\* has to show that the instrument cannot have been deleted and its row kept in
\* between, and that no row is closed on behalf of another attempt.
THEOREM SuccessMeansStored == Spec => []SuccessIsStored
<1>1. Init => AuditInv
  BY InitAuditInv
<1>2. TypeOK /\ AuditInv /\ [Next]_vars => AuditInv'
  BY NextAuditInv
<1>3. AuditInv => SuccessIsStored
  BY DEF AuditInv, RowOK, SuccessIsStored
<1>. QED BY <1>1, <1>2, <1>3, SyncTypeCorrect, PTL DEF Spec

\* What the end of an attempt says of it.
AttemptAudited(s) ==
    cur[s] # None /\ cur'[s] = None /\ cur[s] \in instruments' =>
        \E j \in Job : /\ IF s \in Caller THEN j = job[s] ELSE jobs[j] = None
                       /\ jobs'[j] # None /\ jobs'[j].ins = cur[s]
                       /\ jobs'[j].status = outcome[s].status
                       /\ jobs'[j].status # "RUNNING"

\* No step but the last of an attempt leaves its instrument.
LEMMA NextAttemptAudited ==
  ASSUME "crash" \notin Behaviour, TypeOK, AuditInv, [Next]_vars, NEW s \in Syncer
  PROVE  AttemptAudited(s)
<1> USE NavSyncAssumption
<1>a. SyncerOK(s)
  BY DEF AuditInv
<1>b. cur'[s] = cur[s] => AttemptAudited(s)
  BY DEF AttemptAudited
<1>1. ASSUME NEW q \in Syncer,
             \/ \E S \in SUBSET Instrument, o \in AllowedOptions : StartSync(q, S, o)
             \/ Attempt(q)
      PROVE  cur'[s] = cur[s]
  BY <1>1 DEF StartSync, Attempt, ResolveTicker, ResolveFails, ReadLatest, FetchHistory,
              FetchFails, StorePrices, StoreFails
<1>2. ASSUME NEW q \in Syncer, NEW i \in Instrument, NEW refresh \in BOOLEAN,
             BeginJob(q, i, refresh) \/ BeginAttempt(q, i)
      PROVE  AttemptAudited(s)
  <2>1. cur' = [cur EXCEPT ![q] = i] /\ i # None
    BY <1>2 DEF BeginJob, BeginAttempt
  <2>. QED BY <2>1 DEF AttemptAudited, TypeOK
<1>3. ASSUME NEW q \in Syncer, NEW i \in Instrument, BeginGone(q, i)
      PROVE  AttemptAudited(s)
  <2>1. cur[q] = None
    BY <1>3 DEF BeginGone, At, TypeOK
  <2>. QED BY <1>3, <2>1 DEF BeginGone, StopAll, AttemptAudited
<1>4. ASSUME NEW q \in Syncer, CloseGone(q) \/ RecordFails(q)
      PROVE  AttemptAudited(s)
  <2>1. cur[q] \notin instruments' /\ (s # q => cur'[s] = cur[s])
    BY <1>4 DEF CloseGone, RecordFails, StopAll, AuditInv, SyncerOK
  <2>. QED BY <1>b, <2>1 DEF AttemptAudited
<1>5. ASSUME NEW q \in Syncer, CloseJob(q) \/ RecordJob(q)
      PROVE  AttemptAudited(s)
  <2>1. CASE s # q
    <3>1. Proceed(q)
      BY <1>5 DEF CloseJob, RecordJob
    <3>2. cur'[s] = cur[s]
      BY <2>1, <3>1 DEF Proceed, StopAll, TypeOK
    <3>. QED BY <1>b, <3>2
  <2>2. CASE s = q
    <3>1. /\ pc[s] = "close" /\ cur[s] # None /\ Audited(s) # None
          /\ Audited(s).ins = cur[s] /\ Audited(s).status = outcome[s].status
      <4>1. pc[s] = "close" /\ cur[s] \in Instrument
        BY <1>5, <2>2 DEF CloseJob, RecordJob, At, TypeOK
      <4>2. Audited(s) \in JobRow
        BY <4>1 DEF Audited, JobRow, TypeOK, Outcome
      <4>3. Audited(s) # None
        BY <4>2, RowsAreThere
      <4>. QED BY <4>1, <4>3 DEF Audited
    <3>2. PICK j \in Job : /\ jobs'[j] = Audited(s)
                           /\ IF s \in Caller THEN j = job[s] ELSE jobs[j] = None
      BY <1>5, <2>2, <3>1 DEF CloseJob, RecordJob, FreeJobs, TypeOK
    <3>. QED BY <1>a, <3>1, <3>2 DEF SyncerOK, AttemptAudited
  <2>. QED BY <2>1, <2>2
<1>6. Environment => cur'[s] = cur[s]
  BY DEF Environment, NextDay, Publish, PutPrice, DeleteInstrument, CreateInstrument, Crash, local
<1>7. UNCHANGED vars => cur'[s] = cur[s]
  BY DEF vars, local
<1>. QED BY <1>b, <1>1, <1>2, <1>3, <1>4, <1>5, <1>6, <1>7 DEF Next, Progress

\* As long as neither program dies, every attempt at an instrument that is still
\* there when it ends leaves an audit row that says how it ended, of its own for
\* a run of the worker and the one it began with for a request to the backend,
\* whatever failed and whatever else ran.
THEOREM EveryAttemptAudited ==
  ASSUME "crash" \notin Behaviour
  PROVE  Spec => AttemptsAudited
<1>1. Init => AuditInv
  BY InitAuditInv
<1>2. TypeOK /\ AuditInv /\ [Next]_vars => AuditInv'
  BY NextAuditInv
<1>3. TypeOK /\ AuditInv /\ [Next]_vars =>
        [\A s \in Syncer : cur[s] # None /\ cur'[s] = None /\ cur[s] \in instruments' =>
         \E j \in Job : /\ IF s \in Caller THEN j = job[s] ELSE jobs[j] = None
                        /\ jobs'[j] # None /\ jobs'[j].ins = cur[s]
                        /\ jobs'[j].status = outcome[s].status
                        /\ jobs'[j].status # "RUNNING"]_vars
  BY NextAttemptAudited DEF AttemptAudited
<1>. QED BY <1>1, <1>2, <1>3, SyncTypeCorrect, PTL DEF Spec, AttemptsAudited

--------------------------------------------------------------------------------
(* Prices.  NoGaps is not inductive: a syncer stores what it has fetched, for a *)
(* range it has computed, long after it has looked at the table.  FetchOK and   *)
(* StoreOK say what is still true then of the range and of the points.  The     *)
(* invariant says that the stored days of an instrument are a prefix of what is *)
(* published of it; the second part maps each step: the statement that stores   *)
(* prices extends the mirror, Yahoo publishes, the deletion of an instrument    *)
(* erases, all else leaves the mirror as it is.                                 *)

\* What the range of a syncer that is about to fetch says of the table now: the
\* day before it is stored, and so is all that is published before it.
FetchOK(s) ==
    pc[s] = "fetch" /\ cur[s] \in instruments =>
        /\ range[s].lo = 1 \/ range[s].lo - 1 \in Stored(cur[s])
        /\ \A d \in published[cur[s]] : d < range[s].lo => d \in Stored(cur[s])

\* What the points that a syncer is about to store would complete.
StoreOK(s) ==
    pc[s] = "store" /\ cur[s] \in instruments =>
        /\ points[s] \subseteq published[cur[s]]
        /\ \A d \in published[cur[s]], e \in points[s] :
             d < e => d \in Stored(cur[s]) \cup points[s]

GapInv ==
    /\ NoGaps
    /\ \A i \in Instrument : Stored(i) \subseteq published[i]
    /\ \A s \in Syncer : opts[s] = Default /\ FetchOK(s) /\ StoreOK(s)

LEMMA InitGapInv ==
  ASSUME Init
  PROVE  GapInv
  BY DEF Init, GapInv, NoGaps, Stored, FetchOK, StoreOK

\* A step that leaves the world, the tables and what s does as they are keeps
\* what is known of s; so does one that sends it elsewhere.
LEMMA FetchFrame ==
  ASSUME NEW s, FetchOK(s), UNCHANGED <<published, nav, instruments>>,
         pc'[s] # "fetch" \/ (pc'[s] = pc[s] /\ cur'[s] = cur[s] /\ range'[s] = range[s])
  PROVE  FetchOK(s)'
  BY DEF FetchOK, Stored

LEMMA StoreFrame ==
  ASSUME NEW s, StoreOK(s), UNCHANGED <<published, nav, instruments>>,
         pc'[s] # "store" \/ (pc'[s] = pc[s] /\ cur'[s] = cur[s] /\ points'[s] = points[s])
  PROVE  StoreOK(s)'
  BY DEF StoreOK, Stored

LEMMA NoGapsFrame ==
  ASSUME GapInv, UNCHANGED <<published, nav>>
  PROVE  NoGaps' /\ \A i \in Instrument : Stored(i)' \subseteq published'[i]
  BY DEF GapInv, NoGaps, Stored

\* The end of a request, of a run or of an attempt.
LEMMA StopAllGap ==
  ASSUME NEW S \in SUBSET Syncer, GapInv, StopAll(S),
         UNCHANGED <<published, nav, instruments>>
  PROVE  GapInv'
<1>1. ASSUME NEW s \in Syncer
      PROVE  /\ pc'[s] = IF s \in S THEN "idle" ELSE pc[s]
             /\ s \notin S => /\ cur'[s] = cur[s] /\ range'[s] = range[s]
                              /\ points'[s] = points[s]
             /\ opts'[s] = IF s \in S THEN Default ELSE opts[s]
  BY DEF StopAll
<1>2. \A s \in Syncer : opts'[s] = Default /\ FetchOK(s)' /\ StoreOK(s)'
  BY <1>1, FetchFrame, StoreFrame DEF GapInv
<1>. QED BY <1>2, NoGapsFrame DEF GapInv

\* A syncer goes to a step other than the fetch and the store.
LEMMA MoveGap ==
  ASSUME NEW s \in Syncer, TypeOK, GapInv, UNCHANGED <<published, nav, instruments, opts>>,
         pc'[s] \notin {"fetch", "store"},
         \A q \in Syncer \ {s} : /\ pc'[q] = pc[q] /\ cur'[q] = cur[q]
                                 /\ range'[q] = range[q] /\ points'[q] = points[q]
  PROVE  GapInv'
<1>1. \A q \in Syncer : opts'[q] = Default /\ FetchOK(q)' /\ StoreOK(q)'
  BY FetchFrame, StoreFrame DEF GapInv
<1>. QED BY <1>1, NoGapsFrame DEF GapInv

LEMMA ProceedGap ==
  ASSUME NEW s \in Syncer, TypeOK, GapInv, Proceed(s),
         UNCHANGED <<published, nav, instruments>>
  PROVE  GapInv'
<1>1. CASE todo[s] = {}
  BY <1>1, StopAllGap DEF Proceed
<1>2. CASE todo[s] # {}
  <2>1. /\ pc' = [pc EXCEPT ![s] = "next"] /\ cur' = [cur EXCEPT ![s] = None]
        /\ range' = [range EXCEPT ![s] = NoRange] /\ points' = [points EXCEPT ![s] = {}]
        /\ opts' = opts
    BY <1>2 DEF Proceed, GoTo
  <2>2. /\ pc'[s] = "next"
        /\ \A q \in Syncer \ {s} : /\ pc'[q] = pc[q] /\ cur'[q] = cur[q]
                                    /\ range'[q] = range[q] /\ points'[q] = points[q]
    BY <2>1 DEF TypeOK
  <2>. QED BY <2>1, <2>2, MoveGap
<1>. QED BY <1>1, <1>2

LEMMA ConcludeGap ==
  ASSUME NEW s \in Syncer, NEW status, NEW got, TypeOK, GapInv, Conclude(s, status, got),
         \A q \in Syncer \ {s} : range'[q] = range[q] /\ points'[q] = points[q],
         UNCHANGED <<published, nav, instruments, opts, cur>>
  PROVE  GapInv'
  BY MoveGap DEF Conclude, GoTo, TypeOK

LEMMA BeginningsGap ==
  ASSUME NEW s \in Syncer, TypeOK, GapInv, Behaviour \cap {"window", "manual", "late"} = {},
         \/ \E S \in SUBSET Instrument, o \in AllowedOptions : StartSync(s, S, o)
         \/ \E i \in Instrument, refresh \in BOOLEAN : BeginJob(s, i, refresh)
         \/ \E i \in Instrument : BeginGone(s, i) \/ BeginAttempt(s, i)
  PROVE  GapInv'
<1> USE DEF world
<1>1. ASSUME NEW S \in SUBSET Instrument, NEW o \in AllowedOptions, StartSync(s, S, o)
      PROVE  GapInv'
  <2>1. o = Default
    BY DEF AllowedOptions
  <2>2. opts' = opts
    BY <1>1, <2>1 DEF StartSync, GapInv, TypeOK
  <2>. QED BY <1>1, <2>2, MoveGap DEF StartSync, GoTo, TypeOK
<1>2. ASSUME NEW i \in Instrument, NEW refresh \in BOOLEAN, BeginJob(s, i, refresh)
      PROVE  GapInv'
  BY <1>2, MoveGap DEF BeginJob, GoTo, TypeOK
<1>3. ASSUME NEW i \in Instrument, BeginGone(s, i)
      PROVE  GapInv'
  BY <1>3, StopAllGap DEF BeginGone
<1>4. ASSUME NEW i \in Instrument, BeginAttempt(s, i)
      PROVE  GapInv'
  BY <1>4, MoveGap DEF BeginAttempt, GoTo, TypeOK
<1>. QED BY <1>1, <1>2, <1>3, <1>4

\* The range that a syncer computes is right for the table it is computed from.
LEMMA ReadLatestGap ==
  ASSUME NEW s \in Syncer, TypeOK, GapInv, ReadLatest(s)
  PROVE  GapInv'
<1> USE NavSyncAssumption DEF world
<1>a. /\ UNCHANGED <<published, nav, instruments, opts, cur, points>>
      /\ cur[s] \in Instrument /\ pc[s] = "from"
  BY DEF ReadLatest, At, TypeOK
<1>b. opts[s].lo = None
  BY DEF GapInv, Default
<1>1. PICK lo \in 1..MaxDay + 1, hi \in {today, opts[s].hi} :
        /\ IsNextDay(cur[s], lo)
        /\ range' = [range EXCEPT ![s] = [lo |-> lo, hi |-> hi]]
        /\ Conclude(s, "SUCCESS", {}) \/ (GoTo(s, "fetch") /\ UNCHANGED outcome)
  BY <1>b DEF ReadLatest
<1>c. /\ range'[s].lo = lo
      /\ \A q \in Syncer \ {s} : range'[q] = range[q]
  BY <1>1 DEF TypeOK
<1>2. CASE Conclude(s, "SUCCESS", {})
  BY <1>a, <1>c, <1>2, ConcludeGap
<1>3. CASE GoTo(s, "fetch")
  <2>0. /\ pc'[s] = "fetch"
        /\ \A q \in Syncer \ {s} : pc'[q] = pc[q]
    BY <1>3 DEF GoTo, TypeOK
  <2>1. /\ lo = 1 \/ lo - 1 \in Stored(cur[s])
        /\ \A d \in published[cur[s]] : d < lo => d \in Stored(cur[s])
    <3>1. CASE lo = 1
      <4>1. \A d \in published[cur[s]] : d \in Int /\ ~(d < 1)
        BY <1>a DEF TypeOK, Day
      <4>. QED BY <3>1, <4>1
    <3>2. CASE lo - 1 \in Stored(cur[s])
      <4>1. \A d \in published[cur[s]] : d < lo - 1 => d \in Stored(cur[s])
        BY <1>a, <3>2 DEF GapInv, NoGaps
      <4>2. \A d \in published[cur[s]] : d \in Int
        BY <1>a DEF TypeOK, Day
      <4>3. \A d \in published[cur[s]] : d < lo => d < lo - 1 \/ d = lo - 1
        BY <4>2
      <4>. QED BY <3>2, <4>1, <4>3
    <3>. QED BY <1>1, <3>1, <3>2 DEF IsNextDay
  <2>2. FetchOK(s)'
    BY <1>a, <1>c, <2>0, <2>1 DEF FetchOK, Stored
  <2>3. StoreOK(s)'
    BY <2>0 DEF StoreOK
  <2>4. \A q \in Syncer \ {s} : FetchOK(q)' /\ StoreOK(q)'
    BY <1>a, <1>c, <2>0, FetchFrame, StoreFrame DEF GapInv
  <2>. QED BY <1>a, <2>2, <2>3, <2>4, NoGapsFrame DEF GapInv
<1>. QED BY <1>1, <1>2, <1>3

\* What is fetched for that range completes the table up to its last day.
LEMMA FetchHistoryGap ==
  ASSUME NEW s \in Syncer, TypeOK, GapInv, FetchHistory(s)
  PROVE  GapInv'
<1> USE NavSyncAssumption DEF world
<1> DEFINE fetched == published[cur[s]] \cap Within(range[s])
<1>a. /\ UNCHANGED <<published, nav, instruments, opts, cur, range>>
      /\ cur[s] \in Instrument /\ pc[s] = "fetch" /\ points' = [points EXCEPT ![s] = fetched]
  BY DEF FetchHistory, At, TypeOK
<1>b. points'[s] = fetched /\ \A q \in Syncer \ {s} : points'[q] = points[q]
  BY <1>a DEF TypeOK
<1>1. CASE Conclude(s, "SUCCESS", {})
  BY <1>a, <1>b, <1>1, ConcludeGap
<1>2. CASE GoTo(s, "store")
  <2>0. /\ pc'[s] = "store"
        /\ \A q \in Syncer \ {s} : pc'[q] = pc[q]
    BY <1>2 DEF GoTo, TypeOK
  <2>1. ASSUME cur[s] \in instruments,
               NEW d \in published[cur[s]], NEW e \in fetched, d < e
        PROVE  d \in Stored(cur[s]) \cup fetched
    <3>1. d \in Int /\ e \in Int /\ range[s].lo \in Int /\ range[s].hi \in Int
      BY <1>a DEF TypeOK, Day
    <3>2. CASE d < range[s].lo
      BY <1>a, <2>1, <3>2 DEF GapInv, FetchOK
    <3>3. CASE range[s].lo <= d
      <4>1. e <= range[s].hi
        BY <3>1 DEF Within
      <4>2. d \in range[s].lo..range[s].hi
        BY <2>1, <3>1, <3>3, <4>1
      <4>. QED BY <4>2 DEF Within
    <3>. QED BY <3>1, <3>2, <3>3
  <2>2. StoreOK(s)'
    BY <1>a, <1>b, <2>0, <2>1 DEF StoreOK, Stored
  <2>3. FetchOK(s)'
    BY <2>0 DEF FetchOK
  <2>4. \A q \in Syncer \ {s} : FetchOK(q)' /\ StoreOK(q)'
    BY <1>a, <1>b, <2>0, FetchFrame, StoreFrame DEF GapInv
  <2>. QED BY <1>a, <2>2, <2>3, <2>4, NoGapsFrame DEF GapInv
<1>. QED BY <1>1, <1>2 DEF FetchHistory

\* The days stored for the others to see only grow, and grow by what completes them.
LEMMA StorePricesGap ==
  ASSUME NEW s \in Syncer, TypeOK, GapInv, StorePrices(s)
  PROVE  GapInv'
<1> USE NavSyncAssumption DEF world
<1>a. /\ UNCHANGED <<published, instruments, opts, cur, range, points>>
      /\ cur[s] \in Instrument /\ cur[s] \in instruments /\ pc[s] = "store"
      /\ points[s] \subseteq Day
      /\ Conclude(s, "SUCCESS", points[s])
  BY DEF StorePrices, At, TypeOK
<1>b. pc'[s] = "close" /\ \A q \in Syncer \ {s} : pc'[q] = pc[q]
  BY <1>a DEF Conclude, GoTo, TypeOK
<1>1. Stored(cur[s])' = Stored(cur[s]) \cup points[s]
  <2>1. nav'[cur[s]] = [d \in Day |-> IF d \in points[s] THEN "YAHOO" ELSE nav[cur[s]][d]]
    BY <1>a DEF StorePrices, TypeOK
  <2>2. cur'[s] = cur[s]
    BY <1>a
  <2>. QED BY <1>a, <2>1, <2>2 DEF Stored
<1>2. \A i \in Instrument \ {cur[s]} : Stored(i)' = Stored(i)
  BY DEF StorePrices, Stored, TypeOK
<1>3. \A i \in Instrument : Stored(i) \subseteq Stored(i)'
  BY <1>1, <1>2, <1>a
<1>4. NoGaps'
  BY <1>1, <1>2, <1>a DEF GapInv, NoGaps, StoreOK
<1>5. \A i \in Instrument : Stored(i)' \subseteq published'[i]
  BY <1>1, <1>2, <1>a DEF GapInv, StoreOK
<1>6. ASSUME NEW q \in Syncer
      PROVE  FetchOK(q)' /\ StoreOK(q)'
  BY <1>3, <1>a, <1>b DEF GapInv, FetchOK, StoreOK, TypeOK
<1>. QED BY <1>4, <1>5, <1>6, <1>a DEF GapInv

LEMMA AttemptGap ==
  ASSUME NEW s \in Syncer, TypeOK, GapInv, Attempt(s)
  PROVE  GapInv'
<1> USE DEF world
<1>1. CASE ResolveTicker(s)
  BY <1>1, MoveGap DEF ResolveTicker, GoTo, TypeOK
<1>2. CASE ResolveFails(s) \/ FetchFails(s) \/ StoreFails(s)
  BY <1>2, ConcludeGap DEF ResolveFails, FetchFails, StoreFails
<1>. QED BY <1>1, <1>2, ReadLatestGap, FetchHistoryGap, StorePricesGap DEF Attempt

LEMMA AuditGap ==
  ASSUME NEW s \in Syncer, TypeOK, GapInv,
         CloseJob(s) \/ CloseGone(s) \/ RecordJob(s) \/ RecordFails(s)
  PROVE  GapInv'
  BY StopAllGap, ProceedGap DEF CloseJob, CloseGone, RecordJob, RecordFails, world

\* A day is published after all the others: it is missing before no stored one.
LEMMA PublishGap ==
  ASSUME NEW i \in Instrument, NEW d \in Day, TypeOK, GapInv, Publish(i, d),
         "late" \notin Behaviour
  PROVE  GapInv'
<1> USE NavSyncAssumption
<1>a. /\ UNCHANGED <<nav, instruments, opts, cur, pc, range, points>>
      /\ published'[i] = published[i] \cup {d}
      /\ \A j \in Instrument \ {i} : published'[j] = published[j]
  BY DEF Publish, TypeOK, local
<1>b. \A e \in published[i] : e < d /\ e \in Int
  BY DEF Publish, TypeOK, Day
<1>c. d \in Int
  BY DEF Day
<1>d. \A j \in Instrument : Stored(j)' = Stored(j)
  BY <1>a DEF Stored
<1>1. NoGaps'
  <2>1. \A e \in Stored(i) : e < d /\ ~(d < e)
    BY <1>b, <1>c DEF GapInv
  <2>. QED BY <1>a, <1>d, <2>1 DEF GapInv, NoGaps
<1>2. \A j \in Instrument : Stored(j)' \subseteq published'[j]
  BY <1>a, <1>d DEF GapInv
<1>3. ASSUME NEW s \in Syncer
      PROVE  FetchOK(s)'
  <2>1. SUFFICES ASSUME pc[s] = "fetch", cur[s] \in instruments
                 PROVE  /\ range[s].lo = 1 \/ range[s].lo - 1 \in Stored(cur[s])
                        /\ \A e \in published'[cur[s]] : e < range[s].lo => e \in Stored(cur[s])
    BY <1>a, <1>d DEF FetchOK, TypeOK
  <2>2. cur[s] \in Instrument /\ range[s].lo \in Int
    BY <2>1 DEF TypeOK
  <2>3. range[s].lo = 1 \/ range[s].lo - 1 \in Stored(cur[s])
    BY <2>1 DEF GapInv, FetchOK
  <2>4. CASE cur[s] # i
    BY <1>a, <2>1, <2>2, <2>4 DEF GapInv, FetchOK
  <2>5. CASE cur[s] = i
    <3>1. ~(d < range[s].lo)
      <4>1. CASE range[s].lo = 1
        BY <4>1, <1>c DEF Day
      <4>2. CASE range[s].lo - 1 \in Stored(i)
        BY <4>2, <1>b, <1>c, <2>2 DEF GapInv
      <4>. QED BY <2>3, <2>5, <4>1, <4>2
    <3>. QED BY <1>a, <2>1, <2>3, <2>5, <3>1 DEF GapInv, FetchOK
  <2>. QED BY <2>4, <2>5
<1>4. ASSUME NEW s \in Syncer
      PROVE  StoreOK(s)'
  <2>1. SUFFICES ASSUME pc[s] = "store", cur[s] \in instruments
                 PROVE  /\ points[s] \subseteq published'[cur[s]]
                        /\ \A f \in published'[cur[s]], e \in points[s] :
                             f < e => f \in Stored(cur[s]) \cup points[s]
    BY <1>a, <1>d DEF StoreOK, TypeOK
  <2>2. cur[s] \in Instrument
    BY <2>1 DEF TypeOK
  <2>3. CASE cur[s] # i
    BY <1>a, <2>1, <2>2, <2>3 DEF GapInv, StoreOK
  <2>4. CASE cur[s] = i
    <3>1. \A e \in points[s] : ~(d < e)
      BY <1>b, <1>c, <2>1, <2>4 DEF GapInv, StoreOK
    <3>. QED BY <1>a, <2>1, <2>4, <3>1 DEF GapInv, StoreOK
  <2>. QED BY <2>3, <2>4
<1>. QED BY <1>1, <1>2, <1>3, <1>4, <1>a DEF GapInv

LEMMA EnvironmentGap ==
  ASSUME TypeOK, GapInv, Environment, Behaviour \cap {"window", "manual", "late"} = {}
  PROVE  GapInv'
<1> USE DEF world
<1>1. CASE Crash(Caller) \/ Crash(Run)
  BY <1>1, StopAllGap DEF Crash, Syncer
<1>2. CASE NextDay
  BY <1>2 DEF NextDay, local, GapInv, NoGaps, FetchOK, StoreOK, Stored
<1>3. ASSUME NEW i \in Instrument, NEW d \in Day, Publish(i, d) \/ PutPrice(i, d)
      PROVE  GapInv'
  BY <1>3, PublishGap DEF PutPrice
<1>4. ASSUME NEW i \in Instrument, DeleteInstrument(i)
      PROVE  GapInv'
  <2>1. /\ UNCHANGED <<published, opts, cur, pc, range, points>>
        /\ instruments' = instruments \ {i}
    BY <1>4 DEF DeleteInstrument, local
  <2>2. Stored(i)' = {} /\ \A j \in Instrument \ {i} : Stored(j)' = Stored(j)
    BY <1>4 DEF DeleteInstrument, Stored, TypeOK
  <2>3. NoGaps' /\ \A j \in Instrument : Stored(j)' \subseteq published'[j]
    BY <2>1, <2>2 DEF GapInv, NoGaps
  <2>4. \A s \in Syncer : FetchOK(s)' /\ StoreOK(s)'
    BY <2>1, <2>2 DEF GapInv, FetchOK, StoreOK, TypeOK
  <2>. QED BY <2>1, <2>3, <2>4 DEF GapInv
<1>5. ASSUME NEW i \in Instrument, CreateInstrument(i)
      PROVE  GapInv'
  <2>1. /\ UNCHANGED <<published, nav, opts, cur, pc, range, points>>
        /\ instruments' = instruments \cup {i}
        /\ \A s \in Syncer : cur[s] # i
    BY <1>5 DEF CreateInstrument, local
  <2>2. \A s \in Syncer : FetchOK(s)' /\ StoreOK(s)'
    BY <2>1 DEF GapInv, FetchOK, StoreOK, Stored
  <2>. QED BY <2>1, <2>2, NoGapsFrame DEF GapInv
<1>. QED BY <1>1, <1>2, <1>3, <1>4, <1>5 DEF Environment

LEMMA NextGapInv ==
  ASSUME TypeOK, GapInv, [Next]_vars, Behaviour \cap {"window", "manual", "late"} = {}
  PROVE  GapInv'
<1>1. CASE Next
  BY <1>1, BeginningsGap, AttemptGap, AuditGap, EnvironmentGap DEF Next, Progress
<1>2. CASE UNCHANGED vars
  BY <1>2 DEF vars, world, local, GapInv, NoGaps, FetchOK, StoreOK, Stored
<1>. QED BY <1>1, <1>2

\* When all syncs are incremental, and Yahoo's history only grows at its end, no
\* published day before a stored one is ever missing from the table.
THEOREM IncrementalNoGaps ==
  ASSUME Behaviour \cap {"window", "manual", "late"} = {}
  PROVE  Spec => []NoGaps
<1>1. Init => TypeOK /\ GapInv
  BY InitSyncTypeOK, InitGapInv
<1>2. TypeOK /\ GapInv /\ [Next]_vars => (TypeOK /\ GapInv)'
  BY NextSyncTypeOK, NextGapInv
<1>3. GapInv => NoGaps
  BY DEF GapInv
<1>. QED BY <1>1, <1>2, <1>3, PTL DEF Spec

--------------------------------------------------------------------------------
(* The refinement.                                                              *)


Incremental == Behaviour \cap {"window", "manual", "late"} = {}

\* The state of the mirror that the table of prices stands for.
StoredDays == [i \in Instrument |-> Stored(i)]

LEMMA InitMirror ==
  ASSUME Init
  PROVE  Mirror!Init
  BY DEF Init, Mirror!Init, Stored

\* A step that touches neither the table of prices nor what is published.
LEMMA StutterMirror ==
  ASSUME UNCHANGED <<published, nav>>
  PROVE  UNCHANGED Mirror!vars
  BY DEF Mirror!vars, Stored

LEMMA PublishMirror ==
  ASSUME NEW i \in Instrument, NEW d \in Day, Incremental, Publish(i, d)
  PROVE  Mirror!Next
<1>1. Mirror!Publish(i, d)
  BY DEF Publish, Mirror!Publish, Incremental, Stored
<1>. QED BY <1>1 DEF Mirror!Next

LEMMA StoreMirror ==
  ASSUME NEW s \in Syncer, TypeOK, GapInv, GapInv', StorePrices(s)
  PROVE  Mirror!Next
<1>1. PICK i \in Instrument : i = cur[s]
  BY DEF StorePrices, At, TypeOK
<1>2. /\ Stored(i)' = Stored(i) \cup points[s]
      /\ \A j \in Instrument \ {i} : Stored(j)' = Stored(j)
      /\ UNCHANGED published
  <2>1. /\ nav'[i] = [d \in Day |-> IF d \in points[s] THEN "YAHOO" ELSE nav[i][d]]
        /\ \A j \in Instrument \ {i} : nav'[j] = nav[j]
    BY <1>1 DEF StorePrices, TypeOK
  <2>2. points[s] \subseteq Day
    BY DEF TypeOK
  <2>. QED BY <2>1, <2>2, NavSyncAssumption DEF StorePrices, Stored, world
<1>3. Stored(i)' \in SUBSET Day
  BY DEF Stored
<1>4. Mirror!Prefix(i, Stored(i)')
  BY <1>1, <1>2 DEF GapInv, NoGaps, Mirror!Prefix
<1>5. StoredDays' = [StoredDays EXCEPT ![i] = Stored(i)']
  BY <1>1, <1>2 DEF StoredDays
<1>6. Mirror!Extend(i, Stored(i)')
  BY <1>1, <1>2, <1>4, <1>5 DEF Mirror!Extend, StoredDays
<1>. QED BY <1>1, <1>3, <1>6 DEF Mirror!Next

LEMMA DeleteMirror ==
  ASSUME NEW i \in Instrument, TypeOK, DeleteInstrument(i)
  PROVE  Mirror!Next
<1>1. /\ Stored(i)' = {}
      /\ \A j \in Instrument \ {i} : Stored(j)' = Stored(j)
      /\ UNCHANGED published
  BY DEF DeleteInstrument, TypeOK, Stored, world
<1>2. StoredDays' = [StoredDays EXCEPT ![i] = {}]
  BY <1>1 DEF StoredDays
<1>3. Mirror!Erase(i)
  BY <1>1, <1>2 DEF Mirror!Erase, StoredDays
<1>. QED BY <1>3 DEF Mirror!Next

LEMMA NextMirror ==
  ASSUME Incremental, TypeOK, GapInv, GapInv', [Next]_vars
  PROVE  [Mirror!Next]_(Mirror!vars)
<1>1. ASSUME NEW s \in Syncer, NEW S \in SUBSET Instrument, NEW o \in AllowedOptions,
             StartSync(s, S, o)
      PROVE  UNCHANGED <<published, nav>>
  BY <1>1 DEF StartSync, world
<1>2. ASSUME NEW s \in Syncer, Progress(s)
      PROVE  UNCHANGED <<published, nav>> \/ Mirror!Next
  <2>1. CASE StorePrices(s)
    BY <2>1, StoreMirror
  <2>2. CASE Attempt(s) /\ ~StorePrices(s)
    BY <2>2 DEF Attempt, ResolveTicker, ResolveFails, ReadLatest, FetchHistory, FetchFails,
                StoreFails, world
  <2>3. CASE \/ \E i \in Instrument, refresh \in BOOLEAN : BeginJob(s, i, refresh)
             \/ \E i \in Instrument : BeginGone(s, i) \/ BeginAttempt(s, i)
    BY <2>3 DEF BeginJob, BeginGone, BeginAttempt, world
  <2>4. CASE CloseJob(s) \/ CloseGone(s) \/ RecordJob(s) \/ RecordFails(s)
    BY <2>4 DEF CloseJob, CloseGone, RecordJob, RecordFails, world
  <2>. QED BY <1>2, <2>1, <2>2, <2>3, <2>4 DEF Progress
<1>3. ASSUME Environment
      PROVE  UNCHANGED <<published, nav>> \/ Mirror!Next
  <2>1. ASSUME NEW i \in Instrument, NEW d \in Day, Publish(i, d) \/ PutPrice(i, d)
        PROVE  Mirror!Next
    BY <2>1, PublishMirror DEF PutPrice, Incremental
  <2>2. ASSUME NEW i \in Instrument, DeleteInstrument(i)
        PROVE  Mirror!Next
    BY <2>2, DeleteMirror
  <2>3. CASE \/ NextDay
             \/ \E i \in Instrument : CreateInstrument(i)
             \/ Crash(Caller) \/ Crash(Run)
    BY <2>3 DEF NextDay, CreateInstrument, Crash, world
  <2>. QED BY <1>3, <2>1, <2>2, <2>3 DEF Environment
<1>4. CASE UNCHANGED vars
  BY <1>4, StutterMirror DEF vars, world
<1>. QED BY <1>1, <1>2, <1>3, <1>4, StutterMirror DEF Next

\* If nobody asks for explicit dates, puts prices by hand or publishes a day
\* late, the synchronisation is a mirror of what Yahoo publishes: whatever
\* requests and runs overlap, fail or die, the stored days of an instrument are
\* those published up to some day, and each store moves that day forward.
THEOREM SyncImplementsMirror ==
  ASSUME Incremental
  PROVE  Spec => MirrorsPublished
<1>1. Init => Mirror!Init
  BY InitMirror
<1>2. Init => GapInv
  BY InitGapInv
<1>3. TypeOK /\ GapInv /\ [Next]_vars => GapInv'
  BY NextGapInv DEF Incremental
<1>4. TypeOK /\ GapInv /\ GapInv' /\ [Next]_vars => [Mirror!Next]_(Mirror!vars)
  BY NextMirror
<1>. QED BY <1>1, <1>2, <1>3, <1>4, SyncTypeCorrect, PTL DEF Spec, MirrorsPublished, Mirror!Spec

================================================================================
