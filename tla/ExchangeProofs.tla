----------------------------- MODULE ExchangeProofs -----------------------------
(***************************************************************************)
(* What imports do to the tables, for files of any length, any number of   *)
(* instruments, templates and portfolios, and whatever other requests run  *)
(* between two statements of an import; that a backup of a legal ledger is *)
(* whole; that the CSV of instruments and templates reads back; and that   *)
(* the CSV of portfolios says the same as their JSON.                      *)
(***************************************************************************)
EXTENDS Exchange, SumProofs, SequenceTheorems

--------------------------------------------------------------------------------
(* Selections from a sequence, by induction over the places looked at so far.   *)

\* h[n] is what a selection has after the first n places.
Grown(h, s, ks, n) == IF n = 0 THEN << >>
                      ELSE IF n \in ks THEN Append(h[n - 1], s[n]) ELSE h[n - 1]

Grows(h, s, ks, m) == h = [n \in 0..m |-> Grown(h, s, ks, n)]

LEMMA GrowsOn ==
  ASSUME NEW s, NEW ks, NEW m \in Nat, NEW h, Grows(h, s, ks, m)
  PROVE  \E g : Grows(g, s, ks, m + 1)
<1> DEFINE g == [n \in 0..(m + 1) |-> Grown(h, s, ks, n)]
<1>1. ASSUME NEW n \in 0..m PROVE g[n] = h[n]
  <2>1. h[n] = Grown(h, s, ks, n)
    BY DEF Grows
  <2>. QED BY <2>1
<1>2. ASSUME NEW n \in 0..(m + 1) PROVE Grown(g, s, ks, n) = Grown(h, s, ks, n)
  <2>1. n = 0 \/ n - 1 \in 0..m
    OBVIOUS
  <2>2. n = 0 \/ g[n - 1] = h[n - 1]
    BY <1>1, <2>1
  <2>. HIDE DEF g
  <2>. QED BY <2>2 DEF Grown
<1>3. g = [n \in 0..(m + 1) |-> Grown(g, s, ks, n)]
  BY <1>2
<1>4. Grows(g, s, ks, m + 1)
  BY <1>3 DEF Grows
<1>. QED BY <1>4

LEMMA GrowsToEnd ==
  ASSUME NEW S, NEW s \in Seq(S), NEW ks
  PROVE  \E h : Grows(h, s, ks, Len(s))
<1> DEFINE T == {m \in Nat : \E h : Grows(h, s, ks, m)}
<1>1. 0 \in T
  <2> DEFINE h == [n \in 0..0 |-> << >>]
  <2>1. h = [n \in 0..0 |-> Grown(h, s, ks, n)]
    BY DEF Grown
  <2>2. Grows(h, s, ks, 0)
    BY <2>1 DEF Grows
  <2>. QED BY <2>2
<1>2. \A m \in Nat : m \in T => m + 1 \in T
  BY GrowsOn
<1>3. Nat \subseteq T
  <2>. HIDE DEF T
  <2>. QED BY <1>1, <1>2, SetInduction
<1>4. Len(s) \in Nat
  OBVIOUS
<1>. QED BY <1>3, <1>4

LEMMA SelectedGrows ==
  ASSUME NEW S, NEW s \in Seq(S), NEW ks
  PROVE  \E h : Grows(h, s, ks, Len(s)) /\ Selected(s, ks) = h[Len(s)]
<1> DEFINE h == CHOOSE upTo : upTo = [n \in 0..Len(s) |->
                  IF n = 0 THEN << >>
                  ELSE IF n \in ks THEN Append(upTo[n - 1], s[n]) ELSE upTo[n - 1]]
<1>1. Selected(s, ks) = h[Len(s)]
  BY DEF Selected
<1>2. PICK g : Grows(g, s, ks, Len(s))
  BY GrowsToEnd
<1>3. g = [n \in 0..Len(s) |-> IF n = 0 THEN << >>
             ELSE IF n \in ks THEN Append(g[n - 1], s[n]) ELSE g[n - 1]]
  BY <1>2 DEF Grows, Grown
<1>4. h = [n \in 0..Len(s) |-> IF n = 0 THEN << >>
             ELSE IF n \in ks THEN Append(h[n - 1], s[n]) ELSE h[n - 1]]
  BY <1>3
<1>5. Grows(h, s, ks, Len(s))
  BY <1>4 DEF Grows, Grown
<1>. QED BY <1>1, <1>5

LEMMA GrownAt ==
  ASSUME NEW S, NEW s \in Seq(S), NEW ks, NEW h, Grows(h, s, ks, Len(s))
  PROVE  /\ h[0] = << >>
         /\ \A n \in Nat : n + 1 \in 1..Len(s) =>
              h[n + 1] = IF n + 1 \in ks THEN Append(h[n], s[n + 1]) ELSE h[n]
<1>1. \A n \in 0..Len(s) : h[n] = IF n = 0 THEN << >>
             ELSE IF n \in ks THEN Append(h[n - 1], s[n]) ELSE h[n - 1]
  BY DEF Grows, Grown
<1>2. 0 \in 0..Len(s)
  OBVIOUS
<1>3. ASSUME NEW n \in Nat, n + 1 \in 1..Len(s)
      PROVE  h[n + 1] = IF n + 1 \in ks THEN Append(h[n], s[n + 1]) ELSE h[n]
  <2>1. n + 1 \in 0..Len(s) /\ n + 1 # 0 /\ (n + 1) - 1 = n
    BY <1>3
  <2>. QED BY <1>1, <2>1
<1>. QED BY <1>1, <1>2, <1>3

\* What is selected are elements at the places selected.
LEMMA SelectedTyped ==
  ASSUME NEW S, NEW s \in Seq(S), NEW ks, NEW R, \A k \in DOMAIN s : k \in ks => s[k] \in R
  PROVE  Selected(s, ks) \in Seq(R)
<1>1. PICK h : Grows(h, s, ks, Len(s)) /\ Selected(s, ks) = h[Len(s)]
  BY SelectedGrows
<1>2. /\ h[0] = << >>
      /\ \A n \in Nat : n + 1 \in 1..Len(s) =>
           h[n + 1] = IF n + 1 \in ks THEN Append(h[n], s[n + 1]) ELSE h[n]
  BY <1>1, GrownAt
<1> DEFINE T == {n \in Nat : n <= Len(s) => h[n] \in Seq(R)}
<1>3. 0 \in T
  <2>1. << >> \in Seq(R) /\ Len(<< >>) = 0
    OBVIOUS
  <2>. QED BY <1>2, <2>1
<1>4. ASSUME NEW n \in Nat, n \in T PROVE n + 1 \in T
  <2>. SUFFICES ASSUME n + 1 <= Len(s) PROVE h[n + 1] \in Seq(R)
    OBVIOUS
  <2>1. n + 1 \in 1..Len(s) /\ n + 1 \in DOMAIN s /\ h[n] \in Seq(R)
    BY <1>4
  <2>2. h[n + 1] = IF n + 1 \in ks THEN Append(h[n], s[n + 1]) ELSE h[n]
    BY <1>2, <2>1
  <2>. QED BY <2>1, <2>2
<1>5. Nat \subseteq T
  <2>. HIDE DEF T
  <2>. QED BY <1>3, <1>4, SetInduction
<1>. QED BY <1>1, <1>5

\* A selection of all places is the sequence.
LEMMA SelectedWhole ==
  ASSUME NEW S, NEW s \in Seq(S), NEW ks, DOMAIN s \subseteq ks
  PROVE  Selected(s, ks) = s
<1>1. PICK h : Grows(h, s, ks, Len(s)) /\ Selected(s, ks) = h[Len(s)]
  BY SelectedGrows
<1>2. /\ h[0] = << >>
      /\ \A n \in Nat : n + 1 \in 1..Len(s) =>
           h[n + 1] = IF n + 1 \in ks THEN Append(h[n], s[n + 1]) ELSE h[n]
  BY <1>1, GrownAt
<1> DEFINE Begins(n) == h[n] \in Seq(S) /\ Len(h[n]) = n /\ \A k \in 1..n : h[n][k] = s[k]
           T == {n \in Nat : n <= Len(s) => Begins(n)}
<1>3. 0 \in T
  <2>1. << >> \in Seq(S) /\ Len(<< >>) = 0 /\ 1..0 = {}
    OBVIOUS
  <2>2. Begins(0)
    BY <1>2, <2>1
  <2>. HIDE DEF Begins
  <2>. QED BY <2>2
<1>4. ASSUME NEW n \in Nat, n \in T PROVE n + 1 \in T
  <2>. SUFFICES ASSUME n + 1 <= Len(s) PROVE Begins(n + 1)
    OBVIOUS
  <2>1. n + 1 \in 1..Len(s) /\ n + 1 \in DOMAIN s /\ Begins(n)
    BY <1>4
  <2>2. h[n + 1] = Append(h[n], s[n + 1])
    BY <1>2, <2>1
  <2>. QED BY <2>1, <2>2
<1>5. Nat \subseteq T
  <2>. HIDE DEF T
  <2>. QED BY <1>3, <1>4, SetInduction
<1>6. Begins(Len(s))
  BY <1>5
<1>. QED BY <1>1, <1>6

--------------------------------------------------------------------------------
(* Imports of instruments and templates.                                        *)

FileRow(kind) == IF kind = "instruments" THEN InstrumentRow ELSE TemplateRow

\* Which instruments and templates there can be.
CatalogueOK ==
    /\ instruments \in [Isin -> [name : Prose, ext : Ext \cup {Empty}] \cup {None}]
    /\ templates \in [Code -> [desc : Description, items : Items] \cup {None}]

\* How many rows of its file an import is through with.
Past(j) == Len(j.file) - Len(j.rest)

Reportable == Isin \cup Code \cup {None}

\* The rows that are left are the last ones of the file; what is about to be stored
\* has a key, and a template the instruments that were found for it.
JobOK(j) ==
    /\ j.kind \in {"instruments", "templates"} /\ j.step \in {"look", "store"}
    /\ j.items \in Items /\ j.reported \subseteq Reportable /\ j.quiet \in BOOLEAN
    /\ j = [kind |-> j.kind, file |-> j.file, rest |-> j.rest, step |-> j.step,
            items |-> j.items, reported |-> j.reported, quiet |-> j.quiet]
    /\ j.file \in Seq(FileRow(j.kind)) /\ j.rest \in Seq(FileRow(j.kind))
    /\ Len(j.rest) <= Len(j.file)
    /\ \A k \in DOMAIN j.rest : j.rest[k] = j.file[Past(j) + k]
    /\ j.kind = "instruments" /\ j.step = "store" => Head(j.rest).isin # None
    /\ j.kind = "templates" /\ j.step = "store" =>
         Head(j.rest).code # None /\ Alike(j.items, Head(j.rest).items)

\* An import that nobody has disturbed has stored or reported each row it is
\* through with.
Told(j) == j.quiet => \A k \in 1..Past(j) : Kept(j.file[k])

JobInv == job = None \/ (JobOK(job) /\ Told(job))

ExchangeTypes == CatalogueOK /\ (job = None \/ JobOK(job))

LEMMA NextItems ==
  ASSUME NEW items \in Items, NEW ks
  PROVE  Selected(items, ks) \in Items
  BY SelectedTyped DEF Items

\* Items that all have an ISIN are items of a template.
LEMMA ItemsWhenNamed ==
  ASSUME NEW items \in FileItems, Isins(items) \subseteq Isin
  PROVE  items \in Items
<1>1. PICK W : W = Int \cup {NaN}
  OBVIOUS
<1>2. PICK J : J = [isin : Isin \cup {None}, weight : W]
  OBVIOUS
<1>3. items \in Seq(J)
  BY <1>1, <1>2 DEF FileItems
<1>4. PICK I : I = [isin : Isin, weight : W]
  OBVIOUS
<1>5. ASSUME NEW k \in DOMAIN items PROVE items[k] \in I
  <2>1. items[k] \in J
    BY ONLY <1>3, <1>5
  <2>2. items[k].isin \in Isin
    BY <1>5 DEF Isins
  <2>. QED BY <1>2, <1>4, <2>1, <2>2
<1>6. items \in Seq(I)
  BY <1>3, <1>5
<1>. QED BY <1>1, <1>4, <1>6 DEF Items

LEMMA NextCatalogue ==
  ASSUME CatalogueOK, job = None \/ JobOK(job), [Next]_vars
  PROVE  CatalogueOK'
<1>1. CASE Import
  <2>1. CASE StoreInstrument
    <3>1. /\ job # None /\ JobOK(job) /\ job.kind = "instruments" /\ job.rest # << >>
          /\ job.step = "store" /\ UNCHANGED templates
          /\ instruments' = [instruments EXCEPT ![Head(job.rest).isin] =
                [name |-> Head(job.rest).name, ext |-> Head(job.rest).ext]]
      BY <2>1 DEF StoreInstrument, Running
    <3>2. Head(job.rest) \in InstrumentRow /\ Head(job.rest).isin # None
      BY <3>1 DEF JobOK, FileRow
    <3>. QED BY <3>1, <3>2 DEF CatalogueOK, InstrumentRow
  <2>2. CASE StoreTemplate
    <3>1. /\ job # None /\ JobOK(job) /\ job.kind = "templates" /\ job.rest # << >>
          /\ job.step = "store" /\ UNCHANGED instruments
          /\ \/ UNCHANGED templates
             \/ templates' = [templates EXCEPT ![Head(job.rest).code] =
                  [desc |-> Trim(Head(job.rest).desc), items |-> job.items]]
      BY <2>2 DEF StoreTemplate, Running
    <3>2. PICK head : head = Head(job.rest)
      OBVIOUS
    <3>3. head \in TemplateRow /\ head.code # None /\ job.items \in Items
      BY <3>1, <3>2 DEF JobOK, FileRow
    <3>4. head.code \in Code /\ head.desc \in Prose
      BY <3>3 DEF TemplateRow
    <3>5. Trim(head.desc) \in Description
      BY <3>4 DEF Description
    <3>6. PICK its \in Items : its = job.items
      BY <3>3
    <3>7. PICK desc \in Description : desc = Trim(head.desc)
      BY <3>5
    <3>. QED BY ONLY <3>1, <3>2, <3>4, <3>6, <3>7, CatalogueOK DEF CatalogueOK
  <2>3. CASE UNCHANGED <<instruments, templates>>
    BY <2>3 DEF CatalogueOK
  <2>. QED
    BY <1>1, <2>1, <2>2, <2>3 DEF Import, Start, LookInstrument, StoreInstrumentFails,
       LookTemplate, Done
<1>2. ASSUME NEW x \in Isin, DeleteInstrument(x) PROVE CatalogueOK'
  <2>1. /\ instruments' = [instruments EXCEPT ![x] = None]
        /\ templates' = [c \in Code |-> IF templates[c] = None THEN None
              ELSE [templates[c] EXCEPT !.items =
                      Selected(@, {k \in DOMAIN @ : @[k].isin # x})]]
    BY <1>2 DEF DeleteInstrument
  <2>2. ASSUME NEW c \in Code, templates[c] # None
        PROVE  templates'[c] \in [desc : Description, items : Items]
    <3>1. templates[c].items \in Items /\ templates[c] \in [desc : Description, items : Items]
      BY <2>2 DEF CatalogueOK
    <3>2. Selected(templates[c].items,
                   {k \in DOMAIN templates[c].items : templates[c].items[k].isin # x}) \in Items
      BY <3>1, NextItems
    <3>. QED BY <2>1, <2>2, <3>1, <3>2
  <2>. QED BY <2>1, <2>2 DEF CatalogueOK
<1>3. ASSUME NEW x \in Isin, NEW name \in Prose, CreateInstrument(x, name) PROVE CatalogueOK'
  BY <1>3 DEF CreateInstrument, CatalogueOK
<1>4. ASSUME NEW file \in TemplateFile, NEW k \in DOMAIN file, CreateTemplate(file[k])
      PROVE  CatalogueOK'
  <2>1. file \in Seq(TemplateRow)
    BY ExchangeAssumption DEF TemplateRow
  <2>2. file[k] \in TemplateRow
    BY <2>1
  <2>3. PICK row \in TemplateRow : row = file[k]
    BY <2>2
  <2>4. /\ row.code \in Code /\ row.desc \in Prose /\ row.items \in FileItems
        /\ Isins(row.items) \subseteq Isin
    BY <1>4, <2>3 DEF CreateTemplate, TemplateRow
  <2>5. row.items \in Items
    BY <2>4, ItemsWhenNamed
  <2>6. PICK desc \in Description : desc = Trim(row.desc)
    BY <2>4 DEF Description
  <2>7. /\ UNCHANGED instruments
        /\ templates' = [templates EXCEPT ![row.code] = [desc |-> desc, items |-> row.items]]
    BY <1>4, <2>3, <2>6 DEF CreateTemplate
  <2>. QED BY ONLY <2>4, <2>5, <2>6, <2>7, CatalogueOK DEF CatalogueOK
<1>5. ASSUME NEW c \in Code, DeleteTemplate(c) PROVE CatalogueOK'
  BY <1>5 DEF DeleteTemplate, CatalogueOK
<1>6. ASSUME UNCHANGED <<instruments, templates>> PROVE CatalogueOK'
  BY <1>6 DEF CatalogueOK
<1>. QED
  BY <1>1, <1>2, <1>3, <1>4, <1>5, <1>6
  DEF Next, vars, CreatePortfolio, AddTransaction, DeletePortfolio, ImportPortfolios

\* An import goes on to its next row.
LEMMA JobGoesOn ==
  ASSUME NEW j, JobOK(j), j.rest # << >>, NEW R \in SUBSET Reportable
  PROVE  LET n == [j EXCEPT !.rest = Tail(j.rest), !.step = "look", !.items = << >>,
                            !.reported = R] IN
         /\ JobOK(n) /\ n.file = j.file /\ n.kind = j.kind /\ n.quiet = j.quiet
         /\ n.reported = R
         /\ Past(n) = Past(j) + 1 /\ Past(j) \in Nat
         /\ j.file[Past(j) + 1] = Head(j.rest) /\ Head(j.rest) \in FileRow(j.kind)
<1>1. PICK kind, file, rest, step, items, reported, quiet :
        j = [kind |-> kind, file |-> file, rest |-> rest, step |-> step,
             items |-> items, reported |-> reported, quiet |-> quiet]
  BY DEF JobOK
<1> DEFINE n == [kind |-> kind, file |-> file, rest |-> Tail(rest), step |-> "look",
                 items |-> << >>, reported |-> R, quiet |-> quiet]
           F == FileRow(kind)
<1>2. [j EXCEPT !.rest = Tail(j.rest), !.step = "look", !.items = << >>, !.reported = R] = n
  <2>1. PICK t : t = Tail(rest)
    OBVIOUS
  <2>2. PICK u, v : u = "look" /\ v = << >>
    OBVIOUS
  <2>3. [j EXCEPT !.rest = t, !.step = u, !.items = v, !.reported = R] =
           [kind |-> kind, file |-> file, rest |-> t, step |-> u,
            items |-> v, reported |-> R, quiet |-> quiet]
    <3>1. PICK k : k = [j EXCEPT !.rest = t]
      OBVIOUS
    <3>2. k = [kind |-> kind, file |-> file, rest |-> t, step |-> step,
               items |-> items, reported |-> reported, quiet |-> quiet]
      BY ONLY <1>1, <3>1
    <3>3. PICK m : m = [k EXCEPT !.step = u]
      OBVIOUS
    <3>4. m = [kind |-> kind, file |-> file, rest |-> t, step |-> u,
               items |-> items, reported |-> reported, quiet |-> quiet]
      BY ONLY <3>2, <3>3
    <3>5. PICK l : l = [m EXCEPT !.items = v]
      OBVIOUS
    <3>6. l = [kind |-> kind, file |-> file, rest |-> t, step |-> u,
               items |-> v, reported |-> reported, quiet |-> quiet]
      BY ONLY <3>4, <3>5
    <3>7. [l EXCEPT !.reported = R] =
             [kind |-> kind, file |-> file, rest |-> t, step |-> u,
              items |-> v, reported |-> R, quiet |-> quiet]
      BY ONLY <3>6
    <3>. QED BY <3>1, <3>3, <3>5, <3>7
  <2>4. j.rest = rest
    BY <1>1
  <2>. QED BY <2>1, <2>2, <2>3, <2>4
<1>3. /\ kind \in {"instruments", "templates"} /\ file \in Seq(F) /\ rest \in Seq(F)
      /\ Len(rest) <= Len(file) /\ rest # << >> /\ quiet \in BOOLEAN
      /\ \A k \in DOMAIN rest : rest[k] = file[Len(file) - Len(rest) + k]
  BY <1>1 DEF JobOK, Past
<1>. HIDE DEF F
<1>4. /\ Tail(rest) \in Seq(F) /\ Len(Tail(rest)) = Len(rest) - 1
      /\ Len(rest) \in Nat /\ Len(file) \in Nat /\ Len(rest) >= 1
      /\ Head(rest) = rest[1] /\ Head(rest) \in F
      /\ \A k \in 1..(Len(rest) - 1) : Tail(rest)[k] = rest[k + 1]
      /\ DOMAIN Tail(rest) = 1..(Len(rest) - 1) /\ DOMAIN rest = 1..Len(rest)
  BY <1>3
<1>5. ASSUME NEW k \in DOMAIN Tail(rest)
      PROVE  Tail(rest)[k] = file[Len(file) - Len(Tail(rest)) + k]
  <2>1. k + 1 \in DOMAIN rest
        /\ Len(file) - Len(rest) + (k + 1) = Len(file) - (Len(rest) - 1) + k
    BY <1>4
  <2>. QED BY <1>3, <1>4, <2>1
<1>6. JobOK(n)
  <2>1. << >> \in Items
    BY DEF Items
  <2>. QED BY <1>3, <1>4, <1>5, <2>1 DEF JobOK, Past, F
<1>7. /\ Past(n) = Past(j) + 1 /\ Past(j) \in Nat
      /\ file[Past(j) + 1] = Head(rest)
  BY <1>1, <1>3, <1>4 DEF Past
<1>. QED BY <1>1, <1>2, <1>4, <1>6, <1>7 DEF F

\* A row that is stored or reported stays so while nothing is changed or removed.
LEMMA KeptStays ==
  ASSUME CatalogueOK, NEW row \in FileRow(job.kind), Kept(row),
         job.kind \in {"instruments", "templates"}, job'.kind = job.kind,
         job.reported \subseteq job'.reported,
         \A x \in Isin : instruments[x] # None => instruments'[x] = instruments[x],
         \A c \in Code : templates[c] # None => templates'[c] = templates[c]
  PROVE  Kept(row)'
<1>1. CASE job.kind = "instruments"
  <2>1. /\ row.isin = None \/ row.isin \in Isin
        /\ [name |-> row.name, ext |-> row.ext] # None
    BY <1>1, ExchangeAssumption DEF FileRow, InstrumentRow
  <2>. QED BY <1>1, <2>1 DEF Kept
<1>2. CASE job.kind = "templates"
  <2>1. row.code = None \/ row.code \in Code
    BY <1>2 DEF FileRow, TemplateRow
  <2>2. CASE row.code # None /\ templates[row.code] # None
    BY <1>2, <2>1, <2>2 DEF Kept
  <2>. QED BY <1>2, <2>1, <2>2 DEF Kept
<1>. QED BY <1>1, <1>2

LEMMA ToldOn ==
  ASSUME CatalogueOK, JobOK(job), Told(job), job.rest # << >>,
         NEW R \in SUBSET Reportable,
         job' = [job EXCEPT !.rest = Tail(job.rest), !.step = "look", !.items = << >>, !.reported = R],
         job.reported \subseteq R,
         \A x \in Isin : instruments[x] # None => instruments'[x] = instruments[x],
         \A c \in Code : templates[c] # None => templates'[c] = templates[c],
         NEW head, head = Head(job.rest), Kept(head)'
  PROVE  JobInv'
<1> DEFINE F == FileRow(job.kind)
<1>1. PICK n : n = job'
  OBVIOUS
<1>2. /\ JobOK(n) /\ n.file = job.file /\ n.kind = job.kind
      /\ n.quiet = job.quiet /\ n.reported = R
      /\ Past(n) = Past(job) + 1 /\ Past(job) \in Nat
      /\ job.file[Past(job) + 1] = Head(job.rest)
  BY <1>1, JobGoesOn
<1>3. /\ job.kind \in {"instruments", "templates"} /\ job'.kind = job.kind
      /\ job.reported \subseteq job'.reported /\ job.file \in Seq(F)
  BY <1>1, <1>2 DEF JobOK
<1>4. ASSUME n.quiet, NEW k \in 1..Past(n) PROVE Kept(n.file[k])'
  <2>1. CASE k \in 1..Past(job)
    <3>1. k \in 1..Len(job.file) /\ Kept(job.file[k])
      <4>1. job.file \in Seq(F) /\ job.rest \in Seq(F)
        BY DEF JobOK
      <4>3. Len(job.file) \in Nat /\ Len(job.rest) \in Nat
        BY <4>1
      <4>4. PICK m \in Nat, l \in Nat : m = Len(job.file) /\ l = Len(job.rest)
        BY <4>3
      <4>5. k \in 1..(m - l)
        BY <2>1, <4>4 DEF Past
      <4>2. k \in 1..Len(job.file)
        BY ONLY <4>4, <4>5
      <4>. QED BY <1>2, <1>4, <2>1, <4>2 DEF Told
    <3>2. PICK row \in F : row = job.file[k] /\ Kept(row)
      BY <1>3, <3>1
    <3>3. Kept(row)'
      BY <1>3, <3>2, KeptStays
    <3>. QED BY <1>2, <3>2, <3>3
  <2>2. CASE k = Past(job) + 1
    <3>1. n.file[k] = Head(job.rest)
      BY <1>2, <2>2
    <3>. QED BY <3>1
  <2>. QED BY <1>2, <1>4, <2>1, <2>2
<1>. QED BY <1>1, <1>2, <1>4 DEF JobInv, Told, Kept

LEMMA JobIsNotNone == ASSUME NEW j, JobOK(j) PROVE j # None
<1>1. PICK kind, file, rest, step, items, reported, quiet :
        j = [kind |-> kind, file |-> file, rest |-> rest, step |-> step,
             items |-> items, reported |-> reported, quiet |-> quiet]
  BY DEF JobOK
<1>2. /\ kind \in {"instruments", "templates"} /\ step \in {"look", "store"}
      /\ items \in Items
      /\ reported \in SUBSET Reportable /\ quiet \in BOOLEAN
      /\ file \in AnyFile /\ rest \in AnyFile
  BY <1>1 DEF JobOK, FileRow, AnyFile
<1>3. j \in Job
  BY <1>1, <1>2 DEF Job, Reportable
<1>. QED BY <1>3, ExchangeAssumption

\* Another request notes that it has disturbed the import, if one is running.
LEMMA JobDisturbed ==
  ASSUME JobInv, Disturb
  PROVE  /\ JobInv'
         /\ job' # job => job'.quiet # job.quiet
         /\ job # None => job' # None
<1>1. CASE job = None
  BY <1>1 DEF Disturb, JobInv
<1>2. CASE job # None
  <2>1. PICK kind, file, rest, step, items, reported, quiet :
          job = [kind |-> kind, file |-> file, rest |-> rest, step |-> step,
                 items |-> items, reported |-> reported, quiet |-> quiet]
    BY <1>2 DEF JobInv, JobOK
  <2>2. PICK n : n = job'
    OBVIOUS
  <2>3. PICK no : no = FALSE
    OBVIOUS
  <2>4. n = [job EXCEPT !.quiet = no]
    BY <1>2, <2>2, <2>3 DEF Disturb
  <2>5. n = [kind |-> kind, file |-> file, rest |-> rest, step |-> step,
             items |-> items, reported |-> reported, quiet |-> no]
    BY ONLY <2>1, <2>4
  <2>6. JobOK(n) /\ ~n.quiet
    BY <1>2, <2>1, <2>3, <2>5 DEF JobInv, JobOK, Past
  <2>7. n # job => n.quiet # job.quiet
    BY <2>1, <2>5
  <2>8. n # None
    BY <2>6, JobIsNotNone
  <2>. QED BY <2>2, <2>6, <2>7, <2>8 DEF JobInv, Told
<1>. QED BY <1>1, <1>2

\* The first instrument that is missing is one that is missing.
LEMMA FirstMissingIsins ==
  ASSUME NEW items \in FileItems, Missing(items) # {}
  PROVE  LET x == items[Min(Missing(items))].isin IN x \in Isins(items) /\ x \in Reportable
<1>1. PICK I : I = [isin : Isin \cup {None}, weight : Int \cup {NaN}]
  OBVIOUS
<1>2. items \in Seq(I)
  BY <1>1 DEF FileItems
<1>3. DOMAIN items = 1..Len(items) /\ Len(items) \in Nat
  BY ONLY <1>2
<1>4. PICK K : K = Missing(items)
  OBVIOUS
<1>5. K # {} /\ K \subseteq Nat /\ K \subseteq DOMAIN items
  BY <1>3, <1>4 DEF Missing
<1>6. PICK n \in K : \A m \in K : n <= m
  BY <1>5, Smallest
<1>7. Min(K) \in K
  BY <1>6 DEF Min
<1>8. PICK k \in DOMAIN items : k = Min(K)
  BY <1>5, <1>7
<1>9. items[k] \in I
  BY ONLY <1>2, <1>8
<1>10. items[k].isin \in Isin \cup {None}
  BY <1>1, <1>9
<1>. QED BY <1>4, <1>8, <1>10 DEF Isins, Reportable

\* What was found for the items of a row that none is missing of.
LEMMA ResolvedItems ==
  ASSUME NEW items \in FileItems, Missing(items) = {}, NEW any \in AnyInstrument
  PROVE  Resolved(items, any) \in Items /\ Alike(Resolved(items, any), items)
<1>1. PICK W : W = Int \cup {NaN}
  OBVIOUS
<1>2. PICK I : I = [isin : Isin \cup {None}, weight : W]
  OBVIOUS
<1>3. PICK R : R = [isin : Isin, weight : W]
  OBVIOUS
<1>4. items \in Seq(I)
  BY <1>1, <1>2 DEF FileItems
<1>5. PICK s : s = Resolved(items, any)
  OBVIOUS
<1>6. s = [k \in DOMAIN items |-> IF items[k].isin = None THEN [items[k] EXCEPT !.isin = any]
                                  ELSE items[k]]
  BY <1>5 DEF Resolved, Mapped
<1>7. DOMAIN items = 1..Len(items) /\ Len(items) \in Nat
  BY ONLY <1>4
<1>8. ASSUME NEW k \in DOMAIN items
      PROVE  /\ s[k] \in R /\ s[k].weight = items[k].weight
             /\ items[k].isin \in {None, s[k].isin}
  <2>1. PICK item \in I : item = items[k]
    BY ONLY <1>4, <1>8
  <2>2. Found(item.isin) # {}
    BY <2>1 DEF Missing
  <2>3. item.isin \in Isin \cup {None} /\ item.weight \in W
    BY <1>2, <2>1
  <2>4. CASE item.isin = None
    <3>1. Found(None) # {}
      BY <2>2, <2>4
    <3>2. any \in Found(None)
      BY <3>1 DEF AnyInstrument
    <3>3. any \in Isin
      BY <3>2 DEF Found
    <3>4. s[k] = [item EXCEPT !.isin = any]
      BY <1>6, <2>1, <2>4
    <3>5. item = [isin |-> item.isin, weight |-> item.weight]
      BY <1>2
    <3>6. s[k] = [isin |-> any, weight |-> item.weight]
      BY ONLY <3>4, <3>5
    <3>. QED BY <1>3, <2>1, <2>3, <2>4, <3>3, <3>6
  <2>5. CASE item.isin # None
    <3>1. s[k] = item /\ item.isin \in Isin
      BY <1>6, <2>1, <2>3, <2>5
    <3>. QED BY <1>2, <1>3, <2>1, <2>3, <3>1
  <2>. QED BY <2>4, <2>5
<1>9. Len(s) = Len(items) /\ s \in Seq(R)
  <2>1. DOMAIN s = 1..Len(items)
    BY <1>6, <1>7
  <2>2. s = [k \in 1..Len(items) |-> s[k]] /\ \A k \in 1..Len(items) : s[k] \in R
    BY <1>6, <1>7, <1>8
  <2>. QED BY ONLY <1>7, <2>1, <2>2
<1>. QED BY <1>1, <1>3, <1>5, <1>8, <1>9 DEF Items, Alike

LEMMA StartJob ==
  ASSUME NEW kind \in {"instruments", "templates"}, NEW file \in Seq(FileRow(kind)),
         Start(kind, file)
  PROVE  JobInv'
<1>1. PICK n : n = [kind |-> kind, file |-> file, rest |-> file, step |-> "look",
                    items |-> << >>, reported |-> {}, quiet |-> TRUE]
  OBVIOUS
<1>2. /\ Len(file) - Len(file) = 0 /\ Len(file) <= Len(file)
      /\ \A k \in DOMAIN file : 0 + k = k
  OBVIOUS
<1>3. JobOK(n) /\ Past(n) = 0
  <2>1. << >> \in Items
    BY DEF Items
  <2>. QED BY <1>1, <1>2, <2>1 DEF JobOK, Past
<1>4. job' = n
  BY <1>1 DEF Start
<1>. QED BY <1>3, <1>4 DEF JobInv, Told

LEMMA LooksOn ==
  ASSUME CatalogueOK, JobInv, job # None, job.rest # << >>,
         NEW R \in SUBSET Reportable,
         job' = [job EXCEPT !.rest = Tail(job.rest), !.step = "look", !.items = << >>, !.reported = R],
         job.reported \subseteq R, UNCHANGED <<instruments, templates>>,
         NEW head, head = Head(job.rest), Kept(head)'
  PROVE  JobInv'
<1>1. /\ \A x \in Isin : instruments[x] # None => instruments'[x] = instruments[x]
      /\ \A c \in Code : templates[c] # None => templates'[c] = templates[c]
  OBVIOUS
<1>. QED BY <1>1, ToldOn DEF JobInv

\* A row that is to be stored: nothing has been stored or reported yet.
LEMMA StoresNext ==
  ASSUME JobInv, job # None, job.rest # << >>, NEW its \in Items, job' = Storing(its),
         UNCHANGED <<instruments, templates>>,
         job.kind = "instruments" => Head(job.rest).isin # None,
         job.kind = "templates" =>
             Head(job.rest).code # None /\ Alike(its, Head(job.rest).items)
  PROVE  JobInv'
<1>1. PICK kind, file, rest, step, items, reported, quiet :
        job = [kind |-> kind, file |-> file, rest |-> rest, step |-> step,
               items |-> items, reported |-> reported, quiet |-> quiet]
  BY DEF JobInv, JobOK
<1>2. PICK n : n = job'
  OBVIOUS
<1>3. PICK u : u = "store"
  OBVIOUS
<1>4. n = [job EXCEPT !.step = u, !.items = its]
  BY <1>2, <1>3 DEF Storing
<1>5. n = [kind |-> kind, file |-> file, rest |-> rest, step |-> u,
           items |-> its, reported |-> reported, quiet |-> quiet]
  BY ONLY <1>1, <1>4
<1>6. JobOK(n)
  BY <1>1, <1>3, <1>5 DEF JobInv, JobOK, Past
<1>7. /\ n.kind = job.kind /\ n.file = job.file /\ n.rest = job.rest
      /\ n.reported = job.reported /\ n.quiet = job.quiet
  BY <1>1, <1>5
<1>8. Told(job)'
  <2>1. \A row : Kept(row)' <=> Kept(row)
    BY <1>2, <1>7 DEF Kept
  <2>2. job'.quiet = job.quiet /\ job'.file = job.file /\ Past(job)' = Past(job)
    BY <1>2, <1>7 DEF Past
  <2>3. Told(job)
    BY <1>1 DEF JobInv
  <2>. QED BY <2>1, <2>2, <2>3 DEF Told
<1>. QED BY <1>2, <1>6, <1>8 DEF JobInv

LEMMA RunningJob ==
  ASSUME JobInv, NEW kind \in {"instruments", "templates"}, NEW step, Running(kind, step)
  PROVE  /\ job # None /\ JobOK(job) /\ Told(job) /\ job.kind = kind /\ job.step = step
         /\ job.rest # << >> /\ Head(job.rest) \in FileRow(kind)
  BY DEF Running, JobInv, JobOK

\* Its parts that are left out here stay as they are.
LEMMA DroppedIs ==
  ASSUME JobInv, job # None
  PROVE  /\ Dropped = [job EXCEPT !.rest = Tail(job.rest), !.step = "look", !.items = << >>,
                                  !.reported = job.reported]
         /\ \A what : Reported(what) =
              [job EXCEPT !.rest = Tail(job.rest), !.step = "look", !.items = << >>,
                          !.reported = job.reported \cup what]
<1>1. PICK kind, file, rest, step, items, reported, quiet :
        job = [kind |-> kind, file |-> file, rest |-> rest, step |-> step,
               items |-> items, reported |-> reported, quiet |-> quiet]
  BY DEF JobInv, JobOK
<1>2. PICK t, u, v : t = Tail(rest) /\ u = "look" /\ v = << >>
  OBVIOUS
<1>3. PICK k : k = [job EXCEPT !.rest = t]
  OBVIOUS
<1>4. k = [kind |-> kind, file |-> file, rest |-> t, step |-> step,
           items |-> items, reported |-> reported, quiet |-> quiet]
  BY ONLY <1>1, <1>3
<1>5. PICK l : l = [k EXCEPT !.step = u]
  OBVIOUS
<1>6. l = [kind |-> kind, file |-> file, rest |-> t, step |-> u,
           items |-> items, reported |-> reported, quiet |-> quiet]
  BY ONLY <1>4, <1>5
<1>7. PICK m : m = [l EXCEPT !.items = v]
  OBVIOUS
<1>8. m = [kind |-> kind, file |-> file, rest |-> t, step |-> u,
           items |-> v, reported |-> reported, quiet |-> quiet]
  BY ONLY <1>6, <1>7
<1>9. job.rest = rest /\ job.reported = reported /\ m.reported = reported
  BY <1>1, <1>8
<1>10. Dropped = m
  BY <1>2, <1>3, <1>5, <1>7, <1>9 DEF Dropped
<1>11. [m EXCEPT !.reported = reported] = m
  BY ONLY <1>8
<1>12. \A R : [job EXCEPT !.rest = t, !.step = u, !.items = v, !.reported = R] =
                 [m EXCEPT !.reported = R]
  BY ONLY <1>3, <1>5, <1>7
<1>13. ASSUME NEW what
       PROVE  Reported(what) = [m EXCEPT !.reported = reported \cup what]
  BY <1>9, <1>10 DEF Reported
<1>. QED BY <1>2, <1>9, <1>10, <1>11, <1>12, <1>13

LEMMA InstrumentLooked ==
  ASSUME CatalogueOK, JobInv, LookInstrument
  PROVE  JobInv'
<1>1. /\ job # None /\ JobOK(job) /\ job.kind = "instruments" /\ job.rest # << >>
      /\ Head(job.rest) \in FileRow("instruments") /\ UNCHANGED <<instruments, templates>>
  BY RunningJob DEF LookInstrument
<1>2. PICK head : head = Head(job.rest)
  OBVIOUS
<1>3. CASE head.isin # None /\ instruments[head.isin] # None
  <2>1. job' = [job EXCEPT !.rest = Tail(job.rest), !.step = "look", !.items = << >>,
                           !.reported = job.reported \cup {head.isin}]
    BY <1>1, <1>2, <1>3, DroppedIs DEF LookInstrument
  <2>2. PICK R \in SUBSET Reportable : R = job.reported \cup {head.isin}
    <3>1. head.isin \in Reportable /\ job.reported \subseteq Reportable
      BY <1>1, <1>2 DEF FileRow, InstrumentRow, JobOK, Reportable
    <3>. QED BY <3>1
  <2>3. job' = [job EXCEPT !.rest = Tail(job.rest), !.step = "look", !.items = << >>,
                           !.reported = R]
    BY <2>1, <2>2
  <2>4. job'.kind = job.kind /\ job'.reported = R
    BY <1>1, <2>3, JobGoesOn
  <2>5. Kept(head)' /\ job.reported \subseteq R
    BY <1>1, <2>2, <2>4 DEF Kept
  <2>. QED BY <1>1, <1>2, <2>3, <2>5, LooksOn
<1>4. CASE head.isin # None /\ instruments[head.isin] = None
  <2>1. job' = Storing(<< >>)
    BY <1>2, <1>4 DEF LookInstrument
  <2>2. << >> \in Items
    BY DEF Items
  <2>3. PICK its \in Items : its = << >>
    BY <2>2
  <2>4. job' = Storing(its)
    BY <2>1, <2>3
  <2>. QED BY <1>1, <1>2, <1>4, <2>3, <2>4, StoresNext
<1>5. CASE head.isin = None
  <2>1. job' = Dropped
    BY <1>2, <1>5 DEF LookInstrument
  <2>2. PICK R \in SUBSET Reportable : R = job.reported
    BY <1>1 DEF JobOK
  <2>3. job' = [job EXCEPT !.rest = Tail(job.rest), !.step = "look", !.items = << >>,
                           !.reported = R]
    BY <1>1, <2>1, <2>2, DroppedIs
  <2>4. job'.kind = job.kind
    BY <1>1, <2>3, JobGoesOn
  <2>5. Kept(head)' /\ job.reported \subseteq R
    BY <1>1, <1>5, <2>2, <2>4 DEF Kept
  <2>. QED BY <1>1, <1>2, <2>3, <2>5, LooksOn
<1>. QED BY <1>3, <1>4, <1>5

LEMMA InstrumentStored ==
  ASSUME CatalogueOK, JobInv, StoreInstrument
  PROVE  JobInv'
<1>1. /\ job # None /\ JobOK(job) /\ Told(job) /\ job.kind = "instruments" /\ job.rest # << >>
      /\ job.step = "store" /\ Head(job.rest) \in FileRow("instruments") /\ UNCHANGED templates
  BY RunningJob DEF StoreInstrument
<1>2. PICK head : head = Head(job.rest)
  OBVIOUS
<1>3. head.isin \in Isin
  BY <1>1, <1>2 DEF FileRow, InstrumentRow, JobOK
<1>4. /\ instruments[head.isin] = None
      /\ instruments' = [instruments EXCEPT ![head.isin] = [name |-> head.name, ext |-> head.ext]]
      /\ DOMAIN instruments = Isin
  BY <1>2 DEF StoreInstrument, CatalogueOK
<1>5. PICK R \in SUBSET Reportable : R = job.reported
  BY <1>1 DEF JobOK
<1>6. job' = [job EXCEPT !.rest = Tail(job.rest), !.step = "look", !.items = << >>, !.reported = R]
  BY <1>1, <1>5, DroppedIs DEF StoreInstrument
<1>7. job'.kind = job.kind
  BY <1>1, <1>6, JobGoesOn
<1>8. /\ Kept(head)' /\ job.reported \subseteq R
      /\ \A x \in Isin : instruments[x] # None => instruments'[x] = instruments[x]
      /\ \A c \in Code : templates[c] # None => templates'[c] = templates[c]
  BY <1>1, <1>3, <1>4, <1>5, <1>7 DEF Kept
<1>. QED BY <1>1, <1>2, <1>6, <1>8, ToldOn

LEMMA TemplateLooked ==
  ASSUME CatalogueOK, JobInv, LookTemplate
  PROVE  JobInv'
<1>1. /\ job # None /\ JobOK(job) /\ job.kind = "templates" /\ job.rest # << >>
      /\ Head(job.rest) \in FileRow("templates") /\ UNCHANGED <<instruments, templates>>
  BY RunningJob DEF LookTemplate
<1>2. PICK head : head = Head(job.rest)
  OBVIOUS
<1>3. head.items \in FileItems
  BY <1>1, <1>2 DEF FileRow, TemplateRow
<1>4. ASSUME NEW what \in SUBSET Reportable, job' = Reported(what),
             ({head.code} \cup Isins(head.items)) \cap what # {} \/ head.code = None
      PROVE  JobInv'
  <2>1. PICK R \in SUBSET Reportable : R = job.reported \cup what
    BY <1>1, <1>4 DEF JobOK
  <2>2. job' = [job EXCEPT !.rest = Tail(job.rest), !.step = "look", !.items = << >>, !.reported = R]
    BY <1>1, <1>4, <2>1, DroppedIs
  <2>3. job'.kind = job.kind /\ job'.reported = R
    BY <1>1, <2>2, JobGoesOn
  <2>4. Kept(head)' /\ job.reported \subseteq R
    BY <1>1, <1>4, <2>1, <2>3 DEF Kept
  <2>. QED BY <1>1, <1>2, <2>2, <2>4, LooksOn
<1>5. CASE head.code = None
  <2>1. job' = Dropped
    BY <1>2, <1>5 DEF LookTemplate
  <2>2. job' = Reported({})
    <3>1. job.reported \cup {} = job.reported
      OBVIOUS
    <3>. QED BY <1>1, <2>1, <3>1, DroppedIs
  <2>. QED BY <1>4, <1>5, <2>2
<1>6. CASE head.code # None /\ templates[head.code] # None
  <2>1. head.code \in Reportable /\ job' = Reported({head.code})
    BY <1>1, <1>2, <1>6 DEF LookTemplate, FileRow, TemplateRow, Reportable
  <2>. QED BY <1>4, <2>1
<1>7. CASE head.code # None /\ templates[head.code] = None /\ Missing(head.items) # {}
  <2>1. PICK x : x = head.items[Min(Missing(head.items))].isin
    OBVIOUS
  <2>2. job' = Reported({x})
    BY <1>2, <1>7, <2>1 DEF LookTemplate
  <2>3. x \in Isins(head.items) /\ x \in Reportable
    BY <1>3, <1>7, <2>1, FirstMissingIsins
  <2>. QED BY <1>4, <2>2, <2>3
<1>8. CASE head.code # None /\ templates[head.code] = None /\ Missing(head.items) = {}
  <2>1. PICK any \in AnyInstrument : job' = Storing(Resolved(head.items, any))
    BY <1>2, <1>8 DEF LookTemplate
  <2>2. PICK its \in Items : its = Resolved(head.items, any) /\ Alike(its, head.items)
    BY <1>3, <1>8, <2>1, ResolvedItems
  <2>3. job' = Storing(its)
    BY <2>1, <2>2
  <2>. QED BY <1>1, <1>2, <1>8, <2>2, <2>3, StoresNext
<1>. QED BY <1>5, <1>6, <1>7, <1>8

LEMMA TemplateStored ==
  ASSUME CatalogueOK, JobInv, StoreTemplate
  PROVE  JobInv'
<1>1. /\ job # None /\ JobOK(job) /\ Told(job) /\ job.kind = "templates" /\ job.rest # << >>
      /\ job.step = "store" /\ Head(job.rest) \in FileRow("templates") /\ UNCHANGED instruments
  BY RunningJob DEF StoreTemplate
<1>2. PICK head : head = Head(job.rest)
  OBVIOUS
<1>3. head.code \in Code
  BY <1>1, <1>2 DEF FileRow, TemplateRow, JobOK
<1>4. CASE /\ templates[head.code] = None /\ job' = Dropped
           /\ templates' = [templates EXCEPT ![head.code] =
                               [desc |-> Trim(head.desc), items |-> job.items]]
  <2>1. PICK R \in SUBSET Reportable : R = job.reported
    BY <1>1 DEF JobOK
  <2>2. job' = [job EXCEPT !.rest = Tail(job.rest), !.step = "look", !.items = << >>, !.reported = R]
    BY <1>1, <1>4, <2>1, DroppedIs
  <2>3. job'.kind = job.kind
    BY <1>1, <2>2, JobGoesOn
  <2>4. DOMAIN templates = Code
    BY DEF CatalogueOK
  <2>5. PICK t : t = [desc |-> Trim(head.desc), items |-> job.items]
    OBVIOUS
  <2>6. templates'[head.code] = t /\ t.desc = Trim(head.desc) /\ t.items = job.items
    BY <1>3, <1>4, <2>4, <2>5
  <2>8. Alike(t.items, head.items)
    BY <1>1, <1>2, <2>6 DEF JobOK
  <2>9. t # None
    <3>1. head.desc \in Prose /\ job.items \in Items
      BY <1>1, <1>2 DEF FileRow, TemplateRow, JobOK
    <3>2. t \in [desc : Description, items : Items]
      BY <2>5, <3>1 DEF Description
    <3>. QED BY <3>2, ExchangeAssumption
  <2>10. Kept(head)' /\ job.reported \subseteq R
    BY <1>1, <2>1, <2>3, <2>6, <2>8, <2>9 DEF Kept
  <2>7. /\ \A x \in Isin : instruments[x] # None => instruments'[x] = instruments[x]
        /\ \A c \in Code : templates[c] # None => templates'[c] = templates[c]
    BY <1>1, <1>4, <2>4
  <2>. QED BY <1>1, <1>2, <2>2, <2>7, <2>10, ToldOn
<1>5. CASE UNCHANGED templates /\ job' = Reported({head.code})
  <2>1. PICK R \in SUBSET Reportable : R = job.reported \cup {head.code}
    <3>1. job.reported \subseteq Reportable /\ head.code \in Reportable
      BY <1>1, <1>3 DEF JobOK, Reportable
    <3>. QED BY <3>1
  <2>2. job' = [job EXCEPT !.rest = Tail(job.rest), !.step = "look", !.items = << >>, !.reported = R]
    BY <1>1, <1>5, <2>1, DroppedIs
  <2>3. job'.kind = job.kind /\ job'.reported = R
    BY <1>1, <2>2, JobGoesOn
  <2>4. Kept(head)' /\ job.reported \subseteq R
    BY <1>1, <2>1, <2>3 DEF Kept
  <2>. QED BY <1>1, <1>2, <1>5, <2>2, <2>4, LooksOn
<1>. QED
  BY <1>2, <1>4, <1>5 DEF StoreTemplate

LEMMA NextJob ==
  ASSUME CatalogueOK, JobInv, [Next]_vars
  PROVE  JobInv'
<1>1. CASE Import
  <2>1. ASSUME NEW file \in InstrumentFile, Start("instruments", file) PROVE JobInv'
    <3>1. file \in Seq(FileRow("instruments"))
      BY ExchangeAssumption DEF FileRow, InstrumentRow
    <3>. QED BY <2>1, <3>1, StartJob
  <2>2. ASSUME NEW file \in TemplateFile, Start("templates", file) PROVE JobInv'
    <3>1. file \in Seq(FileRow("templates"))
      BY ExchangeAssumption DEF FileRow, TemplateRow
    <3>. QED BY <2>2, <3>1, StartJob
  <2>3. CASE StoreInstrumentFails \/ Done
    BY <2>3 DEF StoreInstrumentFails, Done, JobInv
  <2>. QED
    BY <1>1, <2>1, <2>2, <2>3, InstrumentLooked, InstrumentStored, TemplateLooked,
       TemplateStored DEF Import
<1>2. CASE Disturb
  BY <1>2, JobDisturbed
<1>3. CASE UNCHANGED <<instruments, templates, job>>
  BY <1>3 DEF JobInv, Told, Kept, Past
<1>. QED
  BY <1>1, <1>2, <1>3
  DEF Next, vars, DeleteInstrument, CreateInstrument, CreateTemplate, DeleteTemplate,
      CreatePortfolio, AddTransaction, DeletePortfolio, ImportPortfolios

LEMMA InitTypes == Init => CatalogueOK /\ JobInv
  BY DEF Init, CatalogueOK, JobInv

\* The tables and the import that is running have the types that the entities and
\* the parsed files give them: the rows that are left are the last ones of the file.
THEOREM TypesCorrect == Spec => []ExchangeTypes
<1>1. CatalogueOK /\ JobInv => ExchangeTypes
  BY DEF JobInv, ExchangeTypes
<1>2. CatalogueOK /\ JobInv /\ [Next]_vars => CatalogueOK' /\ JobInv'
  BY NextCatalogue, NextJob DEF JobInv
<1>. QED BY InitTypes, <1>1, <1>2, PTL DEF Spec

\* An import never changes or removes an instrument or a template, whatever is
\* created and deleted between the look-up of a row and its statement that stores.
THEOREM ImportAddsOnly == Spec => ImportOnlyAdds
<1> DEFINE Adds == job # None /\ job' # job /\ (job' # None => job'.quiet = job.quiet) =>
             /\ \A x \in Isin : instruments[x] # None => instruments'[x] = instruments[x]
             /\ \A c \in Code : templates[c] # None => templates'[c] = templates[c]
<1>1. CatalogueOK /\ JobInv /\ [Next]_vars => Adds
  <2>. SUFFICES ASSUME CatalogueOK, JobInv, [Next]_vars, job # None, job' # job,
                       job' # None => job'.quiet = job.quiet
                PROVE  /\ \A x \in Isin : instruments[x] # None => instruments'[x] = instruments[x]
                       /\ \A c \in Code : templates[c] # None => templates'[c] = templates[c]
    OBVIOUS
  <2>1. CASE Disturb
    <3>1. job' = None \/ job'.quiet # job.quiet
      BY <2>1, JobDisturbed
    <3>2. job' # None
      BY <2>1, JobDisturbed
    <3>. QED BY <3>1, <3>2
  <2>2. CASE Import
    <3>1. CASE StoreInstrument
      BY <3>1 DEF StoreInstrument, CatalogueOK
    <3>2. CASE StoreTemplate
      BY <3>2 DEF StoreTemplate, CatalogueOK
    <3>. QED
      BY <2>2, <3>1, <3>2 DEF Import, Start, LookInstrument, StoreInstrumentFails,
         LookTemplate, Done
  <2>. QED
    BY <2>1, <2>2
    DEF Next, vars, DeleteInstrument, CreateInstrument, CreateTemplate, DeleteTemplate,
        CreatePortfolio, AddTransaction, DeletePortfolio, ImportPortfolios
<1>2. CatalogueOK /\ JobInv /\ [Next]_vars => CatalogueOK' /\ JobInv'
  BY NextCatalogue, NextJob DEF JobInv
<1>. QED BY InitTypes, <1>1, <1>2, PTL DEF Spec, ImportOnlyAdds

\* An import that ends undisturbed has stored each row of its file or reports it.
THEOREM ImportTellsEveryRow == Spec => ImportTellsAll
<1>1. CatalogueOK /\ JobInv /\ Done /\ job.quiet
        => \A k \in DOMAIN job.file : Kept(job.file[k])
  <2>. SUFFICES ASSUME JobInv, Done, job.quiet, NEW k \in DOMAIN job.file
                PROVE  Kept(job.file[k])
    OBVIOUS
  <2>1. JobOK(job) /\ Told(job) /\ job.rest = << >>
    BY DEF JobInv, Done
  <2>2. Past(job) = Len(job.file) /\ DOMAIN job.file = 1..Len(job.file)
    BY <2>1 DEF JobOK, Past
  <2>. QED BY <2>1, <2>2 DEF Told
<1>2. CatalogueOK /\ JobInv /\ [Next]_vars => CatalogueOK' /\ JobInv'
  BY NextCatalogue, NextJob DEF JobInv
<1>3. CatalogueOK /\ JobInv /\ [Next]_vars =>
        [Done /\ job.quiet => \A k \in DOMAIN job.file : Kept(job.file[k])]_vars
  BY <1>1
<1>. QED BY InitTypes, <1>2, <1>3, PTL DEF Spec, ImportTellsAll

--------------------------------------------------------------------------------
(* Portfolios.                                                                  *)

LEMMA RowTyped ==
  ASSUME NEW tx \in Row
  PROVE  /\ tx.isin \in Isin /\ tx.type \in TransactionType /\ tx.notes \in Label
         /\ tx.units \in Int /\ tx.price \in Int /\ tx.fees \in Int
  BY ExchangeAssumption DEF Transaction

\* The characters of the texts of portfolios.
LabelChar == UNION {ToSet(text) : text \in Label}

\* Its texts are typed in by users, and its rows are of instruments that exist.
LedgerOK(p) ==
    /\ p.rows \in Seq(Row)
    /\ p.name \in Seq(LabelChar) /\ p.desc \in Seq(LabelChar)
    /\ p = [name |-> p.name, desc |-> p.desc, rows |-> p.rows]
    /\ \A k \in DOMAIN p.rows : instruments[p.rows[k].isin] # None

LedgersOK ==
    /\ portfolios = [s \in Slot |-> portfolios[s]]
    /\ \A s \in Slot : portfolios[s] = None \/ LedgerOK(portfolios[s])

\* A set of places in a text has a first and a last one.
LEMMA MinMax ==
  ASSUME NEW n \in Nat, NEW K \in SUBSET (1..n), K # {}
  PROVE  Min(K) \in K /\ Max(K) \in K /\ Min(K) <= Max(K)
<1>0. \A k \in K : k \in Nat /\ k <= n
  OBVIOUS
<1>1. PICK a \in K : \A k \in K : a <= k
  <2>1. K \subseteq Nat
    BY <1>0
  <2>. QED BY <2>1, Smallest
<1>2. PICK b \in K : \A k \in K : b >= k
  <2> DEFINE T == {n - k : k \in K}
  <2>1. T # {} /\ T \subseteq Nat
    OBVIOUS
  <2>2. PICK t \in T : \A u \in T : t <= u
    BY <2>1, Smallest
  <2>3. PICK b \in K : t = n - b
    BY <2>2
  <2>4. ASSUME NEW k \in K PROVE n - b <= n - k /\ k \in Int /\ b \in Int
    <3>1. n - k \in T
      OBVIOUS
    <3>2. n - b <= n - k
      BY <2>2, <2>3, <3>1
    <3>. QED BY <1>0, <3>2
  <2>5. \A k \in K : b >= k
    BY <2>4
  <2>. QED BY <2>5
<1>3. Min(K) \in K /\ \A k \in K : Min(K) <= k
  BY <1>1 DEF Min
<1>4. Max(K) \in K /\ \A k \in K : Max(K) >= k
  BY <1>2 DEF Max
<1>. QED BY <1>3, <1>4

LEMMA LabelTyped == ASSUME NEW text \in Label PROVE text \in Seq(LabelChar)
<1>1. PICK S : S = ToSet(text) /\ text \in Seq(S)
  BY ExchangeAssumption
<1>2. S \subseteq LabelChar
  BY <1>1 DEF LabelChar
<1>. QED BY <1>1, <1>2

\* A text that is trimmed is a part of it.
LEMMA TrimTyped ==
  ASSUME NEW C, NEW t \in Seq(C)
  PROVE  Trim(t) \in Seq(C)
<1> DEFINE K == {k \in DOMAIN t : t[k] \notin Blank}
<1>1. CASE K = {}
  BY <1>1 DEF Trim, Empty
<1>2. CASE K # {}
  <2>1. PICK n \in Nat : n = Len(t) /\ DOMAIN t = 1..n
    OBVIOUS
  <2>2. Min(K) \in K /\ Max(K) \in K
    BY <1>2, <2>1, MinMax
  <2>3. PICK a \in 1..n, b \in 1..n : a = Min(K) /\ b = Max(K)
    BY <2>1, <2>2
  <2>4. Trim(t) = SubSeq(t, a, b)
    BY <1>2, <2>3 DEF Trim
  <2>5. SubSeq(t, a, b) \in Seq(C)
    BY <2>1
  <2>. QED BY <2>4, <2>5
<1>. QED BY <1>1, <1>2

\* SetToSeq makes a sequence of a finite set.
LEMMA SetToSeqTyped ==
  ASSUME NEW S, IsFiniteSet(S)
  PROVE  SetToSeq(S) \in Seq(S)
<1>1. Cardinality(S) \in Nat /\ ExistsBijection(1..Cardinality(S), S)
  BY FS_CardinalityType
<1>2. PICK f \in [1..Cardinality(S) -> S] : IsInjective(f)
  BY <1>1 DEF ExistsBijection, Bijection, Injection, IsInjective
<1>3. SetToSeq(S) \in [1..Cardinality(S) -> S]
  BY <1>2 DEF SetToSeq
<1>. QED BY <1>1, <1>3

LEMMA FileOK ==
  ASSUME LedgersOK
  PROVE  /\ PortfolioFile \in Seq({portfolios[s] : s \in Slot})
         /\ \A k \in DOMAIN PortfolioFile : LedgerOK(PortfolioFile[k])
<1> DEFINE S == {s \in Slot : portfolios[s] # None}
<1>1. IsFiniteSet(S)
  BY ExchangeAssumption, FS_Subset
<1>. HIDE DEF S
<1>2. PICK q \in Seq(S) : q = SetToSeq(S)
  BY <1>1, SetToSeqTyped
<1>3. PortfolioFile = [k \in DOMAIN q |-> portfolios[q[k]]]
  BY <1>2 DEF PortfolioFile, Mapped, S
<1>4. \A k \in DOMAIN q : q[k] \in Slot /\ LedgerOK(portfolios[q[k]])
  BY <1>2 DEF LedgersOK, S
<1>5. DOMAIN q = 1..Len(q) /\ Len(q) \in Nat
  BY <1>2
<1>. QED BY <1>3, <1>4, <1>5

\* Which rows of a file are taken.
Takes(rows) ==
    {k \in DOMAIN rows : LET tx == rows[k] IN
        tx.isin \in Isin /\ instruments[tx.isin] # None /\ ValidRow(tx)}

Named(file) == {k \in DOMAIN file : Trim(file[k].name) # Empty}

Imported(p) == [name |-> Trim(p.name), desc |-> p.desc, rows |-> Selected(p.rows, Takes(p.rows))]

LEMMA ImportedIs ==
  ASSUME NEW file, NEW named, named = Selected(file, Named(file))
  PROVE  ImportedPortfolios(file) = [k \in DOMAIN named |-> Imported(named[k])]
  BY DEF ImportedPortfolios, Mapped, Named, Imported, Takes

LEMMA ImportedOK ==
  ASSUME LedgersOK
  PROVE  \A k \in DOMAIN ImportedPortfolios(PortfolioFile) :
            LedgerOK(ImportedPortfolios(PortfolioFile)[k])
<1> DEFINE P == {portfolios[s] : s \in Slot}
           R == {p \in P : LedgerOK(p)}
<1>1. PICK file \in Seq(P) : file = PortfolioFile /\ \A k \in DOMAIN file : LedgerOK(file[k])
  BY FileOK
<1>2. \A k \in DOMAIN file : file[k] \in R
  <2>1. \A k \in DOMAIN file : file[k] \in P
    <3>. HIDE DEF P
    <3>. QED OBVIOUS
  <2>. QED BY <1>1, <2>1
<1>. HIDE DEF P, R
<1>3. PICK named \in Seq(R) : named = Selected(file, Named(file))
  BY <1>2, SelectedTyped
<1>4. ImportedPortfolios(file) = [k \in DOMAIN named |-> Imported(named[k])]
  BY <1>3, ImportedIs
<1>5. ASSUME NEW k \in DOMAIN named PROVE LedgerOK(Imported(named[k]))
  <2>1. PICK p \in R : p = named[k]
    OBVIOUS
  <2>2. LedgerOK(p)
    BY DEF R
  <2> DEFINE T == {tx \in Row : instruments[tx.isin] # None}
  <2>3. PICK rows \in Seq(Row) : rows = p.rows /\ \A j \in DOMAIN rows : rows[j] \in T
    BY <2>2 DEF LedgerOK
  <2>. HIDE DEF T
  <2>4. PICK taken \in Seq(T) : taken = Selected(rows, Takes(rows))
    BY <2>3, SelectedTyped
  <2>5. taken \in Seq(Row) /\ \A j \in DOMAIN taken : instruments[taken[j].isin] # None
    <3>1. \A j \in DOMAIN taken : taken[j] \in T
      BY <2>4
    <3>2. \A j \in DOMAIN taken : taken[j] \in Row
      BY <3>1 DEF T
    <3>. QED BY <2>4, <3>1, <3>2 DEF T
  <2>6. PICK name : name = Trim(p.name)
    OBVIOUS
  <2>7. Imported(p) = [name |-> name, desc |-> p.desc, rows |-> taken]
    BY <2>3, <2>4, <2>6 DEF Imported
  <2>9. name \in Seq(LabelChar) /\ p.desc \in Seq(LabelChar)
    BY <2>2, <2>6, TrimTyped DEF LedgerOK
  <2>8. LedgerOK(Imported(p))
    BY <2>5, <2>6, <2>7, <2>9 DEF LedgerOK
  <2>. QED BY <2>1, <2>8
<1>. QED BY <1>1, <1>4, <1>5

\* What is there when the instruments only come, or are changed.
LEMMA LedgersKept ==
  ASSUME LedgersOK, UNCHANGED portfolios,
         \A x \in Isin : instruments[x] # None => instruments'[x] # None
  PROVE  LedgersOK'
<1>1. ASSUME NEW s \in Slot, LedgerOK(portfolios[s]) PROVE LedgerOK(portfolios[s])'
  <2>1. PICK p : p = portfolios[s]
    OBVIOUS
  <2>2. ASSUME NEW k \in DOMAIN p.rows PROVE instruments'[p.rows[k].isin] # None
    <3>1. p.rows \in Seq(Row) /\ instruments[p.rows[k].isin] # None
      BY <1>1, <2>1 DEF LedgerOK
    <3>2. p.rows[k] \in Row
      BY <3>1
    <3>3. p.rows[k].isin \in Isin
      BY <3>2, RowTyped
    <3>. QED BY <3>1, <3>3
  <2>3. LedgerOK(p)'
    BY <1>1, <2>1, <2>2 DEF LedgerOK
  <2>. QED BY <2>1, <2>3 DEF LedgerOK
<1>. QED BY <1>1 DEF LedgersOK

LEMMA InstrumentDeleted ==
  ASSUME LedgersOK, CatalogueOK, NEW x \in Isin, DeleteInstrument(x)
  PROVE  LedgersOK'
<1>1. /\ instruments' = [instruments EXCEPT ![x] = None]
      /\ portfolios' = [s \in Slot |-> IF portfolios[s] = None THEN None
            ELSE [portfolios[s] EXCEPT !.rows =
                    Selected(@, {k \in DOMAIN @ : @[k].isin # x})]]
  BY DEF DeleteInstrument
<1>2. ASSUME NEW s \in Slot, portfolios[s] # None PROVE LedgerOK(portfolios[s])'
  <2>1. LedgerOK(portfolios[s])
    BY <1>2 DEF LedgersOK
  <2>2. PICK name, desc, rows : portfolios[s] = [name |-> name, desc |-> desc, rows |-> rows]
    BY <2>1 DEF LedgerOK
  <2> DEFINE ks == {k \in DOMAIN rows : rows[k].isin # x}
             T  == {tx \in Row : tx.isin # x /\ instruments[tx.isin] # None}
  <2>3. rows \in Seq(Row) /\ \A k \in DOMAIN rows : k \in ks => rows[k] \in T
    BY <2>1, <2>2 DEF LedgerOK
  <2>4. PICK left : left = Selected(rows, ks)
    OBVIOUS
  <2>5. left \in Seq(T)
    <3>. HIDE DEF T, ks
    <3>. QED BY <2>3, <2>4, SelectedTyped
  <2>6. \A k \in DOMAIN left : left[k] \in T
    <3>. HIDE DEF T, ks
    <3>. QED BY <2>5
  <2>7. left \in Seq(Row) /\ \A k \in DOMAIN left : instruments'[left[k].isin] # None
    <3>1. left \in Seq(Row)
      BY <2>5, <2>6
    <3>2. \A tx \in T : instruments'[tx.isin] # None
      BY <1>1, RowTyped DEF CatalogueOK
    <3>. QED BY <2>6, <3>1, <3>2
  <2>8. portfolios'[s] = [portfolios[s] EXCEPT !.rows = left]
    BY <1>1, <1>2, <2>2, <2>4
  <2>9. portfolios'[s] = [name |-> name, desc |-> desc, rows |-> left]
    BY ONLY <2>2, <2>8
  <2>10. name \in Seq(LabelChar) /\ desc \in Seq(LabelChar)
    BY <2>1, <2>2 DEF LedgerOK
  <2>11. PICK p : p = portfolios'[s]
    OBVIOUS
  <2>12. LedgerOK(p)'
    BY <2>7, <2>9, <2>10, <2>11 DEF LedgerOK
  <2>. QED BY <2>11, <2>12 DEF LedgerOK
<1>3. portfolios' = [s \in Slot |-> portfolios'[s]]
  BY <1>1
<1>4. \A s \in Slot : portfolios[s] = None => portfolios'[s] = None
  BY <1>1
<1>. QED BY <1>2, <1>3, <1>4 DEF LedgersOK

LEMMA PortfolioCreated ==
  ASSUME LedgersOK, NEW s \in Slot, NEW name \in Label \ {Empty}, NEW desc \in Label,
         CreatePortfolio(s, name, desc)
  PROVE  LedgersOK'
<1>1. PICK p : p = [name |-> name, desc |-> desc, rows |-> << >>]
  OBVIOUS
<1>2. name \in Seq(LabelChar) /\ desc \in Seq(LabelChar)
  BY LabelTyped
<1>3. LedgerOK(p)
  BY <1>1, <1>2 DEF LedgerOK
<1>4. portfolios' = [portfolios EXCEPT ![s] = p] /\ UNCHANGED instruments
  BY <1>1 DEF CreatePortfolio
<1>. QED BY <1>3, <1>4 DEF LedgersOK, LedgerOK

LEMMA TransactionAdded ==
  ASSUME LedgersOK, NEW s \in Slot, NEW tx \in Row, AddTransaction(s, tx)
  PROVE  LedgersOK'
<1>1. LedgerOK(portfolios[s]) /\ instruments[tx.isin] # None /\ UNCHANGED instruments
  BY DEF LedgersOK, AddTransaction
<1>2. PICK name, desc, rows : portfolios[s] = [name |-> name, desc |-> desc, rows |-> rows]
  BY <1>1 DEF LedgerOK
<1>3. /\ rows \in Seq(Row)
      /\ name \in Seq(LabelChar) /\ desc \in Seq(LabelChar)
      /\ \A k \in DOMAIN rows : instruments[rows[k].isin] # None
  BY <1>1, <1>2 DEF LedgerOK
<1>4. PICK more : more = Append(rows, tx)
  OBVIOUS
<1>5. more \in Seq(Row) /\ \A k \in DOMAIN more : instruments[more[k].isin] # None
  BY <1>1, <1>3, <1>4
<1>6. PICK p : p = [name |-> name, desc |-> desc, rows |-> more]
  OBVIOUS
<1>7. LedgerOK(p)
  BY <1>3, <1>5, <1>6 DEF LedgerOK
<1>8. portfolios' = [portfolios EXCEPT ![s] = p]
  <2>1. PICK q : q = portfolios[s]
    OBVIOUS
  <2>2. [q EXCEPT !.rows = more] = p
    BY ONLY <1>2, <1>6, <2>1
  <2>3. [q EXCEPT !.rows = Append(q.rows, tx)] = p
    BY <1>2, <1>4, <2>1, <2>2
  <2>. QED BY <2>1, <2>3 DEF AddTransaction
<1>. QED BY <1>1, <1>7, <1>8 DEF LedgersOK, LedgerOK

LEMMA PortfoliosImported ==
  ASSUME LedgersOK, ImportPortfolios
  PROVE  LedgersOK'
<1>1. PICK made : /\ made = ImportedPortfolios(PortfolioFile)
                  /\ \A k \in DOMAIN made : LedgerOK(made[k])
  BY ImportedOK
<1>2. PICK free : free = SetToSeq({s \in Slot : portfolios[s] = None})
  OBVIOUS
<1>3. /\ portfolios' = [s \in Slot |->
             IF \E k \in DOMAIN made : free[k] = s
             THEN made[CHOOSE k \in DOMAIN made : free[k] = s] ELSE portfolios[s]]
      /\ UNCHANGED instruments
  BY <1>1, <1>2 DEF ImportPortfolios
<1>4. ASSUME NEW s \in Slot
      PROVE  portfolios'[s] = portfolios[s] \/ \E k \in DOMAIN made : portfolios'[s] = made[k]
  BY <1>3
<1>. QED BY <1>1, <1>3, <1>4 DEF LedgersOK, LedgerOK

LEMMA NextLedgers ==
  ASSUME CatalogueOK, JobInv, LedgersOK, [Next]_vars
  PROVE  LedgersOK'
<1>1. CASE StoreInstrument
  <2>1. Head(job.rest).isin \in Isin
        /\ [name |-> Head(job.rest).name, ext |-> Head(job.rest).ext] # None
    <3>1. /\ Head(job.rest) \in FileRow("instruments") /\ JobOK(job)
          /\ job.kind = "instruments" /\ job.step = "store"
      BY <1>1, RunningJob DEF StoreInstrument
    <3>2. Head(job.rest).isin # None
      BY <3>1 DEF JobOK
    <3>. QED BY <3>1, <3>2, ExchangeAssumption DEF FileRow, InstrumentRow
  <2>. QED BY <1>1, <2>1, LedgersKept DEF StoreInstrument, CatalogueOK
<1>2. ASSUME NEW x \in Isin, NEW name \in Prose, CreateInstrument(x, name) PROVE LedgersOK'
  <2>1. [name |-> name, ext |-> Empty] # None
    BY ExchangeAssumption
  <2>. QED BY <1>2, <2>1, LedgersKept DEF CreateInstrument, CatalogueOK
<1>3. ASSUME NEW s \in Slot, DeletePortfolio(s) PROVE LedgersOK'
  BY <1>3 DEF DeletePortfolio, LedgersOK, LedgerOK
<1>4. CASE UNCHANGED <<instruments, portfolios>>
  BY <1>4, LedgersKept
<1>. QED
  BY <1>1, <1>2, <1>3, <1>4, InstrumentDeleted, PortfolioCreated, TransactionAdded,
     PortfoliosImported
  DEF Next, Import, vars, Start, LookInstrument, StoreInstrumentFails, LookTemplate,
      StoreTemplate, Done, CreateTemplate, DeleteTemplate

\* The rows of the file are those of the ledger, so they come to the same units.
LEMMA BackupWhole ==
  ASSUME LedgersOK
  PROVE  BackupIsWhole
<1> DEFINE P == {portfolios[s] : s \in Slot}
<1>. HIDE DEF P
<1>1. PICK file \in Seq(P) : file = PortfolioFile /\ \A k \in DOMAIN file : LedgerOK(file[k])
  BY FileOK DEF P
<1>. SUFFICES ASSUME \A k \in DOMAIN file : /\ Trim(file[k].name) # Empty
                                            /\ \A n \in DOMAIN file[k].rows :
                                                 Legal(file[k].rows[n]),
                     NEW x \in Isin
              PROVE  UnitsOf(ImportedPortfolios(file), x) = UnitsOf(file, x)
  BY <1>1 DEF BackupIsWhole
<1>2. Selected(file, Named(file)) = file
  <2>1. DOMAIN file \subseteq Named(file)
    BY DEF Named
  <2>. QED BY <2>1, SelectedWhole
<1>3. ImportedPortfolios(file) = [k \in DOMAIN file |-> Imported(file[k])]
  BY <1>2, ImportedIs
<1>4. ASSUME NEW k \in DOMAIN file PROVE Imported(file[k]).rows = file[k].rows
  <2>1. PICK rows \in Seq(Row) : /\ rows = file[k].rows
                                 /\ \A n \in DOMAIN rows : instruments[rows[n].isin] # None
    BY <1>1 DEF LedgerOK
  <2>2. ASSUME NEW n \in DOMAIN rows PROVE n \in Takes(rows)
    <3>1. rows[n] \in Row /\ Legal(rows[n]) /\ instruments[rows[n].isin] # None
      BY <2>1
    <3>2. PICK tx \in Row : tx = rows[n]
      BY <3>1
    <3>3. /\ tx.isin \in Isin /\ tx.type \in TransactionType
          /\ tx.units \in Int /\ tx.price \in Int /\ tx.fees \in Int
      BY RowTyped
    <3>4. ValidRow(tx)
      BY <3>1, <3>2, <3>3 DEF ValidRow, Legal
    <3>. QED BY <3>1, <3>2, <3>3, <3>4 DEF Takes
  <2>3. Selected(rows, Takes(rows)) = rows
    BY <2>2, SelectedWhole
  <2>. QED BY <2>1, <2>3 DEF Imported
<1>5. PICK made : made = ImportedPortfolios(file)
  OBVIOUS
<1>6. [k \in DOMAIN made |-> made[k].rows] = [k \in DOMAIN file |-> file[k].rows]
  BY <1>3, <1>4, <1>5
<1>7. UnitsOf(made, x) = UnitsOf(file, x)
  BY <1>6 DEF UnitsOf, Mapped
<1>. QED BY <1>5, <1>7

\* A ledger of rows that CreateTransactionDto allows comes back whole from its backup,
\* however many portfolios and rows it has and however it came about, if no portfolio
\* has a name of blanks only.
THEOREM BackupsAreWhole == Spec => []BackupIsWhole
<1>1. Init => LedgersOK
  BY DEF Init, LedgersOK
<1>2. CatalogueOK /\ JobInv /\ LedgersOK /\ [Next]_vars
        => CatalogueOK' /\ JobInv' /\ LedgersOK'
  BY NextCatalogue, NextJob, NextLedgers DEF JobInv
<1>. QED BY InitTypes, <1>1, <1>2, BackupWhole, PTL DEF Spec

--------------------------------------------------------------------------------
(* Folds from the left, by induction over the places read so far.               *)

\* k has the folds over the places in each subset of 1..n; st[i] is what place i does.
Folds(k, st, b, n) ==
    k = [e \in SUBSET (1..n) |-> IF e = {} THEN b ELSE st[Max(e)][k[e \ {Max(e)}]]]

LEMMA MaxOf ==
  ASSUME NEW n \in Nat, NEW e \in SUBSET (1..n), e # {}
  PROVE  /\ Max(e) \in e /\ Max(e) \in 1..n /\ e \ {Max(e)} \in SUBSET (1..n)
         /\ e \subseteq 1..Max(e) /\ e \ {Max(e)} \subseteq 1..(Max(e) - 1)
<1>1. Max(e) \in e
  BY MinMax
<1>2. PICK m \in e : m = Max(e)
  BY <1>1
<1>3. \A i \in e : i <= m
  <2>1. ASSUME NEW i \in e PROVE i <= m
    <3> DEFINE K == {j \in e : j >= i}
    <3>1. \E a \in e : \A j \in e : a >= j
      <4> DEFINE T == {n - j : j \in e}
      <4>1. T # {} /\ T \subseteq Nat
        <5>1. \A j \in e : n - j \in Nat
          OBVIOUS
        <5>. QED BY <5>1
      <4>2. PICK t \in T : \A u \in T : t <= u
        BY <4>1, Smallest
      <4>3. PICK a \in e : t = n - a
        BY <4>2
      <4>4. ASSUME NEW j \in e PROVE a >= j
        <5>1. n - a <= n - j /\ a \in Int /\ j \in Int
          BY <4>2, <4>3
        <5>. QED BY <5>1
      <4>. QED BY <4>4
    <3>2. Max(e) \in e /\ \A j \in e : Max(e) >= j
      BY <3>1 DEF Max
    <3>3. i \in Int /\ m \in Int /\ m >= i
      BY <1>2, <3>2
    <3>. QED BY <3>3
  <2>. QED BY <2>1
<1>4. \A i \in e : i \in Int /\ 1 <= i /\ i <= n
  OBVIOUS
<1>5. m \in 1..n /\ m \in Int
  BY <1>2
<1>6. \A i \in e : i \in 1..m
  BY <1>3, <1>4, <1>5
<1>7. ASSUME NEW i \in e \ {m} PROVE i \in 1..(m - 1)
  <2>1. i \in Int /\ 1 <= i /\ i <= m /\ i # m
    BY <1>3, <1>4
  <2>. QED BY <1>5, <2>1
<1>. QED BY <1>1, <1>2, <1>5, <1>6, <1>7

LEMMA MaxUpTo ==
  ASSUME NEW n \in Nat
  PROVE  Max(1..(n + 1)) = n + 1 /\ (1..(n + 1)) \ {n + 1} = 1..n
<1>1. n + 1 \in 1..(n + 1) /\ \A i \in 1..(n + 1) : n + 1 >= i
  OBVIOUS
<1>2. Max(1..(n + 1)) \in 1..(n + 1) /\ \A i \in 1..(n + 1) : Max(1..(n + 1)) >= i
  BY <1>1 DEF Max
<1>3. Max(1..(n + 1)) >= n + 1
  BY <1>1, <1>2
<1>. QED BY <1>2, <1>3

\* What holds of a fold over nothing and of each next one holds of all.
LEMMA FoldInduction ==
  ASSUME NEW n \in Nat, NEW A, NEW k, k[{}] \in A,
         \A e \in SUBSET (1..n) : e # {} /\ k[e \ {Max(e)}] \in A => k[e] \in A
  PROVE  \A e \in SUBSET (1..n) : k[e] \in A
<1> DEFINE T == {m \in Nat : \A e \in SUBSET (1..n) : e \subseteq 1..m => k[e] \in A}
<1>1. 0 \in T
  <2>1. \A e : e \subseteq 1..0 => e = {}
    OBVIOUS
  <2>. QED BY <2>1
<1>2. ASSUME NEW m \in Nat, m \in T PROVE m + 1 \in T
  <2>. SUFFICES ASSUME NEW e \in SUBSET (1..n), e \subseteq 1..(m + 1) PROVE k[e] \in A
    OBVIOUS
  <2>1. CASE e = {}
    BY <2>1
  <2>2. CASE e # {}
    <3>1. /\ Max(e) \in e /\ Max(e) \in 1..n /\ e \ {Max(e)} \in SUBSET (1..n)
          /\ e \ {Max(e)} \subseteq 1..(Max(e) - 1)
      BY <2>2, MaxOf
    <3>2. PICK x \in 1..(m + 1) : x = Max(e)
      BY <3>1
    <3>3. 1..(x - 1) \subseteq 1..m
      OBVIOUS
    <3>4. e \ {Max(e)} \subseteq 1..m
      BY <3>1, <3>2, <3>3
    <3>5. k[e \ {Max(e)}] \in A
      BY <1>2, <3>1, <3>4
    <3>. QED BY <2>2, <3>5
  <2>. QED BY <2>1, <2>2
<1>3. Nat \subseteq T
  <2>. HIDE DEF T
  <2>. QED BY <1>1, <1>2, SetInduction
<1>. QED BY <1>3

\* They stay where each place leads back to.
LEMMA FoldsTyped ==
  ASSUME NEW n \in Nat, NEW A, NEW b \in A, NEW st, \A a \in A, i \in 1..n : st[i][a] \in A,
         NEW k, Folds(k, st, b, n)
  PROVE  \A e \in SUBSET (1..n) : k[e] \in A
<1>1. /\ k[{}] = b
      /\ \A e \in SUBSET (1..n) : e # {} => k[e] = st[Max(e)][k[e \ {Max(e)}]]
  BY DEF Folds
<1>2. \A e \in SUBSET (1..n) : e # {} /\ k[e \ {Max(e)}] \in A => k[e] \in A
  <2>. SUFFICES ASSUME NEW e \in SUBSET (1..n), e # {}, k[e \ {Max(e)}] \in A PROVE k[e] \in A
    OBVIOUS
  <2>1. PICK m \in 1..n, a \in A : m = Max(e) /\ a = k[e \ {Max(e)}]
    BY MaxOf
  <2>. QED BY <1>1, <2>1
<1>. QED BY <1>1, <1>2, FoldInduction

\* Folds over sequences that begin alike are alike so far.
LEMMA FoldsAgree ==
  ASSUME NEW n \in Nat, NEW b, NEW st, NEW su, NEW k, NEW g, Folds(k, st, b, n),
         Folds(g, su, b, n + 1), \A i \in 1..n : su[i] = st[i]
  PROVE  g[1..(n + 1)] = su[n + 1][k[1..n]]
<1>1. 1..n \subseteq 1..(n + 1)
  OBVIOUS
<1>2. /\ \A e \in SUBSET (1..n) : k[e] = IF e = {} THEN b ELSE st[Max(e)][k[e \ {Max(e)}]]
      /\ \A e \in SUBSET (1..(n + 1)) : g[e] = IF e = {} THEN b ELSE su[Max(e)][g[e \ {Max(e)}]]
  BY DEF Folds
<1> DEFINE d == [e \in SUBSET (1..n) |-> IF g[e] = k[e] THEN 1 ELSE 0]
           A == {1}
<1>3. d[{}] \in A
  BY <1>1, <1>2
<1>4. ASSUME NEW e \in SUBSET (1..n), e # {}, d[e \ {Max(e)}] \in A PROVE d[e] \in A
  <2>1. Max(e) \in 1..n /\ e \ {Max(e)} \in SUBSET (1..n) /\ e \in SUBSET (1..(n + 1))
    BY <1>1, <1>4, MaxOf
  <2>2. g[e \ {Max(e)}] = k[e \ {Max(e)}]
    BY <1>4, <2>1
  <2>3. g[e] = k[e]
    BY <1>2, <1>4, <2>1, <2>2
  <2>. QED BY <2>3
<1>5. \A e \in SUBSET (1..n) : d[e] \in A
  <2>. HIDE DEF d, A
  <2>. QED BY <1>3, <1>4, FoldInduction
<1>6. g[1..n] = k[1..n]
  <2>1. d[1..n] \in A
    BY <1>5
  <2>. QED BY <2>1
<1>7. PICK e \in SUBSET (1..(n + 1)) : e = 1..(n + 1)
  OBVIOUS
<1>8. e # {} /\ Max(e) = n + 1 /\ e \ {n + 1} = 1..n
  <2>1. n + 1 \in e
    BY <1>7
  <2>. QED BY <1>7, <2>1, MaxUpTo
<1>9. g[e] = su[Max(e)][g[e \ {Max(e)}]]
  BY <1>2, <1>8
<1>. QED BY <1>6, <1>7, <1>8, <1>9

\* There are such folds, whatever the places do.
LEMMA FoldsExist ==
  ASSUME NEW n \in Nat, NEW b, NEW st
  PROVE  \E k : Folds(k, st, b, n)
<1> DEFINE Small(m) == {e \in SUBSET (1..n) : e \subseteq 1..m}
           To(k, m) == k = [e \in Small(m) |-> IF e = {} THEN b ELSE st[Max(e)][k[e \ {Max(e)}]]]
           T == {m \in Nat : \E k : To(k, m)}
<1>1. 0 \in T
  <2>1. \A e \in Small(0) : e = {}
    OBVIOUS
  <2> DEFINE h == [e \in Small(0) |-> b]
  <2>2. To(h, 0)
    BY <2>1
  <2>. QED BY <2>2
<1>2. ASSUME NEW m \in Nat, m \in T PROVE m + 1 \in T
  <2>1. PICK k : To(k, m)
    BY <1>2
  <2> DEFINE g == [e \in Small(m + 1) |-> IF e = {} THEN b ELSE st[Max(e)][k[e \ {Max(e)}]]]
  <2>2. ASSUME NEW e \in Small(m + 1), e # {} PROVE g[e \ {Max(e)}] = k[e \ {Max(e)}]
    <3>1. /\ Max(e) \in e /\ e \ {Max(e)} \in SUBSET (1..n)
          /\ e \ {Max(e)} \subseteq 1..(Max(e) - 1)
      BY <2>2, MaxOf
    <3>2. PICK x \in 1..(m + 1) : x = Max(e)
      BY <3>1
    <3>3. 1..(x - 1) \subseteq 1..m /\ 1..m \subseteq 1..(m + 1)
      OBVIOUS
    <3>4. PICK d : d = e \ {Max(e)} /\ d \in Small(m) /\ d \in Small(m + 1)
      BY <3>1, <3>2, <3>3
    <3>5. g[d] = IF d = {} THEN b ELSE st[Max(d)][k[d \ {Max(d)}]]
      BY <3>4
    <3>6. k[d] = IF d = {} THEN b ELSE st[Max(d)][k[d \ {Max(d)}]]
      BY <2>1, <3>4
    <3>. QED BY <3>4, <3>5, <3>6
  <2>. HIDE DEF Small
  <2>3. g = [e \in Small(m + 1) |-> IF e = {} THEN b ELSE st[Max(e)][g[e \ {Max(e)}]]]
    <3>1. ASSUME NEW e \in Small(m + 1)
          PROVE  g[e] = IF e = {} THEN b ELSE st[Max(e)][g[e \ {Max(e)}]]
      <4>1. g[e] = IF e = {} THEN b ELSE st[Max(e)][k[e \ {Max(e)}]]
        OBVIOUS
      <4>2. e # {} => g[e \ {Max(e)}] = k[e \ {Max(e)}]
        BY <2>2
      <4>. HIDE DEF g
      <4>. QED BY <4>1, <4>2
    <3>2. g = [e \in Small(m + 1) |-> g[e]]
      OBVIOUS
    <3>. HIDE DEF g
    <3>. QED BY <3>1, <3>2
  <2>4. To(g, m + 1)
    BY <2>3
  <2>. HIDE DEF g, To
  <2>. QED BY <2>4
<1>3. Nat \subseteq T
  <2>. HIDE DEF T
  <2>. QED BY <1>1, <1>2, SetInduction
<1>4. Small(n) = SUBSET (1..n)
  OBVIOUS
<1>5. PICK k : To(k, n)
  BY <1>3
<1>. QED BY <1>4, <1>5 DEF Folds

\* Induction over sequences.
LEMMA SeqInduction ==
  ASSUME NEW S, NEW T, << >> \in T, \A t \in Seq(S), x \in S : t \in T => Append(t, x) \in T
  PROVE  \A s \in Seq(S) : s \in T
<1> DEFINE N == {n \in Nat : \A s \in Seq(S) : Len(s) = n => s \in T}
<1>1. 0 \in N
  <2>1. \A s \in Seq(S) : Len(s) = 0 => s = << >>
    OBVIOUS
  <2>. QED BY <2>1
<1>2. ASSUME NEW n \in Nat, n \in N PROVE n + 1 \in N
  <2>. SUFFICES ASSUME NEW s \in Seq(S), Len(s) = n + 1 PROVE s \in T
    OBVIOUS
  <2>1. PICK t : t = SubSeq(s, 1, n)
    OBVIOUS
  <2>2. /\ t \in Seq(S) /\ Len(t) = n /\ s[n + 1] \in S
        /\ \A i \in 1..n : t[i] = s[i]
    BY <2>1
  <2>3. s = Append(t, s[n + 1])
    BY <2>2
  <2>4. t \in T
    BY <1>2, <2>2
  <2>. QED BY <2>2, <2>3, <2>4
<1>3. Nat \subseteq N
  <2>. HIDE DEF N
  <2>. QED BY <1>1, <1>2, SetInduction
<1>4. \A s \in Seq(S) : Len(s) \in Nat
  OBVIOUS
<1>. QED BY <1>3, <1>4

Joins(k, ss, n) == k = [i \in 1..n |-> IF i = 1 THEN ss[i] ELSE k[i - 1] \o ss[i]]

LEMMA JoinsExist ==
  ASSUME NEW n \in Nat, NEW ss
  PROVE  \E k : Joins(k, ss, n)
<1> DEFINE T == {m \in Nat : \E k : Joins(k, ss, m)}
<1>1. 0 \in T
  <2> DEFINE h == [i \in 1..0 |-> << >>]
  <2>1. Joins(h, ss, 0)
    BY DEF Joins
  <2>. QED BY <2>1
<1>2. ASSUME NEW m \in Nat, m \in T PROVE m + 1 \in T
  <2>1. PICK k : Joins(k, ss, m)
    BY <1>2
  <2> DEFINE g == [i \in 1..(m + 1) |-> IF i = 1 THEN ss[i] ELSE k[i - 1] \o ss[i]]
  <2>2. ASSUME NEW i \in 1..(m + 1), i # 1 PROVE g[i - 1] = k[i - 1]
    <3>1. i - 1 \in 1..m /\ i - 1 \in 1..(m + 1)
      BY <2>2
    <3>. QED BY <2>1, <3>1 DEF Joins
  <2>3. g = [i \in 1..(m + 1) |-> IF i = 1 THEN ss[i] ELSE g[i - 1] \o ss[i]]
    <3>1. ASSUME NEW i \in 1..(m + 1)
          PROVE  g[i] = IF i = 1 THEN ss[i] ELSE g[i - 1] \o ss[i]
      <4>1. g[i] = IF i = 1 THEN ss[i] ELSE k[i - 1] \o ss[i]
        OBVIOUS
      <4>. HIDE DEF g
      <4>. QED BY <2>2, <4>1
    <3>2. g = [i \in 1..(m + 1) |-> g[i]]
      OBVIOUS
    <3>. HIDE DEF g
    <3>. QED BY <3>1, <3>2
  <2>4. Joins(g, ss, m + 1)
    BY <2>3 DEF Joins
  <2>. QED BY <2>4
<1>3. Nat \subseteq T
  <2>. HIDE DEF T
  <2>. QED BY <1>1, <1>2, SetInduction
<1>. QED BY <1>3

LEMMA FlattenJoins ==
  ASSUME NEW S, NEW ss \in Seq(S), ss # << >>
  PROVE  \E k : Joins(k, ss, Len(ss)) /\ FlattenSeq(ss) = k[Len(ss)]
<1> DEFINE k == CHOOSE f : f = [i \in 1..Len(ss) |-> IF i = 1 THEN ss[i] ELSE f[i - 1] \o ss[i]]
<1>1. Len(ss) # 0 /\ Len(ss) \in Nat
  OBVIOUS
<1>2. FlattenSeq(ss) = k[Len(ss)]
  BY <1>1 DEF FlattenSeq
<1>3. PICK g : Joins(g, ss, Len(ss))
  BY <1>1, JoinsExist
<1>4. k = [i \in 1..Len(ss) |-> IF i = 1 THEN ss[i] ELSE k[i - 1] \o ss[i]]
  BY <1>3 DEF Joins
<1>5. Joins(k, ss, Len(ss))
  <2>. HIDE DEF k
  <2>. QED BY <1>4 DEF Joins
<1>. QED BY <1>2, <1>5

LEMMA AppendIs ==
  ASSUME NEW Q, NEW ss \in Seq(Q), NEW x \in Q
  PROVE  /\ Append(ss, x) \in Seq(Q) /\ Append(ss, x) # << >>
         /\ Len(ss) \in Nat /\ Len(Append(ss, x)) = Len(ss) + 1
         /\ Append(ss, x)[Len(ss) + 1] = x
         /\ \A i \in 1..Len(ss) : Append(ss, x)[i] = ss[i]
         /\ Len(ss) = 0 => ss = << >>
  OBVIOUS

\* A sequence of sequences is flattened one after the other.
LEMMA FlattenNext ==
  ASSUME NEW S, NEW ss \in Seq(Seq(S)), NEW x \in Seq(S)
  PROVE  FlattenSeq(Append(ss, x)) = FlattenSeq(ss) \o x
<1> DEFINE Q == Seq(S)
<1>0. ss \in Seq(Q) /\ x \in Q
  OBVIOUS
<1>. HIDE DEF Q
<1>1. PICK tt \in Seq(Q) : tt = Append(ss, x) /\ tt # << >>
  BY <1>0, AppendIs
<1>2. PICK n \in Nat : /\ n = Len(ss) /\ Len(tt) = n + 1 /\ tt[n + 1] = x
                       /\ \A i \in 1..n : tt[i] = ss[i]
                       /\ n = 0 => ss = << >>
  BY <1>0, <1>1, AppendIs
<1>8. tt # << >> /\ Len(tt) = n + 1
  BY <1>1, <1>2
<1>3. PICK g : Joins(g, tt, n + 1) /\ FlattenSeq(tt) = g[n + 1]
  BY <1>8, FlattenJoins
<1>4. \A i \in 1..(n + 1) : g[i] = IF i = 1 THEN tt[i] ELSE g[i - 1] \o tt[i]
  BY <1>3 DEF Joins
<1>5. n + 1 \in 1..(n + 1) /\ (n + 1) - 1 = n
  BY <1>2
<1>6. CASE n = 0
  <2>1. ss = << >> /\ FlattenSeq(ss) = << >>
    <3>1. ss = << >> /\ Len(ss) = 0
      BY <1>2, <1>6
    <3>. QED BY <3>1 DEF FlattenSeq
  <2>2. g[n + 1] = x
    BY <1>2, <1>4, <1>5, <1>6
  <2>3. << >> \o x = x
    BY <1>0 DEF Q
  <2>. QED BY <1>1, <1>3, <2>1, <2>2, <2>3
<1>7. CASE n # 0
  <2>1. PICK k : Joins(k, ss, n) /\ FlattenSeq(ss) = k[n]
    <3>1. ss # << >>
      BY <1>2, <1>7
    <3>. QED BY <1>0, <1>2, <3>1, FlattenJoins
  <2>2. \A i \in 1..n : k[i] = IF i = 1 THEN ss[i] ELSE k[i - 1] \o ss[i]
    BY <2>1 DEF Joins
  <2> DEFINE T == {m \in Nat : m + 1 \in 1..n => g[m + 1] = k[m + 1]}
  <2>3. 0 \in T
    BY <1>2, <1>4, <2>2
  <2>4. ASSUME NEW m \in Nat, m \in T PROVE m + 1 \in T
    <3>. SUFFICES ASSUME (m + 1) + 1 \in 1..n PROVE g[(m + 1) + 1] = k[(m + 1) + 1]
      OBVIOUS
    <3>1. PICK i \in 1..n : i = (m + 1) + 1 /\ i # 1 /\ i - 1 = m + 1 /\ m + 1 \in 1..n /\ i \in 1..(n + 1)
      OBVIOUS
    <3>2. g[i] = g[m + 1] \o tt[i] /\ k[i] = k[m + 1] \o ss[i] /\ tt[i] = ss[i]
      BY <1>2, <1>4, <2>2, <3>1
    <3>3. g[m + 1] = k[m + 1]
      BY <2>4, <3>1
    <3>. QED BY <3>1, <3>2, <3>3
  <2>5. Nat \subseteq T
    <3>. HIDE DEF T
    <3>. QED BY <2>3, <2>4, SetInduction
  <2>6. g[n] = k[n]
    <3>1. PICK m \in Nat : m + 1 = n
      <4>1. n - 1 \in Nat /\ (n - 1) + 1 = n
        BY <1>7
      <4>. QED BY <4>1
    <3>2. n \in 1..n
      BY <1>7
    <3>. QED BY <2>5, <3>1, <3>2
  <2>7. g[n + 1] = g[n] \o x
    <3>1. n + 1 # 1
      BY <1>7
    <3>. QED BY <1>2, <1>4, <1>5, <3>1
  <2>. QED BY <1>1, <1>3, <2>1, <2>6, <2>7
<1>. QED BY <1>6, <1>7

LEMMA FlattenTyped ==
  ASSUME NEW S
  PROVE  FlattenSeq(<< >>) = << >> /\ \A ss \in Seq(Seq(S)) : FlattenSeq(ss) \in Seq(S)
<1> DEFINE T == {ss \in Seq(Seq(S)) : FlattenSeq(ss) \in Seq(S)}
<1>1. FlattenSeq(<< >>) = << >>
  BY DEF FlattenSeq
<1>2. << >> \in T
  <2>1. << >> \in Seq(S) /\ << >> \in Seq(Seq(S))
    OBVIOUS
  <2>. QED BY <1>1, <2>1
<1>3. ASSUME NEW ss \in Seq(Seq(S)), NEW x \in Seq(S), ss \in T PROVE Append(ss, x) \in T
  <2>1. PICK f \in Seq(S) : f = FlattenSeq(ss)
    BY <1>3
  <2>2. FlattenSeq(Append(ss, x)) = f \o x
    BY <2>1, FlattenNext
  <2>3. f \o x \in Seq(S) /\ Append(ss, x) \in Seq(Seq(S))
    BY <2>1
  <2>. QED BY <2>2, <2>3
<1>4. \A ss \in Seq(Seq(S)) : ss \in T
  <2>. HIDE DEF T
  <2>. QED BY <1>2, <1>3, SeqInduction
<1>. QED BY <1>1, <1>4

--------------------------------------------------------------------------------
(* What parseCsv makes of what csvEscape wrote.                                 *)

ReadOf(text) == FoldLeft(Scan, Unread, text)

\* What the parser knows after a text with the characters C.
ReadTo(C) == [rows : Seq(Seq(Seq(C))), row : Seq(Seq(C)), cur : Seq(C),
              quoted : BOOLEAN, over : BOOLEAN]

LEMMA ScanTyped ==
  ASSUME NEW C, NEW st \in ReadTo(C), NEW ch \in C
  PROVE  Scan(st, ch) \in ReadTo(C)
<1>1. /\ st.rows \in Seq(Seq(Seq(C))) /\ st.row \in Seq(Seq(C)) /\ st.cur \in Seq(C)
      /\ st.quoted \in BOOLEAN /\ st.over \in BOOLEAN
      /\ st = [rows |-> st.rows, row |-> st.row, cur |-> st.cur, quoted |-> st.quoted,
               over |-> st.over]
  BY DEF ReadTo
<1>2. PICK cur \in Seq(C) : cur = Append(st.cur, ch)
  BY <1>1, AppendIs
<1>3. PICK row \in Seq(Seq(C)) : row = Append(st.row, st.cur)
  BY <1>1, AppendIs
<1>4. PICK rows \in Seq(Seq(Seq(C))) : rows = Append(st.rows, row)
  BY <1>1, <1>3, AppendIs
<1>5. Empty \in Seq(C) /\ << >> \in Seq(Seq(C))
  BY DEF Empty
<1>6. /\ [st EXCEPT !.cur = cur, !.over = FALSE] \in ReadTo(C)
      /\ [[st EXCEPT !.cur = cur, !.over = FALSE] EXCEPT !.quoted = TRUE] \in ReadTo(C)
      /\ [st EXCEPT !.quoted = FALSE, !.over = TRUE] \in ReadTo(C)
      /\ [st EXCEPT !.quoted = TRUE] \in ReadTo(C)
      /\ [st EXCEPT !.row = row, !.cur = Empty, !.over = FALSE] \in ReadTo(C)
  BY <1>1, <1>2, <1>3, <1>5 DEF ReadTo
<1>7. PICK cell \in ReadTo(C) : cell = [st EXCEPT !.row = row, !.cur = Empty, !.over = FALSE]
  BY <1>6
<1>8. [cell EXCEPT !.rows = rows, !.row = << >>] \in ReadTo(C)
  BY <1>4, <1>5 DEF ReadTo
<1>9. cell.rows = st.rows /\ cell.row = row
  BY <1>1, <1>7 DEF ReadTo
<1>. QED BY <1>2, <1>3, <1>4, <1>6, <1>7, <1>8, <1>9 DEF Scan

LEMMA ReadFolds ==
  ASSUME NEW C, NEW t \in Seq(C)
  PROVE  \E st, k : /\ st = [i \in 1..Len(t) |-> [a \in ReadTo(C) |-> Scan(a, t[i])]]
                    /\ Folds(k, st, Unread, Len(t))
                    /\ ReadOf(t) = k[1..Len(t)] /\ ReadOf(t) \in ReadTo(C)
<1> DEFINE A == ReadTo(C)
           ks == CHOOSE iter : iter = [e \in SUBSET DOMAIN t |->
                    IF e = {} THEN Unread
                    ELSE LET x == Max(e) IN Scan(iter[e \ {x}], t[x])]
<1>1. PICK n \in Nat : n = Len(t) /\ DOMAIN t = 1..n /\ \A i \in 1..n : t[i] \in C
  OBVIOUS
<1>2. ReadOf(t) = ks[DOMAIN t]
  BY DEF ReadOf, FoldLeft, MapThenFoldSet
<1>3. Unread \in A
  <2>1. Empty \in Seq(C) /\ << >> \in Seq(Seq(C)) /\ << >> \in Seq(Seq(Seq(C)))
    BY DEF Empty
  <2>. QED BY <2>1 DEF Unread, ReadTo
<1>4. \A a \in A, i \in 1..n : Scan(a, t[i]) \in A
  BY <1>1, ScanTyped
<1>5. PICK st : st = [i \in 1..n |-> [a \in A |-> Scan(a, t[i])]]
  OBVIOUS
<1>. HIDE DEF A, ks
<1>6. PICK g : Folds(g, st, Unread, n)
  BY <1>1, FoldsExist
<1>7. \A a \in A, i \in 1..n : st[i][a] = Scan(a, t[i])
  BY <1>5
<1>8. \A e \in SUBSET (1..n) : e # {} => Max(e) \in 1..n /\ e \ {Max(e)} \in SUBSET (1..n)
  BY <1>1, MaxOf
<1>9. \A e \in SUBSET (1..n) : g[e] \in A
  <2>1. \A a \in A, i \in 1..n : st[i][a] \in A
    BY <1>4, <1>7
  <2>2. PICK b \in A : b = Unread
    BY <1>3
  <2>. QED BY <1>1, <1>6, <2>1, <2>2, FoldsTyped
<1>10. g = [e \in SUBSET (1..n) |-> IF e = {} THEN Unread
                    ELSE LET x == Max(e) IN Scan(g[e \ {x}], t[x])]
  <2>1. g = [e \in SUBSET (1..n) |-> IF e = {} THEN Unread ELSE st[Max(e)][g[e \ {Max(e)}]]]
    BY <1>6 DEF Folds
  <2>2. \A e \in SUBSET (1..n) : e # {} =>
           st[Max(e)][g[e \ {Max(e)}]] = Scan(g[e \ {Max(e)}], t[Max(e)])
    BY <1>7, <1>8, <1>9
  <2>. QED BY <2>1, <2>2
<1>11. ks = [e \in SUBSET DOMAIN t |-> IF e = {} THEN Unread
                    ELSE LET x == Max(e) IN Scan(ks[e \ {x}], t[x])]
  <2>1. g = [e \in SUBSET DOMAIN t |-> IF e = {} THEN Unread
                    ELSE LET x == Max(e) IN Scan(g[e \ {x}], t[x])]
    BY <1>1, <1>10
  <2>. USE DEF ks
  <2>. QED BY <2>1
<1>12. PICK k : /\ k = ks
                /\ k = [e \in SUBSET (1..n) |-> IF e = {} THEN Unread
                    ELSE LET x == Max(e) IN Scan(k[e \ {x}], t[x])]
  BY <1>1, <1>11
<1>13. \A e \in SUBSET (1..n) : k[e] \in A
  <2>1. k[{}] \in A
    BY <1>3, <1>12
  <2>2. \A e \in SUBSET (1..n) : e # {} /\ k[e \ {Max(e)}] \in A => k[e] \in A
    BY <1>4, <1>8, <1>12
  <2>. QED BY <1>1, <2>1, <2>2, FoldInduction
<1>14. Folds(k, st, Unread, n)
  <2>1. \A e \in SUBSET (1..n) : e # {} =>
           st[Max(e)][k[e \ {Max(e)}]] = Scan(k[e \ {Max(e)}], t[Max(e)])
    BY <1>7, <1>8, <1>13
  <2>. QED BY <1>12, <2>1 DEF Folds
<1>15. 1..n \in SUBSET (1..n)
  OBVIOUS
<1>. QED BY <1>1, <1>2, <1>5, <1>12, <1>13, <1>14, <1>15 DEF A

\* The parser reads one character after the other.
LEMMA ReadNext ==
  ASSUME NEW C
  PROVE  /\ ReadOf(<< >>) = Unread
         /\ \A t \in Seq(C) : ReadOf(t) \in ReadTo(C)
         /\ \A t \in Seq(C), ch \in C : ReadOf(Append(t, ch)) = Scan(ReadOf(t), ch)
<1>1. ReadOf(<< >>) = Unread
  <2>1. << >> \in Seq(C) /\ Len(<< >>) = 0 /\ 1..0 = {}
    OBVIOUS
  <2>2. PICK st, k : Folds(k, st, Unread, 0) /\ ReadOf(<< >>) = k[1..0]
    BY <2>1, ReadFolds
  <2>. QED BY <2>1, <2>2 DEF Folds
<1>2. \A t \in Seq(C) : ReadOf(t) \in ReadTo(C)
  BY ReadFolds
<1>3. ASSUME NEW t \in Seq(C), NEW ch \in C
      PROVE  ReadOf(Append(t, ch)) = Scan(ReadOf(t), ch)
  <2>1. PICK u \in Seq(C) : u = Append(t, ch)
    BY AppendIs
  <2>2. PICK n \in Nat : n = Len(t) /\ Len(u) = n + 1 /\ u[n + 1] = ch /\ \A i \in 1..n : u[i] = t[i]
    BY <2>1, AppendIs
  <2>3. PICK st, k : /\ st = [i \in 1..n |-> [a \in ReadTo(C) |-> Scan(a, t[i])]]
                     /\ Folds(k, st, Unread, n) /\ ReadOf(t) = k[1..n] /\ ReadOf(t) \in ReadTo(C)
    BY <2>2, ReadFolds
  <2>4. PICK su, g : /\ su = [i \in 1..(n + 1) |-> [a \in ReadTo(C) |-> Scan(a, u[i])]]
                     /\ Folds(g, su, Unread, n + 1) /\ ReadOf(u) = g[1..(n + 1)]
    BY <2>2, ReadFolds
  <2>5. \A i \in 1..n : su[i] = st[i]
    BY <2>2, <2>3, <2>4
  <2>6. g[1..(n + 1)] = su[n + 1][k[1..n]]
    <3>1. PICK b : b = Unread
      OBVIOUS
    <3>2. Folds(k, st, b, n) /\ Folds(g, su, b, n + 1)
      BY <2>3, <2>4, <3>1
    <3>. QED BY <2>5, <3>2, FoldsAgree
  <2>7. su[n + 1][ReadOf(t)] = Scan(ReadOf(t), ch)
    <3>1. n + 1 \in 1..(n + 1)
      OBVIOUS
    <3>. QED BY <2>2, <2>3, <2>4, <3>1
  <2>. QED BY <2>1, <2>3, <2>4, <2>6, <2>7
<1>. QED BY <1>1, <1>2, <1>3

\* Two ways to say that a sequence has one element more.
LEMMA AppendEq ==
  ASSUME NEW Q, NEW u \in Seq(Q), NEW ss \in Seq(Q), NEW x \in Q, Len(u) = Len(ss) + 1,
         u[Len(ss) + 1] = x, \A i \in 1..Len(ss) : u[i] = ss[i]
  PROVE  u = Append(ss, x)
  OBVIOUS

LEMMA ConcatIs ==
  ASSUME NEW Q, NEW ss \in Seq(Q), NEW tt \in Seq(Q)
  PROVE  ss \o tt \in Seq(Q)
  OBVIOUS

Doubles(ch) == IF ch = Quote THEN <<Quote, Quote>> ELSE <<ch>>

LEMMA DoubledNext ==
  ASSUME NEW C, Quote \in C
  PROVE  /\ Doubled(<< >>) = << >>
         /\ \A t \in Seq(C) : Doubled(t) \in Seq(C)
         /\ \A t \in Seq(C), ch \in C : Doubled(Append(t, ch)) = Doubled(t) \o Doubles(ch)
<1> DEFINE Q == Seq(C)
           D(t) == [k \in DOMAIN t |-> Doubles(t[k])]
<1>1. \A ch \in C : Doubles(ch) \in Q
  BY DEF Doubles
<1>2. \A t : Doubled(t) = FlattenSeq(D(t))
  BY DEF Doubled, Doubles
<1>3. \A t \in Seq(C) : D(t) \in Seq(Q) /\ Len(D(t)) = Len(t)
  <2>. HIDE DEF Q
  <2>1. \A t \in Seq(C) : DOMAIN t = 1..Len(t) /\ Len(t) \in Nat /\ \A k \in DOMAIN t : t[k] \in C
    OBVIOUS
  <2>. QED BY <1>1, <2>1
<1>4. ASSUME NEW t \in Seq(C), NEW ch \in C
      PROVE  D(Append(t, ch)) = Append(D(t), Doubles(ch))
  <2>0. PICK u \in Seq(C) : u = Append(t, ch)
    BY AppendIs
  <2>1. /\ u = Append(t, ch) /\ Len(t) \in Nat /\ Len(u) = Len(t) + 1
        /\ u[Len(t) + 1] = ch /\ \A i \in 1..Len(t) : u[i] = t[i]
    BY <2>0, AppendIs
  <2>2. DOMAIN u = 1..Len(u) /\ DOMAIN t = 1..Len(t)
    OBVIOUS
  <2>3. /\ D(u)[Len(t) + 1] = Doubles(ch) /\ \A i \in 1..Len(t) : D(u)[i] = D(t)[i]
    BY <2>1, <2>2
  <2>4. PICK du \in Seq(Q), dt \in Seq(Q), x \in Q : du = D(u) /\ dt = D(t) /\ x = Doubles(ch)
    BY <1>1, <1>3
  <2>5. Len(du) = Len(dt) + 1 /\ du[Len(dt) + 1] = x /\ \A i \in 1..Len(dt) : du[i] = dt[i]
    BY <1>3, <2>1, <2>3, <2>4
  <2>. HIDE DEF Q, D
  <2>6. du = Append(dt, x)
    BY <2>5, AppendEq
  <2>. QED BY <2>1, <2>4, <2>6
<1>5. Doubled(<< >>) = << >>
  <2>1. D(<< >>) = << >>
    OBVIOUS
  <2>. QED BY <1>2, <2>1, FlattenTyped
<1>6. \A t \in Seq(C) : Doubled(t) \in Seq(C)
  <2>. HIDE DEF D
  <2>. QED BY <1>2, <1>3, FlattenTyped
<1>7. ASSUME NEW t \in Seq(C), NEW ch \in C
      PROVE  Doubled(Append(t, ch)) = Doubled(t) \o Doubles(ch)
  <2>1. PICK dt \in Seq(Q), x \in Q : dt = D(t) /\ x = Doubles(ch)
    BY <1>1, <1>3
  <2>. HIDE DEF D
  <2>2. FlattenSeq(Append(dt, x)) = FlattenSeq(dt) \o x
    BY <2>1, FlattenNext
  <2>. QED BY <1>2, <1>4, <2>1, <2>2
<1>. QED BY <1>5, <1>6, <1>7

\* The parser is outside quotes, within them, or behind a quote that may end them.
Outside(rows, row, cur) ==
    [rows |-> rows, row |-> row, cur |-> cur, quoted |-> FALSE, over |-> FALSE]
Within(rows, row, cur) ==
    [rows |-> rows, row |-> row, cur |-> cur, quoted |-> TRUE, over |-> FALSE]
Behind(rows, row, cur) ==
    [rows |-> rows, row |-> row, cur |-> cur, quoted |-> FALSE, over |-> TRUE]

LEMMA ScanKnown ==
  ASSUME NEW rows, NEW row, NEW cur, NEW ch
  PROVE  /\ ch # Quote =>
               Scan(Within(rows, row, cur), ch) = Within(rows, row, Append(cur, ch))
         /\ Scan(Within(rows, row, cur), Quote) = Behind(rows, row, cur)
         /\ Scan(Behind(rows, row, cur), Quote) = Within(rows, row, Append(cur, Quote))
         /\ Scan(Outside(rows, row, cur), Quote) = Within(rows, row, cur)
         /\ ch \notin {Comma, Quote, Newline} =>
               Scan(Outside(rows, row, cur), ch) = Outside(rows, row, Append(cur, ch))
  BY ExchangeAssumption DEF Scan, Outside, Within, Behind

LEMMA ScanComma ==
  ASSUME NEW rows, NEW row, NEW cur
  PROVE  /\ Scan(Outside(rows, row, cur), Comma) = Outside(rows, Append(row, cur), << >>)
         /\ Scan(Behind(rows, row, cur), Comma) = Outside(rows, Append(row, cur), << >>)
  BY ExchangeAssumption DEF Scan, Outside, Behind, Empty

LEMMA ScanNewline ==
  ASSUME NEW rows, NEW row, NEW cur
  PROVE  /\ Scan(Outside(rows, row, cur), Newline) = Outside(Append(rows, Append(row, cur)), << >>, << >>)
         /\ Scan(Behind(rows, row, cur), Newline) = Outside(Append(rows, Append(row, cur)), << >>, << >>)
<1>1. Newline # Quote /\ Newline # Comma
  BY ExchangeAssumption
<1>2. PICK line : line = Append(row, cur)
  OBVIOUS
<1>3. PICK more : more = Append(rows, line)
  OBVIOUS
<1>. QED BY <1>1, <1>2, <1>3 DEF Scan, Outside, Behind, Empty

LEMMA ReadOn ==
  ASSUME NEW C, NEW t \in Seq(C), NEW ch \in C, NEW st, ReadOf(t) = st
  PROVE  ReadOf(Append(t, ch)) = Scan(st, ch)
  BY ReadNext

\* Within quotes a text is read as it is, its quotes doubled.
LEMMA ReadQuoted ==
  ASSUME NEW C, Quote \in C, NEW t \in Seq(C), NEW rows, NEW row,
         ReadOf(t) = Within(rows, row, << >>)
  PROVE  \A x \in Seq(C) : ReadOf(t \o Doubled(x)) = Within(rows, row, x)
<1> DEFINE T == {x \in Seq(C) : ReadOf(t \o Doubled(x)) = Within(rows, row, x)}
<1>1. << >> \in T
  <2>1. << >> \in Seq(C) /\ t \o << >> = t
    OBVIOUS
  <2>. QED BY <2>1, DoubledNext
<1>2. ASSUME NEW x \in Seq(C), NEW ch \in C, x \in T PROVE Append(x, ch) \in T
  <2>1. PICK d \in Seq(C) : d = Doubled(x)
    BY DoubledNext
  <2>2. PICK u \in Seq(C) : u = t \o d
    BY ConcatIs
  <2>3. ReadOf(u) = Within(rows, row, x)
    BY <1>2, <2>1, <2>2
  <2>4. Doubled(Append(x, ch)) = d \o Doubles(ch)
    BY <2>1, DoubledNext
  <2>5. CASE ch # Quote
    <3>1. t \o (d \o <<ch>>) = Append(u, ch)
      BY <2>2
    <3>2. ReadOf(Append(u, ch)) = Within(rows, row, Append(x, ch))
      BY <2>3, <2>5, ReadOn, ScanKnown
    <3>3. t \o Doubled(Append(x, ch)) = Append(u, ch)
      BY <2>4, <2>5, <3>1 DEF Doubles
    <3>4. Append(x, ch) \in Seq(C)
      BY AppendIs
    <3>. QED BY <3>2, <3>3, <3>4
  <2>6. CASE ch = Quote
    <3>1. PICK v \in Seq(C) : v = Append(u, Quote)
      BY AppendIs
    <3>2. t \o (d \o <<Quote, Quote>>) = Append(v, Quote)
      BY <2>2, <3>1
    <3>3. ReadOf(v) = Behind(rows, row, x)
      BY <2>3, <3>1, ReadOn, ScanKnown
    <3>4. ReadOf(Append(v, Quote)) = Within(rows, row, Append(x, ch))
      BY <2>6, <3>3, ReadOn, ScanKnown
    <3>5. t \o Doubled(Append(x, ch)) = Append(v, Quote)
      BY <2>4, <2>6, <3>2 DEF Doubles
    <3>6. Append(x, ch) \in Seq(C)
      BY AppendIs
    <3>. QED BY <3>4, <3>5, <3>6
  <2>. QED BY <2>5, <2>6
<1>3. \A x \in Seq(C) : x \in T
  <2>. HIDE DEF T
  <2>. QED BY <1>1, <1>2, SeqInduction
<1>. QED BY <1>3

LEMMA ReadPlain ==
  ASSUME NEW C, NEW t \in Seq(C), NEW rows, NEW row,
         ReadOf(t) = Outside(rows, row, << >>)
  PROVE  \A x \in Seq(C \ {Comma, Quote, Newline}) :
            ReadOf(t \o x) = Outside(rows, row, x)
<1> DEFINE B == C \ {Comma, Quote, Newline}
           T == {x \in Seq(B) : ReadOf(t \o x) = Outside(rows, row, x)}
<1>1. << >> \in T
  <2>1. << >> \in Seq(B) /\ t \o << >> = t
    OBVIOUS
  <2>. QED BY <2>1
<1>2. ASSUME NEW x \in Seq(B), NEW ch \in B, x \in T PROVE Append(x, ch) \in T
  <2>1. x \in Seq(C) /\ ch \in C /\ ch \notin {Comma, Quote, Newline}
    OBVIOUS
  <2>2. PICK u \in Seq(C) : u = t \o x
    BY <2>1, ConcatIs
  <2>3. ReadOf(Append(u, ch)) = Outside(rows, row, Append(x, ch))
    <3>1. ReadOf(u) = Outside(rows, row, x)
      BY <1>2, <2>2
    <3>2. ReadOf(Append(u, ch)) = Scan(Outside(rows, row, x), ch)
      BY <2>1, <3>1, ReadOn
    <3>. QED BY <2>1, <3>2, ScanKnown
  <2>4. t \o Append(x, ch) = Append(u, ch)
    BY <2>1, <2>2
  <2>5. Append(x, ch) \in Seq(B)
    BY AppendIs
  <2>. QED BY <2>3, <2>4, <2>5
<1>3. \A x \in Seq(B) : x \in T
  <2>. HIDE DEF T
  <2>. QED BY <1>1, <1>2, SeqInduction
<1>. QED BY <1>3

\* What csvEscape makes of a text is read as this text, whatever is in it.
LEMMA ReadCell ==
  ASSUME NEW C, {Comma, Quote} \subseteq C, NEW t \in Seq(C), NEW x \in Seq(C),
         NEW rows, NEW row, ReadOf(t) = Outside(rows, row, << >>)
  PROVE  /\ Escape(x) \in Seq(C)
         /\ ReadOf(t \o Escape(x)) \in {Outside(rows, row, x), Behind(rows, row, x)}
<1>1. CASE NeedsQuotes(x)
  <2>1. PICK d \in Seq(C) : d = Doubled(x)
    BY DoubledNext
  <2>2. PICK u \in Seq(C) : u = Append(t, Quote)
    BY AppendIs
  <2>3. ReadOf(u) = Within(rows, row, << >>)
    BY <2>2, ReadOn, ScanKnown
  <2>4. ReadOf(u \o d) = Within(rows, row, x)
    BY <2>1, <2>3, ReadQuoted
  <2>5. PICK v \in Seq(C) : v = u \o d
    BY ConcatIs
  <2>6. ReadOf(Append(v, Quote)) = Behind(rows, row, x)
    <3>1. ReadOf(v) = Within(rows, row, x)
      BY <2>4, <2>5
    <3>2. ReadOf(Append(v, Quote)) = Scan(Within(rows, row, x), Quote)
      BY <3>1, ReadOn
    <3>. QED BY <3>2, ScanKnown
  <2>7. Escape(x) = <<Quote>> \o d \o <<Quote>>
    BY <1>1, <2>1 DEF Escape
  <2>8. t \o (<<Quote>> \o d \o <<Quote>>) = Append(v, Quote)
    BY <2>2, <2>5
  <2>9. <<Quote>> \o d \o <<Quote>> \in Seq(C)
    OBVIOUS
  <2>. QED BY <2>6, <2>7, <2>8, <2>9
<1>2. CASE ~NeedsQuotes(x)
  <2>1. PICK n \in Nat : n = Len(x) /\ DOMAIN x = 1..n /\ \A k \in 1..n : x[k] \in C
    OBVIOUS
  <2>2. \A k \in 1..n : x[k] \notin {Comma, Quote, Newline}
    BY <1>2, <2>1 DEF NeedsQuotes, Special, ToSet
  <2> DEFINE B == C \ {Comma, Quote, Newline}
  <2>4. x \in Seq(B)
    <3>1. \A k \in 1..n : x[k] \in B
      BY <2>1, <2>2
    <3>. HIDE DEF B
    <3>. QED BY <2>1, <3>1
  <2>3. ReadOf(t \o x) = Outside(rows, row, x)
    BY <2>4, ReadPlain
  <2>. QED BY <1>2, <2>3 DEF Escape
<1>. QED BY <1>1, <1>2

\* A line grows by a cell, a file by a line.
LEMMA JoinedNext ==
  ASSUME NEW C, NEW sep \in C
  PROVE  /\ JoinedBy(sep, << >>) = << >>
         /\ \A ts \in Seq(Seq(C)) : JoinedBy(sep, ts) \in Seq(C)
         /\ \A t \in Seq(C) : JoinedBy(sep, <<t>>) = t
         /\ \A ts \in Seq(Seq(C)), t \in Seq(C) : ts # << >> =>
               JoinedBy(sep, Append(ts, t)) = JoinedBy(sep, ts) \o (<<sep>> \o t)
<1> DEFINE Q == Seq(C)
           Part(ts, k) == IF k = 1 THEN ts[k] ELSE <<sep>> \o ts[k]
           P(ts) == [k \in DOMAIN ts |-> Part(ts, k)]
<1>1. \A ts : JoinedBy(sep, ts) = FlattenSeq(P(ts))
  BY DEF JoinedBy
<1>2. ASSUME NEW t \in Q PROVE <<sep>> \o t \in Q
  OBVIOUS
<1>. HIDE DEF Q
<1>3. ASSUME NEW ts \in Seq(Q)
      PROVE  P(ts) \in Seq(Q) /\ Len(P(ts)) = Len(ts)
  <2>1. DOMAIN ts = 1..Len(ts) /\ Len(ts) \in Nat /\ \A k \in DOMAIN ts : ts[k] \in Q
    OBVIOUS
  <2>2. \A k \in 1..Len(ts) : Part(ts, k) \in Q
    BY <1>2, <2>1
  <2>. HIDE DEF Part
  <2>. QED BY <2>1, <2>2
<1>4. ASSUME NEW ts \in Seq(Q), NEW t \in Q, ts # << >>
      PROVE  P(Append(ts, t)) = Append(P(ts), <<sep>> \o t)
  <2>0. PICK us \in Seq(Q) : us = Append(ts, t)
    BY AppendIs
  <2>1. /\ us = Append(ts, t) /\ Len(ts) \in Nat /\ Len(us) = Len(ts) + 1
        /\ us[Len(ts) + 1] = t /\ \A i \in 1..Len(ts) : us[i] = ts[i]
    BY <2>0, AppendIs
  <2>2. DOMAIN us = 1..Len(us) /\ DOMAIN ts = 1..Len(ts) /\ Len(ts) + 1 # 1
    BY <1>4
  <2>3. P(us)[Len(ts) + 1] = <<sep>> \o t /\ \A i \in 1..Len(ts) : P(us)[i] = P(ts)[i]
    BY <2>1, <2>2
  <2>4. PICK pu \in Seq(Q), pt \in Seq(Q), x \in Q : pu = P(us) /\ pt = P(ts) /\ x = <<sep>> \o t
    BY <1>2, <1>3
  <2>5. Len(pu) = Len(pt) + 1 /\ pu[Len(pt) + 1] = x /\ \A i \in 1..Len(pt) : pu[i] = pt[i]
    BY <1>3, <2>1, <2>3, <2>4
  <2>. HIDE DEF P
  <2>6. pu = Append(pt, x)
    BY <2>5, AppendEq
  <2>. QED BY <2>1, <2>4, <2>6
<1>5. JoinedBy(sep, << >>) = << >>
  <2>1. P(<< >>) = << >>
    OBVIOUS
  <2>. QED BY <1>1, <2>1, FlattenTyped
<1>6. \A ts \in Seq(Q) : JoinedBy(sep, ts) \in Q
  <2>. HIDE DEF P
  <2>. QED BY <1>1, <1>3, FlattenTyped DEF Q
<1>7. ASSUME NEW t \in Q PROVE JoinedBy(sep, <<t>>) = t
  <2>1. P(<<t>>) = Append(<< >>, t)
    OBVIOUS
  <2>2. FlattenSeq(Append(<< >>, t)) = FlattenSeq(<< >>) \o t
    <3>1. << >> \in Seq(Seq(C)) /\ t \in Seq(C)
      BY DEF Q
    <3>. QED BY <3>1, FlattenNext
  <2>3. << >> \o t = t
    BY DEF Q
  <2>. HIDE DEF P
  <2>. QED BY <1>1, <2>1, <2>2, <2>3, FlattenTyped
<1>8. ASSUME NEW ts \in Seq(Q), NEW t \in Q, ts # << >>
      PROVE  JoinedBy(sep, Append(ts, t)) = JoinedBy(sep, ts) \o (<<sep>> \o t)
  <2>1. PICK pt \in Seq(Q), x \in Q : pt = P(ts) /\ x = <<sep>> \o t
    BY <1>2, <1>3
  <2>. HIDE DEF P
  <2>2. FlattenSeq(Append(pt, x)) = FlattenSeq(pt) \o x
    BY <2>1, FlattenNext DEF Q
  <2>. QED BY <1>1, <1>4, <1>8, <2>1, <2>2
<1>. QED BY <1>5, <1>6, <1>7, <1>8 DEF Q

\* The line that is written for some cells.
LineOf(cells) == CsvLine([k \in DOMAIN cells |-> Escape(cells[k])])

\* The characters that are written and read.
CsvOf(C) == {Comma, Quote} \subseteq C

LEMMA EscapeTyped ==
  ASSUME NEW C, CsvOf(C), NEW x \in Seq(C)
  PROVE  Escape(x) \in Seq(C)
<1>1. Quote \in C
  BY DEF CsvOf
<1>2. PICK d \in Seq(C) : d = Doubled(x)
  BY <1>1, DoubledNext
<1>3. <<Quote>> \o d \o <<Quote>> \in Seq(C)
  BY <1>1
<1>. QED BY <1>2, <1>3 DEF Escape

LEMMA LineNext ==
  ASSUME NEW C, CsvOf(C)
  PROVE  /\ \A x \in Seq(C) : LineOf(<<x>>) = Escape(x)
         /\ \A xs \in Seq(Seq(C)) : LineOf(xs) \in Seq(C)
         /\ \A xs \in Seq(Seq(C)), x \in Seq(C) : xs # << >> =>
               LineOf(Append(xs, x)) = LineOf(xs) \o (<<Comma>> \o Escape(x))
<1> DEFINE Q == Seq(C)
           E(xs) == [k \in DOMAIN xs |-> Escape(xs[k])]
<1>0. Comma \in C
  BY DEF CsvOf
<1>1. \A x \in Q : Escape(x) \in Q
  BY EscapeTyped
<1>2. \A xs : LineOf(xs) = JoinedBy(Comma, E(xs))
  BY DEF LineOf, CsvLine
<1>8. /\ \A ts \in Seq(Q) : JoinedBy(Comma, ts) \in Q
      /\ \A t \in Q : JoinedBy(Comma, <<t>>) = t
      /\ \A ts \in Seq(Q), t \in Q : ts # << >> =>
            JoinedBy(Comma, Append(ts, t)) = JoinedBy(Comma, ts) \o (<<Comma>> \o t)
  BY <1>0, JoinedNext
<1>. HIDE DEF Q
<1>3. ASSUME NEW xs \in Seq(Q)
      PROVE  E(xs) \in Seq(Q) /\ Len(E(xs)) = Len(xs)
  <2>1. DOMAIN xs = 1..Len(xs) /\ Len(xs) \in Nat /\ \A k \in DOMAIN xs : xs[k] \in Q
    OBVIOUS
  <2>. QED BY <1>1, <2>1
<1>4. ASSUME NEW xs \in Seq(Q), NEW x \in Q
      PROVE  E(Append(xs, x)) = Append(E(xs), Escape(x))
  <2>0. PICK us \in Seq(Q) : us = Append(xs, x)
    BY AppendIs
  <2>1. /\ us = Append(xs, x) /\ Len(xs) \in Nat /\ Len(us) = Len(xs) + 1
        /\ us[Len(xs) + 1] = x /\ \A i \in 1..Len(xs) : us[i] = xs[i]
    BY <2>0, AppendIs
  <2>2. DOMAIN us = 1..Len(us) /\ DOMAIN xs = 1..Len(xs)
    OBVIOUS
  <2>3. E(us)[Len(xs) + 1] = Escape(x) /\ \A i \in 1..Len(xs) : E(us)[i] = E(xs)[i]
    BY <2>1, <2>2
  <2>4. PICK eu \in Seq(Q), ex \in Seq(Q), y \in Q : eu = E(us) /\ ex = E(xs) /\ y = Escape(x)
    BY <1>1, <1>3
  <2>5. Len(eu) = Len(ex) + 1 /\ eu[Len(ex) + 1] = y /\ \A i \in 1..Len(ex) : eu[i] = ex[i]
    BY <1>3, <2>1, <2>3, <2>4
  <2>. HIDE DEF E
  <2>6. eu = Append(ex, y)
    BY <2>5, AppendEq
  <2>. QED BY <2>1, <2>4, <2>6
<1>5. ASSUME NEW x \in Q PROVE LineOf(<<x>>) = Escape(x)
  <2>1. E(<<x>>) = <<Escape(x)>>
    OBVIOUS
  <2>. QED BY <1>1, <1>2, <1>8, <2>1
<1>6. ASSUME NEW xs \in Seq(Q) PROVE LineOf(xs) \in Q
  <2>. HIDE DEF E
  <2>. QED BY <1>2, <1>3, <1>8
<1>7. ASSUME NEW xs \in Seq(Q), NEW x \in Q, xs # << >>
      PROVE  LineOf(Append(xs, x)) = LineOf(xs) \o (<<Comma>> \o Escape(x))
  <2>1. PICK ex \in Seq(Q), y \in Q : ex = E(xs) /\ y = Escape(x)
    BY <1>1, <1>3
  <2>2. ex # << >>
    <3>1. Len(ex) = Len(xs) /\ Len(xs) # 0
      BY <1>3, <1>7, <2>1
    <3>. QED BY <3>1
  <2>. HIDE DEF E
  <2>3. JoinedBy(Comma, Append(ex, y)) = JoinedBy(Comma, ex) \o (<<Comma>> \o y)
    BY <1>8, <2>1, <2>2
  <2>. QED BY <1>2, <1>4, <1>7, <2>1, <2>3
<1>. QED BY <1>5, <1>6, <1>7 DEF Q

LEMMA EmptyIs == ASSUME NEW Q PROVE << >> \in Seq(Q)
  OBVIOUS

LEMMA ConcatThree ==
  ASSUME NEW S, NEW a \in Seq(S), NEW b \in Seq(S), NEW c \in Seq(S)
  PROVE  (a \o b) \o c = a \o (b \o c)
  BY ConcatAssociative

\* A text to which another one is added; a name keeps the prover from its parts.
Joined(s, t) == s \o t

LEMMA JoinedTwice ==
  ASSUME NEW C, NEW s \in Seq(C), NEW l \in Seq(C), NEW ch \in C, NEW e \in Seq(C)
  PROVE  Joined(Append(Joined(s, l), ch), e) = Joined(s, Joined(l, Joined(<<ch>>, e)))
<1>1. <<ch>> \in Seq(C) /\ s \o l \in Seq(C) /\ <<ch>> \o e \in Seq(C)
  OBVIOUS
<1>2. Append(s \o l, ch) = (s \o l) \o <<ch>>
  BY <1>1
<1>3. ((s \o l) \o <<ch>>) \o e = (s \o l) \o (<<ch>> \o e)
  BY <1>1, ConcatThree
<1>4. (s \o l) \o (<<ch>> \o e) = s \o (l \o (<<ch>> \o e))
  BY <1>1, ConcatThree
<1>. QED BY <1>2, <1>3, <1>4 DEF Joined

\* A parser that reads a line knows its cells, the last one as far as it has come.
LEMMA LineReadAfter ==
  ASSUME NEW C, CsvOf(C), NEW s \in Seq(C), NEW rows, ReadOf(s) = Outside(rows, << >>, << >>)
  PROVE  \A xs \in Seq(Seq(C)) : xs # << >> =>
            \E ys \in Seq(Seq(C)), y \in Seq(C) :
               /\ xs = Append(ys, y)
               /\ ReadOf(s \o LineOf(xs)) \in {Outside(rows, ys, y), Behind(rows, ys, y)}
<1> DEFINE Q == Seq(C)
           Reads(xs, ys, y) == /\ xs = Append(ys, y)
                               /\ ReadOf(s \o LineOf(xs)) \in {Outside(rows, ys, y), Behind(rows, ys, y)}
           T == {xs \in Seq(Q) : xs # << >> => \E ys \in Seq(Q), y \in Q : Reads(xs, ys, y)}
<1>0. Comma \in C /\ Quote \in C /\ {Comma, Quote} \subseteq C
  BY DEF CsvOf
<1>1. \A l \in Seq(C), e \in Seq(C) :
         Joined(Append(Joined(s, l), Comma), e) = Joined(s, Joined(l, Joined(<<Comma>>, e)))
  <2>. SUFFICES ASSUME NEW l \in Seq(C), NEW e \in Seq(C)
                PROVE  Joined(Append(Joined(s, l), Comma), e) = Joined(s, Joined(l, Joined(<<Comma>>, e)))
    OBVIOUS
  <2>1. Comma \in C
    BY <1>0
  <2>. QED BY ONLY <2>1, JoinedTwice
<1>2. << >> \in T
  <2>. HIDE DEF Q
  <2>. QED OBVIOUS
<1>3. ASSUME NEW xs \in Seq(Q), NEW x \in Q, xs \in T PROVE Append(xs, x) \in T
  <2>1. Reads(Append(xs, x), xs, x)
    <3>1. CASE xs = << >>
      <4>1. ReadOf(s \o Escape(x)) \in {Outside(rows, << >>, x), Behind(rows, << >>, x)}
        BY <1>0, ReadCell
      <4>2. Append(xs, x) = <<x>> /\ LineOf(<<x>>) = Escape(x)
        BY <3>1, LineNext
      <4>. QED BY <3>1, <4>1, <4>2
    <3>2. CASE xs # << >>
      <4>1. PICK ys \in Seq(Q), y \in Q : Reads(xs, ys, y)
        BY <1>3, <3>2
      <4>2. PICK l \in Seq(C) : l = LineOf(xs)
        BY LineNext
      <4>3. PICK t \in Seq(C) : t = s \o l
        BY ConcatIs
      <4>4. ReadOf(t) \in {Outside(rows, ys, y), Behind(rows, ys, y)} /\ xs = Append(ys, y)
        BY <4>1, <4>2, <4>3
      <4>5. PICK u \in Seq(C) : u = Append(t, Comma)
        BY <1>0, AppendIs
      <4>6. ReadOf(u) = Outside(rows, xs, << >>)
        <5>1. PICK st : st = ReadOf(t)
          OBVIOUS
        <5>2. ReadOf(u) = Scan(st, Comma)
          BY <1>0, <4>5, <5>1, ReadOn
        <5>3. Scan(st, Comma) = Outside(rows, Append(ys, y), << >>)
          <6>1. CASE st = Outside(rows, ys, y)
            BY <6>1, ScanComma
          <6>2. CASE st = Behind(rows, ys, y)
            BY <6>2, ScanComma
          <6>. QED BY <4>4, <5>1, <6>1, <6>2
        <5>. QED BY <4>4, <5>2, <5>3
      <4>7. ReadOf(u \o Escape(x)) \in {Outside(rows, xs, x), Behind(rows, xs, x)}
        BY <1>0, <4>6, ReadCell
      <4>8. PICK e \in Seq(C) : e = Escape(x)
        BY EscapeTyped
      <4>9. LineOf(Append(xs, x)) = Joined(l, Joined(<<Comma>>, e))
        BY <3>2, <4>2, <4>8, LineNext DEF Joined
      <4>10. t = Joined(s, l) /\ u \o e = Joined(u, e)
             /\ s \o LineOf(Append(xs, x)) = Joined(s, LineOf(Append(xs, x)))
        BY <4>3 DEF Joined
      <4>11. Joined(Append(Joined(s, l), Comma), e) = Joined(s, Joined(l, Joined(<<Comma>>, e)))
        BY <1>1, Zenon
      <4>12. u \o e = s \o LineOf(Append(xs, x))
        BY <4>5, <4>9, <4>10, <4>11, Zenon
      <4>. QED BY <4>7, <4>8, <4>9, <4>12
    <3>. QED BY <3>1, <3>2
  <2>2. Append(xs, x) \in Seq(Q)
    <3>. HIDE DEF Q
    <3>. QED BY AppendIs
  <2>. HIDE DEF Q, Reads
  <2>. QED BY <2>1, <2>2
<1>4. \A xs \in Seq(Q) : xs \in T
  <2>. HIDE DEF T, Q
  <2>. QED BY <1>2, <1>3, SeqInduction
<1>. QED BY <1>4

\* What csvEscape and join write, parseCsv reads as one row of the same cells,
\* whatever commas, quotes and newlines are in them.
THEOREM CellsReadBack ==
  ASSUME NEW C, CsvOf(C), NEW xs \in Seq(Seq(C)), xs # << >>
  PROVE  Parse(LineOf(xs)) = <<xs>>
<1>1. PICK ys \in Seq(Seq(C)), y \in Seq(C) :
         /\ xs = Append(ys, y)
         /\ ReadOf(LineOf(xs)) \in {Outside(<< >>, ys, y), Behind(<< >>, ys, y)}
  <2>1. PICK s \in Seq(C) : s = << >>
    BY EmptyIs
  <2>2. ReadOf(s) = Outside(<< >>, << >>, << >>)
    BY <2>1, ReadNext DEF Unread, Outside, Empty
  <2>3. PICK ys \in Seq(Seq(C)), y \in Seq(C) :
           /\ xs = Append(ys, y)
           /\ ReadOf(s \o LineOf(xs)) \in {Outside(<< >>, ys, y), Behind(<< >>, ys, y)}
    BY <2>2, LineReadAfter
  <2>4. s \o LineOf(xs) = LineOf(xs)
    BY <2>1, LineNext
  <2>. QED BY <2>3, <2>4
<1>2. PICK st : st = ReadOf(LineOf(xs))
  OBVIOUS
<1>3. st.rows = << >> /\ st.row = ys /\ st.cur = y
  BY <1>1, <1>2 DEF Outside, Behind
<1>4. Parse(LineOf(xs)) = Append(st.rows, Append(st.row, st.cur))
  BY <1>2 DEF Parse, ReadOf
<1>. QED BY <1>1, <1>3, <1>4

--------------------------------------------------------------------------------
(* The lines of a file.                                                         *)

SplitOf(text) == FoldLeft(Split, <<Empty>>, text)

Lines(C) == Seq(Seq(C)) \ {<< >>}

LEMMA SplitTyped ==
  ASSUME NEW C, NEW lines \in Lines(C), NEW ch \in C
  PROVE  Split(lines, ch) \in Lines(C)
<1> DEFINE Q == Seq(C)
<1>1. Empty \in Q
  BY EmptyIs DEF Empty
<1>2. \A line \in Q : Append(line, ch) \in Q
  BY AppendIs
<1>. HIDE DEF Q
<1>3. lines \in Seq(Q) /\ lines # << >>
  BY DEF Lines, Q
<1>4. Append(lines, Empty) \in Seq(Q) /\ Append(lines, Empty) # << >>
  BY <1>1, <1>3, AppendIs
<1>5. PICK n \in Nat : n = Len(lines) /\ n \in DOMAIN lines /\ lines[n] \in Q
  BY <1>3
<1>6. PICK line \in Q : line = Append(lines[n], ch)
  BY <1>2, <1>5
<1>7. [lines EXCEPT ![n] = line] \in Seq(Q) /\ [lines EXCEPT ![n] = line] # << >>
  BY <1>3, <1>5
<1>8. Split(lines, ch) \in {Append(lines, Empty), [lines EXCEPT ![n] = line]}
  BY <1>5, <1>6 DEF Split
<1>. QED BY <1>4, <1>7, <1>8 DEF Lines, Q

LEMMA SplitFolds ==
  ASSUME NEW C, NEW t \in Seq(C)
  PROVE  \E st, k : /\ st = [i \in 1..Len(t) |-> [a \in Lines(C) |-> Split(a, t[i])]]
                    /\ Folds(k, st, <<Empty>>, Len(t))
                    /\ SplitOf(t) = k[1..Len(t)] /\ SplitOf(t) \in Lines(C)
<1> DEFINE A == Lines(C)
           ks == CHOOSE iter : iter = [e \in SUBSET DOMAIN t |->
                    IF e = {} THEN <<Empty>>
                    ELSE LET x == Max(e) IN Split(iter[e \ {x}], t[x])]
<1>1. PICK n \in Nat : n = Len(t) /\ DOMAIN t = 1..n /\ \A i \in 1..n : t[i] \in C
  OBVIOUS
<1>2. SplitOf(t) = ks[DOMAIN t]
  BY DEF SplitOf, FoldLeft, MapThenFoldSet
<1>3. <<Empty>> \in A
  <2>1. PICK e \in Seq(C) : e = Empty
    BY EmptyIs DEF Empty
  <2>2. <<e>> \in Seq(Seq(C)) /\ <<e>> # << >>
    OBVIOUS
  <2>. QED BY <2>1, <2>2 DEF Lines
<1>4. \A a \in A, i \in 1..n : Split(a, t[i]) \in A
  BY <1>1, SplitTyped
<1>5. PICK st : st = [i \in 1..n |-> [a \in A |-> Split(a, t[i])]]
  OBVIOUS
<1>. HIDE DEF A, ks
<1>6. PICK g : Folds(g, st, <<Empty>>, n)
  BY <1>1, FoldsExist
<1>7. \A a \in A, i \in 1..n : st[i][a] = Split(a, t[i])
  BY <1>5
<1>8. \A e \in SUBSET (1..n) : e # {} => Max(e) \in 1..n /\ e \ {Max(e)} \in SUBSET (1..n)
  BY <1>1, MaxOf
<1>9. \A e \in SUBSET (1..n) : g[e] \in A
  <2>1. \A a \in A, i \in 1..n : st[i][a] \in A
    BY <1>4, <1>7
  <2>2. PICK b \in A : b = <<Empty>>
    BY <1>3
  <2>. QED BY <1>1, <1>6, <2>1, <2>2, FoldsTyped
<1>10. g = [e \in SUBSET (1..n) |-> IF e = {} THEN <<Empty>>
                    ELSE LET x == Max(e) IN Split(g[e \ {x}], t[x])]
  <2>1. g = [e \in SUBSET (1..n) |-> IF e = {} THEN <<Empty>> ELSE st[Max(e)][g[e \ {Max(e)}]]]
    BY <1>6 DEF Folds
  <2>2. \A e \in SUBSET (1..n) : e # {} =>
           st[Max(e)][g[e \ {Max(e)}]] = Split(g[e \ {Max(e)}], t[Max(e)])
    BY <1>7, <1>8, <1>9
  <2>. QED BY <2>1, <2>2
<1>11. ks = [e \in SUBSET DOMAIN t |-> IF e = {} THEN <<Empty>>
                    ELSE LET x == Max(e) IN Split(ks[e \ {x}], t[x])]
  <2>1. g = [e \in SUBSET DOMAIN t |-> IF e = {} THEN <<Empty>>
                    ELSE LET x == Max(e) IN Split(g[e \ {x}], t[x])]
    BY <1>1, <1>10
  <2>. USE DEF ks
  <2>. QED BY <2>1
<1>12. PICK k : /\ k = ks
                /\ k = [e \in SUBSET (1..n) |-> IF e = {} THEN <<Empty>>
                    ELSE LET x == Max(e) IN Split(k[e \ {x}], t[x])]
  BY <1>1, <1>11
<1>13. \A e \in SUBSET (1..n) : k[e] \in A
  <2>1. k[{}] \in A
    BY <1>3, <1>12
  <2>2. \A e \in SUBSET (1..n) : e # {} /\ k[e \ {Max(e)}] \in A => k[e] \in A
    BY <1>4, <1>8, <1>12
  <2>. QED BY <1>1, <2>1, <2>2, FoldInduction
<1>14. Folds(k, st, <<Empty>>, n)
  <2>1. \A e \in SUBSET (1..n) : e # {} =>
           st[Max(e)][k[e \ {Max(e)}]] = Split(k[e \ {Max(e)}], t[Max(e)])
    BY <1>7, <1>8, <1>13
  <2>. QED BY <1>12, <2>1 DEF Folds
<1>15. 1..n \in SUBSET (1..n)
  OBVIOUS
<1>. QED BY <1>1, <1>2, <1>5, <1>12, <1>13, <1>14, <1>15 DEF A

\* Each newline begins another line, each other character goes to the last one.
LEMMA SplitNext ==
  ASSUME NEW C
  PROVE  /\ SplitOf(<< >>) = <<Empty>>
         /\ \A t \in Seq(C) : SplitOf(t) \in Lines(C)
         /\ \A t \in Seq(C), ch \in C : SplitOf(Append(t, ch)) = Split(SplitOf(t), ch)
<1>1. SplitOf(<< >>) = <<Empty>>
  <2>1. << >> \in Seq(C) /\ Len(<< >>) = 0 /\ 1..0 = {}
    OBVIOUS
  <2>2. PICK st, k : Folds(k, st, <<Empty>>, 0) /\ SplitOf(<< >>) = k[1..0]
    BY <2>1, SplitFolds
  <2>. QED BY <2>1, <2>2 DEF Folds
<1>2. \A t \in Seq(C) : SplitOf(t) \in Lines(C)
  BY SplitFolds
<1>3. ASSUME NEW t \in Seq(C), NEW ch \in C
      PROVE  SplitOf(Append(t, ch)) = Split(SplitOf(t), ch)
  <2>1. PICK u \in Seq(C) : u = Append(t, ch)
    BY AppendIs
  <2>2. PICK n \in Nat : n = Len(t) /\ Len(u) = n + 1 /\ u[n + 1] = ch /\ \A i \in 1..n : u[i] = t[i]
    BY <2>1, AppendIs
  <2>3. PICK st, k : /\ st = [i \in 1..n |-> [a \in Lines(C) |-> Split(a, t[i])]]
                     /\ Folds(k, st, <<Empty>>, n) /\ SplitOf(t) = k[1..n] /\ SplitOf(t) \in Lines(C)
    BY <2>2, SplitFolds
  <2>4. PICK su, g : /\ su = [i \in 1..(n + 1) |-> [a \in Lines(C) |-> Split(a, u[i])]]
                     /\ Folds(g, su, <<Empty>>, n + 1) /\ SplitOf(u) = g[1..(n + 1)]
    BY <2>2, SplitFolds
  <2>5. \A i \in 1..n : su[i] = st[i]
    BY <2>2, <2>3, <2>4
  <2>6. g[1..(n + 1)] = su[n + 1][k[1..n]]
    <3>1. PICK b : b = <<Empty>>
      OBVIOUS
    <3>2. Folds(k, st, b, n) /\ Folds(g, su, b, n + 1)
      BY <2>3, <2>4, <3>1
    <3>. QED BY <2>5, <3>2, FoldsAgree
  <2>7. su[n + 1][SplitOf(t)] = Split(SplitOf(t), ch)
    <3>1. n + 1 \in 1..(n + 1)
      OBVIOUS
    <3>. QED BY <2>2, <2>3, <2>4, <3>1
  <2>. QED BY <2>1, <2>3, <2>4, <2>6, <2>7
<1>. QED BY <1>1, <1>2, <1>3

LEMMA SplitAdds ==
  ASSUME NEW Q, NEW ls \in Seq(Q), NEW y \in Q, NEW ch
  PROVE  /\ Split(Append(ls, y), Newline) = Append(Append(ls, y), << >>)
         /\ ch # Newline => Split(Append(ls, y), ch) = Append(ls, Append(y, ch))
<1>1. Split(Append(ls, y), Newline) = Append(Append(ls, y), << >>)
  BY DEF Split, Empty
<1>2. ASSUME ch # Newline
      PROVE  Split(Append(ls, y), ch) = Append(ls, Append(y, ch))
  <2>1. PICK n \in Nat : n = Len(ls) /\ DOMAIN ls = 1..n
    OBVIOUS
  <2>2. PICK u \in Seq(Q) : u = Append(ls, y)
    BY AppendIs
  <2>3. Len(u) = n + 1 /\ u[n + 1] = y /\ \A i \in 1..n : u[i] = ls[i]
    BY <2>1, <2>2, AppendIs
  <2>4. Split(u, ch) = [u EXCEPT ![n + 1] = Append(y, ch)]
    BY <1>2, <2>3 DEF Split
  <2> DEFINE R == Q \cup {Append(y, ch)}
             v == [u EXCEPT ![n + 1] = Append(y, ch)]
  <2>5. PICK z \in R : z = Append(y, ch)
    OBVIOUS
  <2>. HIDE DEF R
  <2>6. ls \in Seq(R) /\ u \in Seq(R)
    BY <2>2 DEF R
  <2>7. /\ v \in Seq(R) /\ Len(v) = n + 1 /\ v[n + 1] = z /\ \A i \in 1..n : v[i] = ls[i]
    BY <2>3, <2>5, <2>6
  <2>. HIDE DEF v
  <2>8. v = Append(ls, z)
    BY <2>1, <2>5, <2>6, <2>7, AppendEq
  <2>. QED BY <2>2, <2>4, <2>5, <2>8 DEF v
<1>. QED BY <1>1, <1>2

LEMMA SplitOn ==
  ASSUME NEW C, NEW t \in Seq(C), NEW ch \in C, NEW ls, SplitOf(t) = ls
  PROVE  SplitOf(Append(t, ch)) = Split(ls, ch)
  BY SplitNext

\* A text without newlines goes on the last line.
LEMMA SplitText ==
  ASSUME NEW C, NEW t \in Seq(C), NEW ls \in Seq(Seq(C)), NEW y \in Seq(C),
         SplitOf(t) = Append(ls, y)
  PROVE  \A x \in Seq(C \ {Newline}) : SplitOf(t \o x) = Append(ls, y \o x)
<1> DEFINE B == C \ {Newline}
           T == {x \in Seq(B) : SplitOf(t \o x) = Append(ls, y \o x)}
<1>1. << >> \in T
  <2>1. << >> \in Seq(B) /\ t \o << >> = t /\ y \o << >> = y
    OBVIOUS
  <2>. QED BY <2>1
<1>2. ASSUME NEW x \in Seq(B), NEW ch \in B, x \in T PROVE Append(x, ch) \in T
  <2>1. x \in Seq(C) /\ ch \in C /\ ch # Newline
    OBVIOUS
  <2>2. PICK u \in Seq(C) : u = t \o x
    BY <2>1, ConcatIs
  <2>3. PICK z \in Seq(C) : z = y \o x
    BY <2>1, ConcatIs
  <2>4. SplitOf(Append(u, ch)) = Append(ls, Append(z, ch))
    <3>1. SplitOf(u) = Append(ls, z)
      BY <1>2, <2>2, <2>3
    <3>2. SplitOf(Append(u, ch)) = Split(Append(ls, z), ch)
      BY <2>1, <3>1, SplitOn
    <3>3. Split(Append(ls, z), ch) = Append(ls, Append(z, ch))
      BY <2>1, SplitAdds
    <3>. QED BY <3>2, <3>3
  <2>5. t \o Append(x, ch) = Append(u, ch) /\ y \o Append(x, ch) = Append(z, ch)
    <3>1. \A s \in Seq(C) : s \o Append(x, ch) = Append(s \o x, ch)
      BY <2>1
    <3>. QED BY <2>2, <2>3, <3>1
  <2>6. Append(x, ch) \in Seq(B)
    BY AppendIs
  <2>. QED BY <2>4, <2>5, <2>6
<1>3. \A x \in Seq(B) : x \in T
  <2>. HIDE DEF T
  <2>. QED BY <1>1, <1>2, SeqInduction
<1>. QED BY <1>3

\* Lines without newlines are the lines of the text that is made of them.
LEMMA LinesSplit ==
  ASSUME NEW C, Newline \in C
  PROVE  \A ls \in Seq(Seq(C \ {Newline})) : ls # << >> =>
            SplitOf(JoinedBy(Newline, ls)) = ls
<1> DEFINE B == C \ {Newline}
           Q == Seq(B)
           T == {ls \in Seq(Q) : ls # << >> => SplitOf(JoinedBy(Newline, ls)) = ls}
<1>0. \A x \in Q : x \in Seq(C)
  OBVIOUS
<1>1. << >> \in T
  <2>. HIDE DEF Q
  <2>. QED BY EmptyIs
<1>2. ASSUME NEW ls \in Seq(Q), NEW x \in Q, ls \in T PROVE Append(ls, x) \in T
  <2>0. x \in Seq(C) /\ x \in Seq(C \ {Newline})
    BY <1>0
  <2>1. ls \in Seq(Seq(C))
    <3> DEFINE D == Seq(C)
    <3>1. \A y \in Q : y \in D
      BY <1>0
    <3>. HIDE DEF D, Q
    <3>2. ls \in Seq(D)
      BY <3>1
    <3>. QED BY <3>2 DEF D
  <2>2. ASSUME ls = << >> PROVE SplitOf(JoinedBy(Newline, Append(ls, x))) = Append(ls, x)
    <3>1. PICK t \in Seq(C) : t = << >>
      BY EmptyIs
    <3>2. PICK ms \in Seq(Seq(C)) : ms = << >>
      BY EmptyIs
    <3>3. SplitOf(t) = Append(ms, t)
      BY <3>1, <3>2, SplitNext DEF Empty
    <3>4. SplitOf(t \o x) = Append(ms, t \o x)
      BY <2>0, <3>3, SplitText
    <3>5. t \o x = x /\ Append(ms, x) = <<x>> /\ Append(ls, x) = <<x>>
      BY <2>0, <2>2, <3>1, <3>2
    <3>6. JoinedBy(Newline, <<x>>) = x
      BY <2>0, JoinedNext
    <3>. QED BY <3>4, <3>5, <3>6
  <2>3. ASSUME ls # << >> PROVE SplitOf(JoinedBy(Newline, Append(ls, x))) = Append(ls, x)
    <3>1. PICK t \in Seq(C) : t = JoinedBy(Newline, ls)
      BY <2>1, JoinedNext
    <3>2. SplitOf(t) = ls
      BY <1>2, <2>3, <3>1
    <3>3. PICK u \in Seq(C) : u = Append(t, Newline)
      BY AppendIs
    <3>4. PICK e \in Seq(C) : e = << >>
      BY EmptyIs
    <3>5. SplitOf(u) = Append(ls, e)
      <4>1. SplitOf(u) = Split(ls, Newline)
        BY <3>2, <3>3, SplitOn
      <4>. QED BY <3>4, <4>1 DEF Split, Empty
    <3>6. SplitOf(u \o x) = Append(ls, e \o x)
      <4>1. \A r \in Seq(C \ {Newline}) : SplitOf(u \o r) = Append(ls, e \o r)
        BY <2>1, <3>5, SplitText
      <4>. QED BY <2>0, <4>1
    <3>7. e \o x = x /\ u \o x = t \o (<<Newline>> \o x)
      BY <2>0, <3>3, <3>4
    <3>8. JoinedBy(Newline, Append(ls, x)) = JoinedBy(Newline, ls) \o (<<Newline>> \o x)
      <4>1. \A ts \in Seq(Seq(C)), y \in Seq(C) : ts # << >> =>
               JoinedBy(Newline, Append(ts, y)) = JoinedBy(Newline, ts) \o (<<Newline>> \o y)
        BY JoinedNext
      <4>. QED BY <2>0, <2>1, <2>3, <4>1
    <3>. QED BY <3>1, <3>6, <3>7, <3>8
  <2>4. SplitOf(JoinedBy(Newline, Append(ls, x))) = Append(ls, x)
    BY <2>2, <2>3
  <2>5. Append(ls, x) \in Seq(Q)
    <3>. HIDE DEF Q
    <3>. QED BY AppendIs
  <2>. HIDE DEF Q
  <2>. QED BY <2>4, <2>5
<1>3. \A ls \in Seq(Q) : ls \in T
  <2>. HIDE DEF T, Q
  <2>. QED BY <1>1, <1>2, SeqInduction
<1>. QED BY <1>3

LEMMA TrimWhole ==
  ASSUME NEW C, NEW t \in Seq(C), t # << >>, t[1] \notin Blank, t[Len(t)] \notin Blank
  PROVE  Trim(t) = t
<1> DEFINE K == {k \in DOMAIN t : t[k] \notin Blank}
<1>1. PICK n \in Nat : n = Len(t) /\ DOMAIN t = 1..n /\ 1 \in 1..n /\ n \in 1..n
  OBVIOUS
<1>2. 1 \in K /\ n \in K /\ \A k \in K : 1 <= k /\ k <= n /\ k \in Int
  BY <1>1
<1>3. Min(K) = 1
  <2>1. Min(K) \in K /\ \A k \in K : Min(K) <= k
    <3>. HIDE DEF K
    <3>. QED BY <1>2 DEF Min
  <2>2. Min(K) <= 1 /\ 1 <= Min(K) /\ Min(K) \in Int
    BY <1>2, <2>1
  <2>. QED BY <2>2
<1>4. Max(K) = n
  <2>1. Max(K) \in K /\ \A k \in K : Max(K) >= k
    <3>1. \A k \in K : n >= k
      BY <1>1, <1>2
    <3>. HIDE DEF K
    <3>. QED BY <1>2, <3>1 DEF Max
  <2>2. Max(K) >= n /\ n >= Max(K) /\ Max(K) \in Int
    BY <1>1, <1>2, <2>1
  <2>. QED BY <2>2
<1>5. K # {}
  BY <1>2
<1>6. Trim(t) = SubSeq(t, Min(K), Max(K))
  BY <1>5 DEF Trim
<1>7. SubSeq(t, 1, n) = t
  BY <1>1
<1>. QED BY <1>3, <1>4, <1>6, <1>7

\* What a line of a file that is read back looks like.
Readable(line, C) ==
    line \in Seq(C \ {Newline}) /\ line # << >> /\ line[1] \notin Blank /\ line[Len(line)] \notin Blank

LEMMA SeqWithin ==
  ASSUME NEW C, NEW ls \in Seq(C), NEW Q, \A k \in DOMAIN ls : ls[k] \in Q
  PROVE  ls \in Seq(Q)
  OBVIOUS

LEMMA HeadAndTail ==
  ASSUME NEW Q, NEW h \in Q, NEW ls \in Seq(Q)
  PROVE  /\ <<h>> \o ls \in Seq(Q) /\ <<h>> \o ls # << >> /\ Tail(<<h>> \o ls) = ls
         /\ \A k \in DOMAIN (<<h>> \o ls) :
               (<<h>> \o ls)[k] = h \/ \E j \in DOMAIN ls : (<<h>> \o ls)[k] = ls[j]
<1>1. PICK n \in Nat : n = Len(ls) /\ DOMAIN ls = 1..n
  OBVIOUS
<1>2. PICK gs \in Seq(Q) : gs = <<h>> \o ls
  <2>1. <<h>> \in Seq(Q)
    OBVIOUS
  <2>. QED BY <2>1, ConcatIs
<1>3. Len(gs) = n + 1 /\ gs[1] = h /\ \A k \in 2..(n + 1) : gs[k] = ls[k - 1]
  BY <1>1, <1>2
<1>4. \A k \in DOMAIN gs : k = 1 \/ (k \in 2..(n + 1) /\ k - 1 \in 1..n)
  BY <1>3
<1>5. \A k \in DOMAIN gs : gs[k] = h \/ \E j \in DOMAIN ls : gs[k] = ls[j]
  BY <1>1, <1>3, <1>4
<1>6. Tail(gs) = ls
  BY <1>1, <1>2, <1>3
<1>. QED BY <1>2, <1>3, <1>5, <1>6

LEMMA DataLinesOf ==
  ASSUME NEW C, {Newline, Header} \subseteq C, NEW ls \in Seq(Seq(C)),
         \A k \in DOMAIN ls : Readable(ls[k], C)
  PROVE  DataLines(CsvFile(ls)) = ls
<1> DEFINE B == C \ {Newline}
           Q == Seq(B)
           fs == <<<<Header>>>> \o ls
<1>1. Header \in B /\ Header \notin Blank
  BY ExchangeAssumption DEF Blank
<1>2. Readable(<<Header>>, C)
  BY <1>1 DEF Readable
<1>3. <<Header>> \in Q /\ \A k \in DOMAIN ls : ls[k] \in Q
  BY <1>2 DEF Readable
<1>4. fs \in Seq(Q) /\ fs # << >> /\ Tail(fs) = ls /\ \A k \in DOMAIN fs : Readable(fs[k], C)
  <2>1. PICK h \in Q : h = <<Header>>
    BY <1>3
  <2>2. ls \in Seq(Q)
    <3> DEFINE D == Seq(C)
    <3>1. ls \in Seq(D) /\ \A k \in DOMAIN ls : ls[k] \in Q
      BY <1>3
    <3>. HIDE DEF D, Q
    <3>2. PICK ms \in Seq(D) : ms = ls
      BY <3>1
    <3>3. ms \in Seq(Q)
      BY <3>1, <3>2, SeqWithin
    <3>. QED BY <3>2, <3>3
  <2>. HIDE DEF Q
  <2>3. PICK gs \in Seq(Q) : gs = <<h>> \o ls
    BY <2>2, HeadAndTail
  <2>4. /\ gs # << >> /\ Tail(gs) = ls
        /\ \A k \in DOMAIN gs : gs[k] = h \/ \E j \in DOMAIN ls : gs[k] = ls[j]
    BY <2>2, <2>3, HeadAndTail
  <2>. QED BY <1>2, <2>1, <2>3, <2>4
<1>. HIDE DEF fs
<1>5. PICK lines \in Seq(Q) : lines = fs /\ FoldLeft(Split, <<Empty>>, CsvFile(ls)) = lines
  <2>1. CsvFile(ls) = JoinedBy(Newline, fs)
    BY DEF CsvFile, fs
  <2>2. SplitOf(JoinedBy(Newline, fs)) = fs
    BY <1>4, LinesSplit
  <2>. QED BY <1>4, <2>1, <2>2 DEF SplitOf
<1> DEFINE trimmed == [k \in DOMAIN lines |-> Trim(lines[k])]
<1>6. trimmed = lines
  <2>1. \A k \in DOMAIN lines : Trim(lines[k]) = lines[k]
    BY <1>4, <1>5, TrimWhole DEF Readable
  <2>2. lines = [k \in DOMAIN lines |-> lines[k]]
    <3>. HIDE DEF Q
    <3>. QED OBVIOUS
  <2>. QED BY <2>1, <2>2
<1>7. DOMAIN lines \subseteq {k \in DOMAIN trimmed : trimmed[k] # Empty}
  BY <1>4, <1>5, <1>6 DEF Readable, Empty
<1>8. Selected(trimmed, {k \in DOMAIN trimmed : trimmed[k] # Empty}) = lines
  <2>. HIDE DEF Q
  <2>. QED BY <1>6, <1>7, SelectedWhole
<1>9. DataLines(CsvFile(ls)) = Tail(Selected(trimmed, {k \in DOMAIN trimmed : trimmed[k] # Empty}))
  BY <1>5 DEF DataLines
<1>. QED BY <1>4, <1>5, <1>8, <1>9

\* A line begins and ends like its first and its last cell, or with a comma.
LEMMA LineStarts ==
  ASSUME NEW C, CsvOf(C)
  PROVE  \A xs \in Seq(Seq(C)) : xs # << >> =>
            \E r \in Seq(C) : LineOf(xs) = Escape(xs[1]) \o r /\ (r = << >> \/ r[1] = Comma)
<1> DEFINE Q == Seq(C)
           Goes(xs, r) == LineOf(xs) = Escape(xs[1]) \o r /\ (r = << >> \/ r[1] = Comma)
           T == {xs \in Seq(Q) : xs # << >> => \E r \in Q : Goes(xs, r)}
<1>1. << >> \in T
  <2>. HIDE DEF Q
  <2>. QED BY EmptyIs
<1>2. ASSUME NEW xs \in Seq(Q), NEW x \in Q, xs \in T PROVE Append(xs, x) \in T
  <2>1. \E r \in Q : Goes(Append(xs, x), r)
    <3>1. CASE xs = << >>
      <4>1. PICK e \in Seq(C) : e = Escape(x)
        BY EscapeTyped
      <4>2. PICK r \in Q : r = << >>
        BY EmptyIs
      <4>3. Append(xs, x) = <<x>> /\ <<x>>[1] = x /\ e \o r = e
        BY <3>1, <4>2
      <4>4. LineOf(<<x>>) = Escape(x)
        BY LineNext
      <4>5. Goes(Append(xs, x), r)
        BY <4>1, <4>2, <4>3, <4>4
      <4>. QED BY <4>5
    <3>2. CASE xs # << >>
      <4>1. PICK r \in Q : Goes(xs, r)
        BY <1>2, <3>2
      <4>2. PICK e \in Seq(C), f \in Seq(C) : e = Escape(xs[1]) /\ f = Escape(x)
        <5>1. xs[1] \in Seq(C)
          <6>. HIDE DEF Q
          <6>1. xs[1] \in Q
            BY <3>2
          <6>. QED BY <6>1 DEF Q
        <5>. QED BY <5>1, EscapeTyped
      <4>c. Comma \in C
        BY DEF CsvOf
      <4>b. <<Comma>> \in Seq(C)
        BY <4>c
      <4>d. PICK g \in Seq(C) : g = <<Comma>> \o f
        BY <4>b, ConcatIs
      <4>3. PICK s \in Q : s = r \o (<<Comma>> \o f)
        BY <4>d, ConcatIs
      <4>4. s[1] = Comma
        BY <4>1, <4>c, <4>3
      <4>5. (e \o r) \o (<<Comma>> \o f) = e \o s
        BY <4>c, <4>3
      <4>6. LineOf(Append(xs, x)) = LineOf(xs) \o (<<Comma>> \o f)
        BY <3>2, <4>2, LineNext
      <4>7. Append(xs, x)[1] = xs[1]
        <5>. HIDE DEF Q
        <5>1. 1 \in 1..Len(xs)
          BY <3>2
        <5>. QED BY <5>1, AppendIs
      <4>8. Goes(Append(xs, x), s)
        BY <4>1, <4>2, <4>4, <4>5, <4>6, <4>7
      <4>. QED BY <4>8
    <3>. QED BY <3>1, <3>2
  <2>2. Append(xs, x) \in Seq(Q)
    <3>. HIDE DEF Q
    <3>. QED BY AppendIs
  <2>. HIDE DEF Q, Goes
  <2>. QED BY <2>1, <2>2
<1>3. \A xs \in Seq(Q) : xs \in T
  <2>. HIDE DEF T, Q
  <2>. QED BY <1>1, <1>2, SeqInduction
<1>. QED BY <1>3

LEMMA EscapeEnds ==
  ASSUME NEW C, CsvOf(C), NEW x \in Seq(C)
  PROVE  /\ x = << >> => Escape(x) = << >>
         /\ x # << >> => /\ Escape(x) # << >> /\ Escape(x)[1] \in {Quote, x[1]}
                         /\ Escape(x)[Len(Escape(x))] \in {Quote, x[Len(x)]}
<1>1. CASE x = << >>
  <2>1. ToSet(x) = {}
    BY <1>1 DEF ToSet
  <2>. QED BY <1>1, <2>1 DEF Escape, NeedsQuotes
<1>2. CASE x # << >> /\ NeedsQuotes(x)
  <2>1. PICK d \in Seq(C) : d = Doubled(x)
    BY DoubledNext DEF CsvOf
  <2>q. Quote \in C
    BY DEF CsvOf
  <2>b. <<Quote>> \in Seq(C)
    BY <2>q
  <2>c. PICK g \in Seq(C) : g = <<Quote>> \o d
    BY <2>b, ConcatIs
  <2>2. PICK e \in Seq(C) : e = (<<Quote>> \o d) \o <<Quote>>
    BY <2>b, <2>c, ConcatIs
  <2>3. e # << >> /\ e[1] = Quote /\ e[Len(e)] = Quote
    BY <2>q, <2>2
  <2>4. Escape(x) = e
    BY <1>2, <2>1, <2>2 DEF Escape
  <2>. QED BY <1>2, <2>3, <2>4
<1>3. CASE x # << >> /\ ~NeedsQuotes(x)
  BY <1>3 DEF Escape
<1>. QED BY <1>1, <1>2, <1>3

LEMMA ConcatEnds ==
  ASSUME NEW Q, NEW ss \in Seq(Q), NEW tt \in Seq(Q), tt # << >>
  PROVE  (ss \o tt)[Len(ss \o tt)] = tt[Len(tt)]
<1>1. PICK m \in Nat, n \in Nat : m = Len(ss) /\ n = Len(tt) /\ n # 0
  OBVIOUS
<1>2. Len(ss \o tt) = m + n
  BY <1>1
<1>3. m + n \in 1..(m + n) /\ m + n > m
  BY <1>1
<1>4. (ss \o tt)[m + n] = tt[n]
  BY <1>1, <1>3
<1>. QED BY <1>1, <1>2, <1>4

\* When a line can be read back from a file of lines: it has no newline, and the
\* trimming of lines takes nothing from its first and its last cell.
LEMMA LineReadable ==
  ASSUME NEW C, CsvOf(C), NEW D, D = C \ {Newline}, NEW xs \in Seq(Seq(D)), NEW x \in Seq(D),
         xs # << >>, xs[1] # << >> => xs[1][1] \notin Blank,
         x # << >> => x[Len(x)] \notin Blank
  PROVE  Readable(LineOf(Append(xs, x)), C)
<1>1. CsvOf(D) /\ Comma \in D /\ Comma \notin Blank /\ Quote \notin Blank
  BY ExchangeAssumption DEF CsvOf, Blank
<1>2. LineOf(Append(xs, x)) = LineOf(xs) \o (<<Comma>> \o Escape(x))
  BY <1>1, LineNext
<1>3. PICK r \in Seq(D) : LineOf(xs) = Escape(xs[1]) \o r /\ (r = << >> \/ r[1] = Comma)
  BY <1>1, LineStarts
<1>4. PICK y \in Seq(D) : y = xs[1]
  <2> DEFINE Q == Seq(D)
  <2>. HIDE DEF Q
  <2>1. xs \in Seq(Q)
    BY DEF Q
  <2>2. xs[1] \in Q
    BY <2>1
  <2>. QED BY <2>2 DEF Q
<1>5. PICK e \in Seq(D), f \in Seq(D) : e = Escape(y) /\ f = Escape(x)
  BY <1>1, EscapeTyped
<1>c. <<Comma>> \in Seq(D)
  BY <1>1
<1>g. PICK g \in Seq(D), h \in Seq(D) : g = e \o r /\ h = <<Comma>> \o f
  BY <1>c, ConcatIs
<1>6. PICK line \in Seq(D) : line = (e \o r) \o (<<Comma>> \o f)
  BY <1>g, ConcatIs
<1>7. LineOf(Append(xs, x)) = line
  BY <1>2, <1>3, <1>4, <1>5, <1>6
<1>8. line # << >>
  BY <1>1, <1>6
<1>9. line[1] \notin Blank
  <2>1. CASE e = << >> /\ r = << >>
    BY <1>1, <1>6, <2>1
  <2>2. CASE e = << >> /\ r # << >>
    <3>1. line[1] = r[1]
      BY <1>1, <1>6, <2>2
    <3>. QED BY <1>1, <1>3, <2>2, <3>1
  <2>3. CASE e # << >>
    <3>1. line[1] = e[1]
      BY <1>1, <1>6, <2>3
    <3>2. y # << >>
      BY <1>1, <1>5, <2>3, EscapeEnds
    <3>3. e[1] \in {Quote, y[1]}
      BY <1>1, <1>5, <3>2, EscapeEnds
    <3>. QED BY <1>1, <1>4, <3>1, <3>2, <3>3
  <2>. QED BY <2>1, <2>2, <2>3
<1>10. line[Len(line)] \notin Blank
  <2>1. CASE f = << >>
    <3>1. line[Len(line)] = Comma
      BY <1>1, <1>6, <2>1
    <3>. QED BY <1>1, <3>1
  <2>2. CASE f # << >>
    <3>4. h # << >> /\ h[Len(h)] = f[Len(f)]
      <4>1. h = <<Comma>> \o f
        BY <1>g
      <4>2. h[Len(h)] = f[Len(f)]
        BY <1>c, <2>2, <4>1, ConcatEnds
      <4>3. Len(h) = Len(f) + 1
        BY <4>1
      <4>. QED BY <4>2, <4>3
    <3>5. line = g \o h
      BY <1>g, <1>6
    <3>6. line[Len(line)] = h[Len(h)]
      BY <3>4, <3>5, ConcatEnds
    <3>1. line[Len(line)] = f[Len(f)]
      BY <3>4, <3>6
    <3>2. x # << >>
      BY <1>1, <1>5, <2>2, EscapeEnds
    <3>3. f[Len(f)] \in {Quote, x[Len(x)]}
      BY <1>1, <1>5, <3>2, EscapeEnds
    <3>. QED BY <1>1, <3>1, <3>2, <3>3
  <2>. QED BY <2>1, <2>2
<1>. QED BY <1>7, <1>8, <1>9, <1>10 DEF Readable

--------------------------------------------------------------------------------
(* The CSV of instruments.                                                      *)

\* The characters of the CSV of instruments and templates.
Char == {Comma, Quote, Newline, Space, Header} \cup Isin \cup Code \cup Int \cup {NaN}
        \cup UNION {ToSet(text) : text \in Prose \cup Ext}

\* Those of one line, and those of which a column has one that needs no quotes.
LineChar == Char \ {Newline}
Plain    == Isin \cup Code \cup Int \cup {NaN}

LEMMA CharIs ==
  /\ CsvOf(Char) /\ CsvOf(LineChar) /\ {Newline, Header} \subseteq Char
  /\ \A text \in Prose \cup Ext : OneLine(text) => text \in Seq(LineChar)
  /\ \A ch \in Plain : ch \in LineChar /\ ch \notin Blank \cup {Comma, Quote, Newline}
<1>1. CsvOf(Char) /\ {Newline, Header} \subseteq Char
  BY DEF CsvOf, Char
<1>2. CsvOf(LineChar)
  BY <1>1, ExchangeAssumption DEF CsvOf, LineChar
<1>3. ASSUME NEW text \in Prose \cup Ext, OneLine(text) PROVE text \in Seq(LineChar)
  <2>1. text \in Seq(ToSet(text))
    BY ExchangeAssumption
  <2>2. ToSet(text) \subseteq LineChar
    BY <1>3 DEF OneLine, Char, LineChar
  <2>3. PICK S : S = ToSet(text)
    OBVIOUS
  <2>. QED BY <2>1, <2>2, <2>3
<1>4. ASSUME NEW ch \in Plain PROVE ch \in LineChar /\ ch \notin Blank \cup {Comma, Quote, Newline}
  BY ExchangeAssumption DEF Plain, LineChar, Char, Blank
<1>. QED BY <1>1, <1>2, <1>3, <1>4

\* A column of one plain character needs no quotes.
LEMMA PlainCell ==
  ASSUME NEW ch \in Plain
  PROVE  <<ch>> \in Seq(LineChar) /\ Escape(<<ch>>) = <<ch>>
<1>1. ch \in LineChar /\ ch \notin {Comma, Quote, Newline}
  BY CharIs
<1>2. ToSet(<<ch>>) = {ch}
  BY DEF ToSet
<1>. QED BY <1>1, <1>2 DEF Escape, NeedsQuotes, Special

LEMMA InstrumentLine ==
  ASSUME NEW name \in Seq(LineChar), NEW x \in Isin, NEW ext \in Seq(LineChar),
         name # << >> => name[1] \notin Blank, ext # << >> => ext[Len(ext)] \notin Blank,
         NEW cells, cells = <<name, <<x>>, ext>>,
         NEW line, line = CsvLine(<<Escape(name), <<x>>, Escape(ext)>>)
  PROVE  Readable(line, Char) /\ Parse(line) = <<cells>>
<1> DEFINE Q == Seq(LineChar)
<1>1. PICK i \in Q : i = <<x>> /\ Escape(i) = i
  BY PlainCell DEF Plain
<1>2. PICK e \in Q, f \in Q : e = name /\ f = ext
  OBVIOUS
<1>3. /\ cells \in Seq(Q) /\ cells # << >>
      /\ <<e, i>> \in Seq(Q) /\ <<e, i>> # << >> /\ <<e, i>>[1] = e
      /\ cells = Append(<<e, i>>, f)
  <2>. HIDE DEF Q
  <2>. QED BY <1>1, <1>2
<1>4. line = LineOf(cells)
  <2>1. [k \in DOMAIN cells |-> Escape(cells[k])] = <<Escape(e), Escape(i), Escape(f)>>
    <3>. HIDE DEF Q
    <3>1. cells = <<e, i, f>>
      BY <1>1, <1>2
    <3>. QED BY <3>1
  <2>. QED BY <1>1, <1>2, <2>1 DEF LineOf
<1>5. Readable(LineOf(Append(<<e, i>>, f)), Char)
  <2>1. PICK xs \in Seq(Seq(LineChar)) : xs = <<e, i>>
    BY <1>3
  <2>2. xs # << >> /\ (xs[1] # << >> => xs[1][1] \notin Blank)
    BY <1>2, <1>3, <2>1
  <2>3. Readable(LineOf(Append(xs, f)), Char)
    BY <1>2, <2>2, CharIs, LineReadable DEF LineChar
  <2>. QED BY <2>1, <2>3
<1>6. Parse(LineOf(cells)) = <<cells>>
  BY <1>3, CharIs, CellsReadBack
<1>. QED BY <1>3, <1>4, <1>5, <1>6

LEMMA InstrumentRowsTyped ==
  ASSUME CatalogueOK
  PROVE  InstrumentRows \in Seq([isin : Isin, name : Prose, ext : Ext \cup {Empty}])
<1> DEFINE S == {x \in Isin : instruments[x] # None}
           RowOf(x) == [isin |-> x, name |-> instruments[x].name, ext |-> instruments[x].ext]
<1>1. IsFiniteSet(S)
  BY ExchangeAssumption, FS_Subset
<1>2. PICK s \in Seq(S) : s = SetToSeq(S)
  BY <1>1, SetToSeqTyped
<1>3. \A x \in S : RowOf(x) \in [isin : Isin, name : Prose, ext : Ext \cup {Empty}]
  BY DEF CatalogueOK
<1>4. InstrumentRows = [k \in DOMAIN s |-> RowOf(s[k])]
  BY <1>2 DEF InstrumentRows, Mapped
<1>. HIDE DEF S, RowOf
<1>5. DOMAIN s = 1..Len(s) /\ Len(s) \in Nat /\ \A k \in DOMAIN s : s[k] \in S
  OBVIOUS
<1>. QED BY <1>3, <1>4, <1>5

LEMMA InstrumentsReadBack ==
  ASSUME CatalogueOK, \A k \in DOMAIN InstrumentRows : Bare(InstrumentRows[k].name)
  PROVE  ReadInstruments(InstrumentCsv(InstrumentRows)) = InstrumentRows
<1> DEFINE R == [isin : Isin, name : Prose, ext : Ext \cup {Empty}]
           LineFor(r) == CsvLine(<<Escape(r.name), <<r.isin>>, Escape(r.ext)>>)
           RowFor(line) == [isin |-> Value(Parse(line)[1], 2), name |-> Cell(Parse(line)[1], 1),
                            ext |-> Cell(Parse(line)[1], 3)]
<1>1. PICK rows \in Seq(R) : rows = InstrumentRows
  BY InstrumentRowsTyped
<1>2. ASSUME NEW k \in DOMAIN rows
      PROVE  Readable(LineFor(rows[k]), Char) /\ RowFor(LineFor(rows[k])) = rows[k]
  <2>1. PICK r \in R : r = rows[k] /\ Bare(r.name)
    <3>1. Bare(rows[k].name)
      BY <1>1
    <3>2. rows[k] \in R
      <4>. HIDE DEF R
      <4>. QED BY <1>1
    <3>. QED BY <3>1, <3>2
  <2>2. r.name \in Seq(LineChar) /\ (r.name # << >> => r.name[1] \notin Blank)
    <3>1. r.name \in Prose /\ OneLine(r.name)
      BY <2>1 DEF Bare
    <3>2. PICK name \in Seq(LineChar) : name = r.name
      BY <3>1, CharIs
    <3>3. name # << >> => name[1] \in LineChar
      OBVIOUS
    <3>. QED BY <2>1, <3>2, <3>3 DEF Bare, Blank, LineChar, Empty
  <2>3. r.ext \in Seq(LineChar) /\ (r.ext # << >> => r.ext[Len(r.ext)] \notin Blank)
    <3>1. CASE r.ext = Empty
      BY <3>1 DEF Empty
    <3>2. CASE r.ext # Empty
      <4>1. r.ext \in Ext /\ OneLine(r.ext) /\ Last(r.ext) # Space
        BY <2>1, <3>2, ExchangeAssumption DEF OneLine
      <4>2. PICK ext \in Seq(LineChar) : ext = r.ext
        BY <4>1, CharIs
      <4>3. ext # << >> => ext[Len(ext)] \in LineChar
        OBVIOUS
      <4>. QED BY <4>1, <4>2, <4>3 DEF Last, Blank, LineChar
    <3>. QED BY <3>1, <3>2
  <2>4. PICK cells, line : cells = <<r.name, <<r.isin>>, r.ext>> /\ line = LineFor(r)
    OBVIOUS
  <2>5. Readable(line, Char) /\ Parse(line) = <<cells>>
    BY <2>1, <2>2, <2>3, <2>4, InstrumentLine
  <2>6. Parse(line)[1] = cells
    BY <2>5
  <2>7. Cell(cells, 1) = r.name /\ Cell(cells, 3) = r.ext /\ Value(cells, 2) = r.isin
    BY <2>4 DEF Cell, Value, Empty
  <2>. QED BY <2>1, <2>4, <2>5, <2>6, <2>7
<1>3. PICK n \in Nat : n = Len(rows) /\ DOMAIN rows = 1..n
  OBVIOUS
<1>4. PICK lines : lines = [k \in 1..n |-> LineFor(rows[k])]
  OBVIOUS
<1>5. /\ DOMAIN lines = 1..n
      /\ \A k \in 1..n : Readable(lines[k], Char) /\ RowFor(lines[k]) = rows[k]
  BY <1>2, <1>3, <1>4
<1>6. InstrumentCsv(InstrumentRows) = CsvFile(lines)
  BY <1>1, <1>3, <1>4 DEF InstrumentCsv, Mapped
<1>7. DataLines(CsvFile(lines)) = lines
  <2>1. lines \in Seq(Seq(Char))
    <3> DEFINE Q == Seq(Char)
    <3>1. \A k \in 1..n : lines[k] \in Q
      <4>1. \A line \in Seq(Char \ {Newline}) : line \in Q
        OBVIOUS
      <4>. QED BY <1>5, <4>1 DEF Readable
    <3>. HIDE DEF Q, LineFor
    <3>2. lines \in Seq(Q)
      BY <1>3, <1>4, <1>5, <3>1
    <3>. QED BY <3>2 DEF Q
  <2>. QED BY <1>5, <2>1, CharIs, DataLinesOf
<1>8. ReadInstruments(CsvFile(lines)) = [k \in 1..n |-> RowFor(lines[k])]
  BY <1>5, <1>7 DEF ReadInstruments, Mapped
<1>9. [k \in 1..n |-> RowFor(lines[k])] = rows
  <2>. HIDE DEF RowFor, R
  <2>. QED BY <1>3, <1>5
<1>. QED BY <1>1, <1>6, <1>8, <1>9

--------------------------------------------------------------------------------
(* The items that the lines of a file give, added one by one.                   *)

Item == [isin : Isin, weight : Int \cup {NaN}]
Read == [code : Code, desc : Seq(LineChar), items : Items]

CellsOf(code, desc, item) == <<<<code>>, desc, <<item.isin>>, <<item.weight>>>>

ItemCells == {CellsOf(code, desc, item) : code \in Code, desc \in Seq(LineChar), item \in Item}

LEMMA CellsGive ==
  ASSUME NEW code, NEW desc, NEW item \in Item, NEW c, c = CellsOf(code, desc, item)
  PROVE  /\ Value(c, 1) = code /\ Cell(c, 2) = desc
         /\ [isin |-> Value(c, 3), weight |-> Value(c, 4)] = item
         /\ Cell(c, 1) # Empty /\ Cell(c, 3) # Empty
<1>1. Cell(c, 1) = <<code>> /\ Cell(c, 2) = desc /\ Cell(c, 3) = <<item.isin>> /\ Cell(c, 4) = <<item.weight>>
  BY DEF CellsOf, Cell
<1>e. \A x : <<x>> # Empty /\ <<x>>[1] = x
  BY DEF Empty
<1>2. Value(c, 1) = code /\ Value(c, 3) = item.isin /\ Value(c, 4) = item.weight
  BY <1>1, <1>e DEF Value
<1>3. [isin |-> item.isin, weight |-> item.weight] = item
  BY DEF Item
<1>. QED BY <1>1, <1>2, <1>3, <1>e

\* A code that is not there yet begins a template.
LEMMA AddsNew ==
  ASSUME NEW ts \in Seq(Read), NEW code \in Code, NEW desc \in Seq(LineChar), NEW item \in Item,
         \A k \in DOMAIN ts : ts[k].code # code
  PROVE  AddItem(ts, CellsOf(code, desc, item)) =
            Append(ts, [code |-> code, desc |-> desc, items |-> <<item>>])
<1>1. PICK c : c = CellsOf(code, desc, item)
  OBVIOUS
<1>2. /\ Value(c, 1) = code /\ Cell(c, 2) = desc
      /\ [isin |-> Value(c, 3), weight |-> Value(c, 4)] = item
  BY <1>1, CellsGive
<1>3. {k \in DOMAIN ts : ts[k].code = Value(c, 1)} = {}
  BY <1>2
<1>. QED BY <1>1, <1>2, <1>3 DEF AddItem

\* An item is added to the template of its code.
LEMMA AddsTo ==
  ASSUME NEW ts \in Seq(Read), NEW code \in Code, NEW desc \in Seq(LineChar), NEW item \in Item,
         NEW m \in DOMAIN ts, ts[m].code = code, \A k \in DOMAIN ts : ts[k].code = code => k = m
  PROVE  AddItem(ts, CellsOf(code, desc, item)) = [ts EXCEPT ![m].items = Append(@, item)]
<1>1. PICK c : c = CellsOf(code, desc, item)
  OBVIOUS
<1>2. /\ Value(c, 1) = code
      /\ [isin |-> Value(c, 3), weight |-> Value(c, 4)] = item
  BY <1>1, CellsGive
<1>3. {k \in DOMAIN ts : ts[k].code = Value(c, 1)} = {m}
  BY <1>2
<1>4. Min({m}) = m
  <2>1. m \in Nat /\ m \in 1..m /\ {m} \in SUBSET (1..m)
    OBVIOUS
  <2>. QED BY <2>1, MinMax
<1>. QED BY <1>1, <1>2, <1>3, <1>4 DEF AddItem

LEMMA AddTyped ==
  ASSUME NEW ts \in Seq(Read), NEW c \in ItemCells
  PROVE  AddItem(ts, c) \in Seq(Read)
<1>1. PICK code \in Code, desc \in Seq(LineChar), item \in Item : c = CellsOf(code, desc, item)
  BY DEF ItemCells
<1>2. /\ Value(c, 1) = code /\ Cell(c, 2) = desc
      /\ [isin |-> Value(c, 3), weight |-> Value(c, 4)] = item
  BY <1>1, CellsGive
<1> DEFINE same == {k \in DOMAIN ts : ts[k].code = code}
<1>3. CASE same = {}
  <2>1. AddItem(ts, c) = Append(ts, [code |-> code, desc |-> desc, items |-> <<item>>])
    BY <1>2, <1>3 DEF AddItem
  <2>2. [code |-> code, desc |-> desc, items |-> <<item>>] \in Read
    BY DEF Read, Items, Item
  <2>. QED BY <2>1, <2>2
<1>4. CASE same # {}
  <2>1. PICK m \in DOMAIN ts : m = Min(same)
    <3>1. Len(ts) \in Nat /\ same \in SUBSET (1..Len(ts))
      OBVIOUS
    <3>. QED BY <1>4, <3>1, MinMax
  <2>2. AddItem(ts, c) = [ts EXCEPT ![m].items = Append(@, item)]
    <3>. HIDE DEF same
    <3>1. same = {k \in DOMAIN ts : ts[k].code = Value(c, 1)}
      BY <1>2 DEF same
    <3>. QED BY <1>2, <1>4, <2>1, <3>1 DEF AddItem
  <2>3. ts[m] \in Read
    OBVIOUS
  <2>4. PICK t \in Read : t = ts[m]
    BY <2>3
  <2>5. [t EXCEPT !.items = Append(@, item)] \in Read
    <3>1. PICK D : D = Seq(LineChar)
      OBVIOUS
    <3>2. Read = [code : Code, desc : D, items : Seq(Item)]
      BY <3>1 DEF Read, Items, Item
    <3>3. t \in [code : Code, desc : D, items : Seq(Item)]
      BY <3>2
    <3>4. PICK I : I = Seq(Item)
      OBVIOUS
    <3>5. t \in [code : Code, desc : D, items : I]
      BY <3>3, <3>4
    <3>6. t.items \in Seq(Item)
      BY <3>3
    <3>7. PICK is \in I : is = Append(t.items, item)
      BY <3>4, <3>6, AppendIs
    <3>8. [t EXCEPT !.items = is] \in [code : Code, desc : D, items : I]
      BY ONLY <3>5, is \in I
    <3>. QED BY <3>2, <3>4, <3>7, <3>8
  <2>6. PICK u \in Read : u = [t EXCEPT !.items = Append(@, item)]
    BY <2>5
  <2>7. [ts EXCEPT ![m] = u] \in Seq(Read)
    <3>. QED BY ONLY ts \in Seq(Read), m \in DOMAIN ts, u \in Read
  <2>8. [ts EXCEPT ![m].items = Append(@, item)] = [ts EXCEPT ![m] = u]
    BY <2>4, <2>6
  <2>. QED BY <2>2, <2>7, <2>8
<1>. QED BY <1>3, <1>4

AddOf(lines) == FoldLeft(AddItem, << >>, lines)

LEMMA AddFolds ==
  ASSUME NEW t \in Seq(ItemCells)
  PROVE  \E st, k : /\ st = [i \in 1..Len(t) |-> [a \in Seq(Read) |-> AddItem(a, t[i])]]
                    /\ Folds(k, st, << >>, Len(t))
                    /\ AddOf(t) = k[1..Len(t)] /\ AddOf(t) \in Seq(Read)
<1> DEFINE A == Seq(Read)
           ks == CHOOSE iter : iter = [e \in SUBSET DOMAIN t |->
                    IF e = {} THEN << >>
                    ELSE LET x == Max(e) IN AddItem(iter[e \ {x}], t[x])]
<1>1. PICK n \in Nat : n = Len(t) /\ DOMAIN t = 1..n /\ \A i \in 1..n : t[i] \in ItemCells
  OBVIOUS
<1>2. AddOf(t) = ks[DOMAIN t]
  BY DEF AddOf, FoldLeft, MapThenFoldSet
<1>3. << >> \in A
  BY EmptyIs
<1>4. \A a \in A, i \in 1..n : AddItem(a, t[i]) \in A
  BY <1>1, AddTyped
<1>5. PICK st : st = [i \in 1..n |-> [a \in A |-> AddItem(a, t[i])]]
  OBVIOUS
<1>. HIDE DEF A, ks
<1>6. PICK g : Folds(g, st, << >>, n)
  BY <1>1, FoldsExist
<1>7. \A a \in A, i \in 1..n : st[i][a] = AddItem(a, t[i])
  BY <1>5
<1>8. \A e \in SUBSET (1..n) : e # {} => Max(e) \in 1..n /\ e \ {Max(e)} \in SUBSET (1..n)
  BY <1>1, MaxOf
<1>9. \A e \in SUBSET (1..n) : g[e] \in A
  <2>1. \A a \in A, i \in 1..n : st[i][a] \in A
    BY <1>4, <1>7
  <2>2. PICK b \in A : b = << >>
    BY <1>3
  <2>. QED BY <1>1, <1>6, <2>1, <2>2, FoldsTyped
<1>10. g = [e \in SUBSET (1..n) |-> IF e = {} THEN << >>
                    ELSE LET x == Max(e) IN AddItem(g[e \ {x}], t[x])]
  <2>1. g = [e \in SUBSET (1..n) |-> IF e = {} THEN << >> ELSE st[Max(e)][g[e \ {Max(e)}]]]
    BY <1>6 DEF Folds
  <2>2. \A e \in SUBSET (1..n) : e # {} =>
           st[Max(e)][g[e \ {Max(e)}]] = AddItem(g[e \ {Max(e)}], t[Max(e)])
    BY <1>7, <1>8, <1>9
  <2>. QED BY <2>1, <2>2
<1>11. ks = [e \in SUBSET DOMAIN t |-> IF e = {} THEN << >>
                    ELSE LET x == Max(e) IN AddItem(ks[e \ {x}], t[x])]
  <2>1. g = [e \in SUBSET DOMAIN t |-> IF e = {} THEN << >>
                    ELSE LET x == Max(e) IN AddItem(g[e \ {x}], t[x])]
    BY <1>1, <1>10
  <2>. USE DEF ks
  <2>. QED BY <2>1
<1>12. PICK k : /\ k = ks
                /\ k = [e \in SUBSET (1..n) |-> IF e = {} THEN << >>
                    ELSE LET x == Max(e) IN AddItem(k[e \ {x}], t[x])]
  BY <1>1, <1>11
<1>13. \A e \in SUBSET (1..n) : k[e] \in A
  <2>1. k[{}] \in A
    BY <1>3, <1>12
  <2>2. \A e \in SUBSET (1..n) : e # {} /\ k[e \ {Max(e)}] \in A => k[e] \in A
    BY <1>4, <1>8, <1>12
  <2>. QED BY <1>1, <2>1, <2>2, FoldInduction
<1>14. Folds(k, st, << >>, n)
  <2>1. \A e \in SUBSET (1..n) : e # {} =>
           st[Max(e)][k[e \ {Max(e)}]] = AddItem(k[e \ {Max(e)}], t[Max(e)])
    BY <1>7, <1>8, <1>13
  <2>. QED BY <1>12, <2>1 DEF Folds
<1>15. 1..n \in SUBSET (1..n)
  OBVIOUS
<1>. QED BY <1>1, <1>2, <1>5, <1>12, <1>13, <1>14, <1>15 DEF A

\* Each line of a file adds its item to what the lines before it gave.
LEMMA AddNext ==
  /\ AddOf(<< >>) = << >>
  /\ \A t \in Seq(ItemCells) : AddOf(t) \in Seq(Read)
  /\ \A t \in Seq(ItemCells), c \in ItemCells : AddOf(Append(t, c)) = AddItem(AddOf(t), c)
<1>1. AddOf(<< >>) = << >>
  <2>1. << >> \in Seq(ItemCells) /\ Len(<< >>) = 0 /\ 1..0 = {}
    OBVIOUS
  <2>2. PICK st, k : Folds(k, st, << >>, 0) /\ AddOf(<< >>) = k[1..0]
    BY <2>1, AddFolds
  <2>. QED BY <2>1, <2>2 DEF Folds
<1>2. \A t \in Seq(ItemCells) : AddOf(t) \in Seq(Read)
  BY AddFolds
<1>3. ASSUME NEW t \in Seq(ItemCells), NEW c \in ItemCells
      PROVE  AddOf(Append(t, c)) = AddItem(AddOf(t), c)
  <2>1. PICK u \in Seq(ItemCells) : u = Append(t, c)
    BY AppendIs
  <2>2. PICK n \in Nat : n = Len(t) /\ Len(u) = n + 1 /\ u[n + 1] = c /\ \A i \in 1..n : u[i] = t[i]
    BY <2>1, AppendIs
  <2>3. PICK st, k : /\ st = [i \in 1..n |-> [a \in Seq(Read) |-> AddItem(a, t[i])]]
                     /\ Folds(k, st, << >>, n) /\ AddOf(t) = k[1..n] /\ AddOf(t) \in Seq(Read)
    BY <2>2, AddFolds
  <2>4. PICK su, g : /\ su = [i \in 1..(n + 1) |-> [a \in Seq(Read) |-> AddItem(a, u[i])]]
                     /\ Folds(g, su, << >>, n + 1) /\ AddOf(u) = g[1..(n + 1)]
    <3>1. PICK su, g : /\ su = [i \in 1..Len(u) |-> [a \in Seq(Read) |-> AddItem(a, u[i])]]
                       /\ Folds(g, su, << >>, Len(u)) /\ AddOf(u) = g[1..Len(u)]
      BY AddFolds, Zenon
    <3>. QED BY <2>2, <3>1, Zenon
  <2>5. \A i \in 1..n : su[i] = st[i]
    BY <2>2, <2>3, <2>4
  <2>6. g[1..(n + 1)] = su[n + 1][k[1..n]]
    <3>1. PICK b : b = << >>
      OBVIOUS
    <3>2. Folds(k, st, b, n) /\ Folds(g, su, b, n + 1)
      BY <2>3, <2>4, <3>1
    <3>. QED BY ONLY n \in Nat, <2>5, <3>2, FoldsAgree
  <2>7. su[n + 1][AddOf(t)] = AddItem(AddOf(t), c)
    <3>1. n + 1 \in 1..(n + 1)
      OBVIOUS
    <3>. QED BY <2>2, <2>3, <2>4, <3>1
  <2>. QED BY <2>1, <2>3, <2>4, <2>6, <2>7
<1>. QED BY <1>1, <1>2, <1>3

RowCells(code, desc, items) == [k \in DOMAIN items |-> CellsOf(code, desc, items[k])]

LEMMA RowCellsNext ==
  ASSUME NEW code \in Code, NEW desc \in Seq(LineChar)
  PROVE  /\ RowCells(code, desc, << >>) = << >>
         /\ \A items \in Seq(Item) : RowCells(code, desc, items) \in Seq(ItemCells)
         /\ \A items \in Seq(Item), item \in Item :
               RowCells(code, desc, Append(items, item)) =
                  Append(RowCells(code, desc, items), CellsOf(code, desc, item))
<1>1. \A item \in Item : CellsOf(code, desc, item) \in ItemCells
  BY DEF ItemCells
<1>2. RowCells(code, desc, << >>) = << >>
  BY DEF RowCells
<1>3. ASSUME NEW items \in Seq(Item)
      PROVE  RowCells(code, desc, items) \in Seq(ItemCells) /\ Len(RowCells(code, desc, items)) = Len(items)
  <2>1. DOMAIN items = 1..Len(items) /\ Len(items) \in Nat /\ \A k \in DOMAIN items : items[k] \in Item
    OBVIOUS
  <2>. QED BY <1>1, <2>1 DEF RowCells
<1>4. ASSUME NEW items \in Seq(Item), NEW item \in Item
      PROVE  RowCells(code, desc, Append(items, item)) =
                Append(RowCells(code, desc, items), CellsOf(code, desc, item))
  <2>1. PICK js \in Seq(Item) : js = Append(items, item)
    BY AppendIs
  <2>2. PICK n \in Nat : n = Len(items) /\ DOMAIN items = 1..n
    OBVIOUS
  <2>3. DOMAIN js = 1..(n + 1) /\ Len(js) = n + 1 /\ js[n + 1] = item /\ \A i \in 1..n : js[i] = items[i]
    BY <2>1, <2>2
  <2>4. PICK u \in Seq(ItemCells) : u = RowCells(code, desc, js) /\ Len(u) = n + 1
    BY <1>3, <2>3
  <2>5. PICK v \in Seq(ItemCells) : v = RowCells(code, desc, items) /\ Len(v) = n
    BY <1>3, <2>2
  <2>6. PICK c \in ItemCells : c = CellsOf(code, desc, item)
    BY <1>1
  <2>7. u[n + 1] = c /\ \A i \in 1..n : u[i] = v[i]
    BY <2>2, <2>3, <2>4, <2>5, <2>6 DEF RowCells
  <2>8. u = Append(v, c)
    BY <2>4, <2>5, <2>7, AppendEq
  <2>. QED BY <2>1, <2>4, <2>5, <2>6, <2>8
<1>. QED BY <1>2, <1>3, <1>4

\* The lines of a template add it, with its items one after the other.
LEMMA TemplateAdded ==
  ASSUME NEW cs \in Seq(ItemCells), NEW ts \in Seq(Read), AddOf(cs) = ts,
         NEW code \in Code, NEW desc \in Seq(LineChar), \A k \in DOMAIN ts : ts[k].code # code
  PROVE  \A items \in Seq(Item) : items # << >> =>
            AddOf(cs \o RowCells(code, desc, items)) =
               Append(ts, [code |-> code, desc |-> desc, items |-> items])
<1> DEFINE Made(items) == Append(ts, [code |-> code, desc |-> desc, items |-> items])
           T == {items \in Seq(Item) : items # << >> =>
                    AddOf(cs \o RowCells(code, desc, items)) = Made(items)}
<1>1. << >> \in T
  BY EmptyIs
<1>2. ASSUME NEW items \in Seq(Item), NEW item \in Item, items \in T PROVE Append(items, item) \in T
  <2>1. PICK js \in Seq(Item) : js = Append(items, item)
    BY AppendIs
  <2>2. PICK rs \in Seq(ItemCells) : rs = RowCells(code, desc, items)
    BY RowCellsNext
  <2>3. PICK c \in ItemCells : c = CellsOf(code, desc, item)
    BY DEF ItemCells
  <2>4. PICK us \in Seq(ItemCells) : us = cs \o rs
    BY ConcatIs
  <2>5. cs \o RowCells(code, desc, js) = Append(us, c)
    <3>1. RowCells(code, desc, js) = Append(rs, c)
      BY <2>1, <2>2, <2>3, RowCellsNext
    <3>2. cs \o Append(rs, c) = Append(cs \o rs, c)
      OBVIOUS
    <3>. QED BY <2>4, <3>1, <3>2
  <2>6. AddOf(Append(us, c)) = AddItem(AddOf(us), c)
    BY AddNext
  <2>7. AddItem(AddOf(us), c) = Made(js)
    <3>1. CASE items = << >>
      <4>1. rs = << >>
        BY <2>2, <3>1, RowCellsNext
      <4>2. us = cs /\ js = <<item>>
        BY <2>1, <2>4, <3>1, <4>1
      <4>. QED BY <2>3, <4>2, AddsNew
    <3>2. CASE items # << >>
      <4>1. AddOf(us) = Made(items)
        BY <1>2, <2>2, <2>4, <3>2
      <4>2. PICK t \in Read : t = [code |-> code, desc |-> desc, items |-> items]
        BY DEF Read, Items, Item
      <4>3. PICK vs \in Seq(Read) : vs = Append(ts, t)
        BY AppendIs
      <4>4. PICK m \in DOMAIN vs : m = Len(ts) + 1 /\ vs[m] = t /\ DOMAIN vs = 1..m
        BY <4>3
      <4>5. \A k \in DOMAIN vs : vs[k].code = code => k = m
        <5>1. \A k \in DOMAIN vs : k # m => k \in DOMAIN ts /\ vs[k] = ts[k]
          BY <4>3, <4>4
        <5>. QED BY <5>1
      <4>6. AddItem(vs, c) = [vs EXCEPT ![m].items = Append(@, item)]
        <5>1. vs[m].code = code
          BY <4>2, <4>4
        <5>2. AddItem(vs, CellsOf(code, desc, item)) = [vs EXCEPT ![m].items = Append(@, item)]
          BY <4>5, <5>1, AddsTo
        <5>. QED BY <2>3, <5>2
      <4>7. PICK u \in Read : u = [code |-> code, desc |-> desc, items |-> js]
        BY DEF Read, Items, Item
      <4>8. [vs EXCEPT ![m].items = Append(@, item)] = [vs EXCEPT ![m] = u]
        <5>1. [t EXCEPT !.items = Append(@, item)] = u
          <6>1. t.items = items /\ [t EXCEPT !.items = js] = u
            BY <4>2, <4>7
          <6>. QED BY <2>1, <6>1
        <5>. QED BY <4>4, <5>1
      <4>9. PICK ws \in Seq(Read) : ws = [vs EXCEPT ![m] = u]
        <5>1. [vs EXCEPT ![m] = u] \in Seq(Read)
          BY ONLY vs \in Seq(Read), m \in DOMAIN vs, u \in Read
        <5>. QED BY <5>1
      <4>10. ws = Append(ts, u)
        <5>1. PICK n \in Nat : n = Len(ts) /\ m = n + 1 /\ Len(vs) = m /\ \A i \in 1..n : vs[i] = ts[i]
          BY <4>3, <4>4
        <5>2. Len(ws) = m /\ ws[m] = u /\ \A i \in 1..n : ws[i] = vs[i]
          BY <4>9, <5>1
        <5>. QED BY <5>1, <5>2, AppendEq
      <4>. QED BY <4>1, <4>2, <4>3, <4>6, <4>7, <4>8, <4>9, <4>10
    <3>. QED BY <3>1, <3>2
  <2>. QED BY <2>1, <2>5, <2>6, <2>7
<1>3. \A items \in Seq(Item) : items \in T
  <2>. HIDE DEF T
  <2>. QED BY <1>1, <1>2, SeqInduction
<1>. QED BY <1>3

--------------------------------------------------------------------------------
(* The CSV of templates.                                                        *)

\* A selection from a sequence that is one element longer.
LEMMA SelectedNext ==
  ASSUME NEW S, NEW s \in Seq(S), NEW x \in S, NEW ks, NEW js,
         \A i \in 1..Len(s) : i \in js <=> i \in ks
  PROVE  Selected(Append(s, x), js) =
            IF Len(s) + 1 \in js THEN Append(Selected(s, ks), x) ELSE Selected(s, ks)
<1>1. PICK u \in Seq(S) : u = Append(s, x)
  BY AppendIs
<1>2. PICK m \in Nat : m = Len(s) /\ Len(u) = m + 1 /\ u[m + 1] = x /\ \A i \in 1..m : u[i] = s[i]
  BY <1>1, AppendIs
<1>3. PICK h : Grows(h, s, ks, m) /\ Selected(s, ks) = h[m]
  BY <1>2, SelectedGrows
<1>4. PICK g : Grows(g, u, js, m + 1) /\ Selected(u, js) = g[m + 1]
  BY <1>2, SelectedGrows
<1>5. /\ h[0] = << >>
      /\ \A n \in Nat : n + 1 \in 1..m =>
           h[n + 1] = IF n + 1 \in ks THEN Append(h[n], s[n + 1]) ELSE h[n]
  BY <1>2, <1>3, GrownAt
<1>6. /\ g[0] = << >>
      /\ \A n \in Nat : n + 1 \in 1..(m + 1) =>
           g[n + 1] = IF n + 1 \in js THEN Append(g[n], u[n + 1]) ELSE g[n]
  BY <1>2, <1>4, GrownAt
<1> DEFINE T == {n \in Nat : n <= m => g[n] = h[n]}
<1>7. 0 \in T
  BY <1>5, <1>6
<1>8. ASSUME NEW n \in Nat, n \in T PROVE n + 1 \in T
  <2>. SUFFICES ASSUME n + 1 <= m PROVE g[n + 1] = h[n + 1]
    OBVIOUS
  <2>1. n + 1 \in 1..m /\ n + 1 \in 1..(m + 1) /\ g[n] = h[n]
    BY <1>8
  <2>2. (n + 1 \in js <=> n + 1 \in ks) /\ u[n + 1] = s[n + 1]
    BY <1>2, <2>1
  <2>. QED BY <1>5, <1>6, <2>1, <2>2
<1>9. Nat \subseteq T
  <2>. HIDE DEF T
  <2>. QED BY <1>7, <1>8, SetInduction
<1>10. g[m] = h[m]
  BY <1>9
<1>11. m + 1 \in 1..(m + 1)
  OBVIOUS
<1>. QED BY <1>1, <1>2, <1>3, <1>4, <1>6, <1>10, <1>11

LEMMA TemplateLine ==
  ASSUME NEW code \in Code, NEW desc \in Seq(LineChar), NEW item \in Item, NEW cells, NEW line,
         cells = CellsOf(code, desc, item),
         line = CsvLine(<<<<code>>, Escape(desc), <<item.isin>>, <<item.weight>>>>)
  PROVE  line = LineOf(cells) /\ Readable(line, Char) /\ Parse(line) = <<cells>>
<1> DEFINE Q == Seq(LineChar)
<1>1. /\ code \in Plain /\ item.isin \in Plain /\ item.weight \in Plain
  BY DEF Plain, Item
<1>2. PICK c \in Q : c = <<code>> /\ Escape(c) = c
  BY <1>1, PlainCell
<1>3. PICK i \in Q : i = <<item.isin>> /\ Escape(i) = i
  BY <1>1, PlainCell
<1>4. PICK w \in Q : w = <<item.weight>> /\ Escape(w) = w
  BY <1>1, PlainCell
<1>5. PICK d \in Q : d = desc
  OBVIOUS
<1>6. /\ cells \in Seq(Q) /\ cells # << >> /\ cells = <<c, d, i, w>>
      /\ <<c, d, i>> \in Seq(Q) /\ <<c, d, i>> # << >> /\ <<c, d, i>>[1] = c
      /\ cells = Append(<<c, d, i>>, w)
  <2>. HIDE DEF Q
  <2>. QED BY <1>2, <1>3, <1>4, <1>5 DEF CellsOf
<1>7. line = LineOf(cells)
  <2>1. [k \in DOMAIN cells |-> Escape(cells[k])] = <<Escape(c), Escape(d), Escape(i), Escape(w)>>
    <3>. HIDE DEF Q
    <3>. QED BY <1>6
  <2>. QED BY <1>2, <1>3, <1>4, <1>5, <2>1 DEF LineOf
<1>8. Readable(LineOf(Append(<<c, d, i>>, w)), Char)
  <2>1. PICK xs \in Seq(Seq(LineChar)) : xs = <<c, d, i>>
    BY <1>6
  <2>2. xs # << >> /\ xs[1][1] \notin Blank
    BY <1>1, <1>2, <1>6, <2>1, CharIs
  <2>3. w[Len(w)] \notin Blank
    BY <1>1, <1>4, CharIs
  <2>4. Readable(LineOf(Append(xs, w)), Char)
    BY <2>2, <2>3, CharIs, LineReadable DEF LineChar
  <2>. QED BY <2>1, <2>4
<1>9. Parse(LineOf(cells)) = <<cells>>
  BY <1>6, CharIs, CellsReadBack
<1>. QED BY <1>6, <1>7, <1>8, <1>9

\* A function applied to each element of a sequence.
MapBy(f, s) == [k \in DOMAIN s |-> f[s[k]]]

LEMMA MapTyped ==
  ASSUME NEW S, NEW Q, NEW f, \A x \in S : f[x] \in Q
  PROVE  /\ MapBy(f, << >>) = << >>
         /\ \A s \in Seq(S) : MapBy(f, s) \in Seq(Q) /\ Len(MapBy(f, s)) = Len(s)
<1>1. MapBy(f, << >>) = << >>
  BY DEF MapBy
<1>2. ASSUME NEW s \in Seq(S) PROVE MapBy(f, s) \in Seq(Q) /\ Len(MapBy(f, s)) = Len(s)
  <2>1. DOMAIN s = 1..Len(s) /\ Len(s) \in Nat /\ \A k \in DOMAIN s : s[k] \in S
    OBVIOUS
  <2>. QED BY <2>1 DEF MapBy
<1>. QED BY <1>1, <1>2

LEMMA MapAppend ==
  ASSUME NEW S, NEW f, NEW s \in Seq(S), NEW x \in S
  PROVE  MapBy(f, Append(s, x)) = Append(MapBy(f, s), f[x])
<1>1. PICK Q : \A y \in S : f[y] \in Q
  <2>1. \A y \in S : f[y] \in {f[z] : z \in S}
    OBVIOUS
  <2>. QED BY <2>1
<1>2. PICK t \in Seq(S) : t = Append(s, x)
  BY AppendIs
<1>3. PICK n \in Nat : n = Len(s) /\ DOMAIN s = 1..n
  OBVIOUS
<1>4. DOMAIN t = 1..(n + 1) /\ Len(t) = n + 1 /\ t[n + 1] = x /\ \A i \in 1..n : t[i] = s[i]
  BY <1>2, <1>3
<1>5. PICK u \in Seq(Q) : u = MapBy(f, t) /\ Len(u) = Len(t)
  BY <1>1, MapTyped
<1>6. PICK v \in Seq(Q) : v = MapBy(f, s) /\ Len(v) = n
  BY <1>1, <1>3, MapTyped
<1>7. u[n + 1] = f[x] /\ \A i \in 1..n : u[i] = v[i]
  BY <1>3, <1>4, <1>5, <1>6 DEF MapBy
<1>8. u = Append(v, f[x])
  BY <1>1, <1>4, <1>5, <1>6, <1>7, AppendEq
<1>. QED BY <1>2, <1>5, <1>6, <1>8

LEMMA ConcatAppend ==
  ASSUME NEW Q, NEW v \in Seq(Q), NEW w \in Seq(Q), NEW y \in Q
  PROVE  v \o Append(w, y) = Append(v \o w, y)
  OBVIOUS

LEMMA MapConcat ==
  ASSUME NEW S, NEW f, NEW s \in Seq(S)
  PROVE  \A t \in Seq(S) : MapBy(f, s \o t) = MapBy(f, s) \o MapBy(f, t)
<1>. PICK Q : \A x \in S : f[x] \in Q
  <2>1. \A x \in S : f[x] \in {f[y] : y \in S}
    OBVIOUS
  <2>. QED BY <2>1
<1> DEFINE T == {t \in Seq(S) : MapBy(f, s \o t) = MapBy(f, s) \o MapBy(f, t)}
<1>1. << >> \in T
  <2>1. PICK v \in Seq(Q) : v = MapBy(f, s)
    BY MapTyped
  <2>2. v \o << >> = v /\ s \o << >> = s /\ << >> \in Seq(S)
    OBVIOUS
  <2>3. MapBy(f, << >>) = << >>
    BY MapTyped
  <2>. QED BY <2>1, <2>2, <2>3
<1>2. ASSUME NEW t \in Seq(S), NEW x \in S, t \in T PROVE Append(t, x) \in T
  <2>1. PICK v \in Seq(Q), w \in Seq(Q) : v = MapBy(f, s) /\ w = MapBy(f, t)
    BY MapTyped
  <2>2. PICK u \in Seq(S) : u = s \o t
    BY ConcatIs
  <2>3. s \o Append(t, x) = Append(u, x)
    BY <2>2
  <2>4. MapBy(f, Append(u, x)) = Append(MapBy(f, u), f[x])
    BY MapAppend
  <2>5. MapBy(f, u) = v \o w
    BY <1>2, <2>1, <2>2
  <2>6. PICK y \in Q : y = f[x]
    OBVIOUS
  <2>7. v \o Append(w, y) = Append(v \o w, y)
    BY ONLY v \in Seq(Q), w \in Seq(Q), y \in Q, ConcatAppend
  <2>8. MapBy(f, Append(t, x)) = Append(w, y)
    BY <2>1, <2>6, MapAppend
  <2>9. Append(t, x) \in Seq(S)
    BY AppendIs
  <2>. QED BY <2>1, <2>3, <2>4, <2>5, <2>6, <2>7, <2>8, <2>9
<1>3. \A t \in Seq(S) : t \in T
  <2>. HIDE DEF T
  <2>. QED BY <1>1, <1>2, SeqInduction
<1>. QED BY <1>3

\* Mapping the parts of a sequence maps the whole.
LEMMA FlattenMapped ==
  ASSUME NEW S, NEW Q, NEW f \in [S -> Q]
  PROVE  \A ss \in Seq(Seq(S)) :
            FlattenSeq([k \in DOMAIN ss |-> MapBy(f, ss[k])]) = MapBy(f, FlattenSeq(ss))
<1> DEFINE P == Seq(S)
           R == Seq(Q)
           F == [s \in P |-> MapBy(f, s)]
           T == {ss \in Seq(P) : FlattenSeq(MapBy(F, ss)) = MapBy(f, FlattenSeq(ss))}
<1>1. F \in [P -> R]
  BY MapTyped
<1>2. << >> \in T
  <2>1. MapBy(F, << >>) = << >>
    BY DEF MapBy
  <2>2. << >> \in Seq(P)
    BY EmptyIs
  <2>3. MapBy(f, << >>) = << >>
    BY DEF MapBy
  <2>. QED BY <2>1, <2>2, <2>3, FlattenTyped
<1>3. ASSUME NEW ss \in Seq(P), NEW x \in P, ss \in T PROVE Append(ss, x) \in T
  <2>1. MapBy(F, Append(ss, x)) = Append(MapBy(F, ss), F[x])
    <3>1. PICK A, B, g : A = P /\ B = R /\ g = F
      OBVIOUS
    <3>2. g \in [A -> B] /\ ss \in Seq(A) /\ x \in A
      BY <1>1, <3>1
    <3>3. MapBy(g, Append(ss, x)) = Append(MapBy(g, ss), g[x])
      BY <3>2, MapAppend
    <3>. QED BY <3>1, <3>3
  <2>2. PICK fs \in Seq(R) : fs = MapBy(F, ss)
    <3>. HIDE DEF P, R, F
    <3>. QED BY <1>1, MapTyped
  <2>3. PICK y \in R : y = F[x] /\ y = MapBy(f, x)
    BY MapTyped
  <2>4. FlattenSeq(Append(fs, y)) = FlattenSeq(fs) \o y
    BY FlattenNext
  <2>5. FlattenSeq(Append(ss, x)) = FlattenSeq(ss) \o x
    BY FlattenNext
  <2>6. PICK s \in P : s = FlattenSeq(ss)
    BY FlattenTyped
  <2>7. MapBy(f, s \o x) = MapBy(f, s) \o MapBy(f, x)
    BY MapConcat
  <2>8. Append(ss, x) \in Seq(P)
    BY AppendIs
  <2>9. FlattenSeq(fs) = MapBy(f, s)
    BY <1>3, <2>2, <2>6
  <2>10. FlattenSeq(MapBy(F, Append(ss, x))) = MapBy(f, FlattenSeq(Append(ss, x)))
    BY <2>1, <2>2, <2>3, <2>4, <2>5, <2>6, <2>7, <2>9
  <2>. QED BY <2>8, <2>10
<1>4. \A ss \in Seq(P) : ss \in T
  <2>. HIDE DEF T
  <2>. QED BY <1>2, <1>3, SeqInduction
<1>5. ASSUME NEW ss \in Seq(P) PROVE MapBy(F, ss) = [k \in DOMAIN ss |-> MapBy(f, ss[k])]
  <2>1. \A k \in DOMAIN ss : ss[k] \in P
    <3>. HIDE DEF P
    <3>. QED OBVIOUS
  <2>. QED BY <2>1 DEF MapBy
<1>. QED BY <1>4, <1>5

\* The cells of the lines of a file of templates.
FileCells(file) ==
    FlattenSeq([k \in DOMAIN file |-> RowCells(file[k].code, file[k].desc, file[k].items)])

RowFun == [t \in Read |-> RowCells(t.code, t.desc, t.items)]

LEMMA FileCellsNext ==
  /\ FileCells(<< >>) = << >>
  /\ \A file \in Seq(Read) : FileCells(file) \in Seq(ItemCells)
  /\ \A file \in Seq(Read) : FileCells(file) = FlattenSeq(MapBy(RowFun, file))
  /\ \A file \in Seq(Read) : MapBy(RowFun, file) \in Seq(Seq(ItemCells))
  /\ \A file \in Seq(Read), t \in Read :
        FileCells(Append(file, t)) = FileCells(file) \o RowCells(t.code, t.desc, t.items)
<1> DEFINE R == Seq(ItemCells)
<1>1. \A t \in Read : RowCells(t.code, t.desc, t.items) \in R
  <2>. SUFFICES ASSUME NEW t \in Read PROVE RowCells(t.code, t.desc, t.items) \in R
    OBVIOUS
  <2>1. t.code \in Code /\ t.desc \in Seq(LineChar) /\ t.items \in Seq(Item)
    BY DEF Read, Items, Item
  <2>. QED BY <2>1, RowCellsNext
<1>2. RowFun \in [Read -> R] /\ \A t \in Read : RowFun[t] = RowCells(t.code, t.desc, t.items)
  BY <1>1 DEF RowFun
<1>3. ASSUME NEW file \in Seq(Read) PROVE FileCells(file) = FlattenSeq(MapBy(RowFun, file))
  <2>1. \A k \in DOMAIN file : file[k] \in Read
    OBVIOUS
  <2>. QED BY <1>2, <2>1 DEF FileCells, MapBy
<1>4. \A file \in Seq(Read) : MapBy(RowFun, file) \in Seq(R)
  <2>. HIDE DEF R
  <2>. QED BY <1>2, MapTyped
<1>5. \A file \in Seq(Read) : FileCells(file) \in Seq(ItemCells)
  BY <1>3, <1>4, FlattenTyped
<1>6. ASSUME NEW file \in Seq(Read), NEW t \in Read
      PROVE  FileCells(Append(file, t)) = FileCells(file) \o RowCells(t.code, t.desc, t.items)
  <2>1. PICK fs \in Seq(R) : fs = MapBy(RowFun, file)
    BY <1>4
  <2>2. MapBy(RowFun, Append(file, t)) = Append(fs, RowFun[t])
    BY <2>1, MapAppend
  <2>3. PICK y \in R : y = RowFun[t] /\ y = RowCells(t.code, t.desc, t.items)
    BY <1>2
  <2>4. FlattenSeq(Append(fs, y)) = FlattenSeq(fs) \o y
    BY FlattenNext
  <2>5. Append(file, t) \in Seq(Read)
    BY AppendIs
  <2>. QED BY <1>3, <2>1, <2>2, <2>3, <2>4, <2>5
<1>7. FileCells(<< >>) = << >>
  <2>1. << >> \in Seq(Read)
    BY EmptyIs
  <2>2. MapBy(RowFun, << >>) = << >>
    BY DEF MapBy
  <2>. QED BY <1>3, <2>1, <2>2, FlattenTyped
<1>. QED BY <1>3, <1>4, <1>5, <1>6, <1>7

WithItems(file) == {k \in DOMAIN file : file[k].items # << >>}

Distinct(file) == \A i, j \in DOMAIN file : file[i].code = file[j].code => i = j

\* The lines of a file give back its templates, those without items aside.
LEMMA FileAdded ==
  \A file \in Seq(Read) : Distinct(file) => AddOf(FileCells(file)) = Selected(file, WithItems(file))
<1> DEFINE T == {file \in Seq(Read) :
                    Distinct(file) => AddOf(FileCells(file)) = Selected(file, WithItems(file))}
<1>1. << >> \in T
  <2>1. << >> \in Seq(Read)
    BY EmptyIs
  <2>2. Selected(<< >>, WithItems(<< >>)) = << >>
    <3>1. DOMAIN << >> \subseteq WithItems(<< >>)
      OBVIOUS
    <3>. QED BY <2>1, <3>1, SelectedWhole
  <2>3. AddOf(FileCells(<< >>)) = << >>
    BY AddNext, FileCellsNext
  <2>. QED BY <2>1, <2>2, <2>3
<1>2. ASSUME NEW file \in Seq(Read), NEW t \in Read, file \in T PROVE Append(file, t) \in T
  <2>1. PICK u \in Seq(Read) : u = Append(file, t)
    BY AppendIs
  <2>2. PICK n \in Nat : /\ n = Len(file) /\ DOMAIN file = 1..n /\ DOMAIN u = 1..(n + 1)
                         /\ u[n + 1] = t /\ \A i \in 1..n : u[i] = file[i]
    <3>1. DOMAIN u = 1..Len(u) /\ DOMAIN file = 1..Len(file)
      OBVIOUS
    <3>2. /\ Len(file) \in Nat /\ Len(u) = Len(file) + 1 /\ u[Len(file) + 1] = t
          /\ \A i \in 1..Len(file) : u[i] = file[i]
      BY <2>1, AppendIs
    <3>. QED BY <3>1, <3>2
  <2>3. ASSUME Distinct(u) PROVE AddOf(FileCells(u)) = Selected(u, WithItems(u))
    <3>1. Distinct(file)
      <4>1. \A i \in DOMAIN file : i \in DOMAIN u /\ u[i] = file[i]
        BY <2>2
      <4>. QED BY <2>3, <4>1 DEF Distinct
    <3>2. PICK ts \in Seq(Read) : ts = Selected(file, WithItems(file)) /\ ts = AddOf(FileCells(file))
      BY <1>2, <3>1, AddNext, FileCellsNext
    <3>3. \A k \in DOMAIN ts : ts[k].code # t.code
      <4> DEFINE V == {v \in Read : v.code # t.code}
      <4>1. \A i \in DOMAIN file : file[i].code # t.code
        <5>1. \A i \in 1..n : i \in DOMAIN u /\ i # n + 1 /\ n + 1 \in DOMAIN u
          BY <2>2
        <5>. QED BY <2>2, <2>3, <5>1 DEF Distinct
      <4>2. \A i \in DOMAIN file : file[i] \in V
        BY <4>1
      <4>3. Selected(file, WithItems(file)) \in Seq(V)
        <5>. HIDE DEF V
        <5>. QED BY <4>2, SelectedTyped
      <4>. QED BY <3>2, <4>3
    <3>4. PICK cs \in Seq(ItemCells) : cs = FileCells(file)
      BY FileCellsNext
    <3>5. FileCells(u) = cs \o RowCells(t.code, t.desc, t.items)
      BY <2>1, <3>4, FileCellsNext
    <3>6. t.code \in Code /\ t.desc \in Seq(LineChar) /\ t.items \in Seq(Item)
      BY DEF Read, Items, Item
    <3>7. Selected(u, WithItems(u)) = IF n + 1 \in WithItems(u) THEN Append(ts, t) ELSE ts
      <4>1. \A i \in 1..n : i \in WithItems(u) <=> i \in WithItems(file)
        BY <2>2 DEF WithItems
      <4>2. PICK ks, js : ks = WithItems(file) /\ js = WithItems(u)
        OBVIOUS
      <4>3. \A i \in 1..Len(file) : i \in js <=> i \in ks
        BY <2>2, <4>1, <4>2
      <4>4. Selected(Append(file, t), js) =
               IF Len(file) + 1 \in js THEN Append(Selected(file, ks), t) ELSE Selected(file, ks)
        BY ONLY file \in Seq(Read), t \in Read, <4>3, SelectedNext
      <4>. QED BY <2>1, <2>2, <3>2, <4>2, <4>4
    <3>8. CASE t.items = << >>
      <4>1. n + 1 \notin WithItems(u)
        BY <2>2, <3>8 DEF WithItems
      <4>2. RowCells(t.code, t.desc, t.items) = << >>
        BY <3>6, <3>8, RowCellsNext
      <4>3. cs \o << >> = cs
        OBVIOUS
      <4>. QED BY <3>2, <3>4, <3>5, <3>7, <4>1, <4>2, <4>3
    <3>9. CASE t.items # << >>
      <4>1. n + 1 \in WithItems(u)
        BY <2>2, <3>9 DEF WithItems
      <4>2. t = [code |-> t.code, desc |-> t.desc, items |-> t.items]
        BY DEF Read
      <4>3. AddOf(cs \o RowCells(t.code, t.desc, t.items)) =
               Append(ts, [code |-> t.code, desc |-> t.desc, items |-> t.items])
        BY <3>2, <3>3, <3>4, <3>6, <3>9, TemplateAdded
      <4>. QED BY <3>5, <3>7, <4>1, <4>2, <4>3
    <3>. QED BY <3>8, <3>9
  <2>. QED BY <2>1, <2>3
<1>3. \A file \in Seq(Read) : file \in T
  <2>. HIDE DEF T
  <2>. QED BY <1>1, <1>2, SeqInduction
<1>. QED BY <1>3

\* A code is in one row of the table only.
LEMMA TemplateRowsTyped ==
  ASSUME CatalogueOK, \A k \in DOMAIN TemplateRows : OneLine(TemplateRows[k].desc)
  PROVE  TemplateRows \in Seq(Read) /\ Distinct(TemplateRows)
<1> DEFINE S == {c \in Code : templates[c] # None}
           RowOf(c) == [code |-> c, desc |-> templates[c].desc, items |-> templates[c].items]
<1>1. IsFiniteSet(S)
  BY ExchangeAssumption, FS_Subset
<1>2. PICK s \in Seq(S) : s = SetToSeq(S) /\ \A i, j \in DOMAIN s : s[i] = s[j] => i = j
  <2>1. Cardinality(S) \in Nat /\ ExistsBijection(1..Cardinality(S), S)
    BY <1>1, FS_CardinalityType
  <2>2. PICK f \in [1..Cardinality(S) -> S] : IsInjective(f)
    BY <2>1 DEF ExistsBijection, Bijection, Injection, IsInjective
  <2>3. IsInjective(SetToSeq(S))
    BY <2>2 DEF SetToSeq
  <2>4. SetToSeq(S) \in Seq(S)
    BY <1>1, SetToSeqTyped
  <2>. QED BY <2>3, <2>4 DEF IsInjective
<1>3. TemplateRows = [k \in DOMAIN s |-> RowOf(s[k])]
  BY <1>2 DEF TemplateRows, Mapped
<1>4. DOMAIN s = 1..Len(s) /\ Len(s) \in Nat /\ \A k \in DOMAIN s : s[k] \in S
  OBVIOUS
<1>5. ASSUME NEW k \in DOMAIN s PROVE TemplateRows[k] \in Read /\ TemplateRows[k].code = s[k]
  <2>1. PICK c \in S : c = s[k] /\ TemplateRows[k] = RowOf(c)
    BY <1>3, <1>4
  <2>2. templates[c] \in [desc : Description, items : Items]
    BY <2>1 DEF CatalogueOK
  <2>3. templates[c].desc \in Seq(LineChar)
    <3>1. k \in DOMAIN TemplateRows /\ TemplateRows[k].desc = templates[c].desc
      BY <1>3, <2>1
    <3>2. PICK text \in Prose, chars \in SUBSET Char :
             /\ TemplateRows[k].desc = Trim(text)
             /\ chars = ToSet(text) /\ text \in Seq(chars)
      BY <2>2, <3>1, ExchangeAssumption DEF Description, Char
    <3>3. PICK t \in Seq(Char) : t = Trim(text)
      BY <3>2, TrimTyped
    <3>4. \A i \in DOMAIN t : t[i] \in LineChar
      BY <3>1, <3>2, <3>3 DEF OneLine, ToSet, LineChar
    <3>5. t \in Seq(LineChar)
      BY <3>3, <3>4
    <3>. QED BY <3>1, <3>2, <3>3, <3>5
  <2>. QED BY <2>1, <2>2, <2>3 DEF Read
<1>6. DOMAIN TemplateRows = DOMAIN s
  BY <1>3
<1>7. TemplateRows \in Seq(Read)
  <2>. HIDE DEF RowOf
  <2>. QED BY <1>3, <1>4, <1>5, <1>6
<1>8. Distinct(TemplateRows)
  BY <1>2, <1>5, <1>6 DEF Distinct
<1>. QED BY <1>7, <1>8

LineFun == [c \in ItemCells |-> LineOf(c)]

\* Each line holds the cells of one item, and can be read.
LEMMA TemplateLines ==
  ASSUME NEW c \in ItemCells
  PROVE  /\ LineFun[c] \in Seq(Char) /\ Readable(LineFun[c], Char) /\ Parse(LineFun[c]) = <<c>>
         /\ Cell(c, 1) # Empty /\ Cell(c, 3) # Empty
<1>1. PICK code \in Code, desc \in Seq(LineChar), item \in Item : c = CellsOf(code, desc, item)
  BY DEF ItemCells
<1>2. PICK line : line = CsvLine(<<<<code>>, Escape(desc), <<item.isin>>, <<item.weight>>>>)
  OBVIOUS
<1>3. line = LineOf(c) /\ Readable(line, Char) /\ Parse(line) = <<c>>
  BY <1>1, <1>2, TemplateLine
<1>4. LineFun[c] = line
  BY <1>3 DEF LineFun
<1>5. line \in Seq(Char)
  <2>1. line \in Seq(Char \ {Newline})
    BY <1>3 DEF Readable
  <2>. QED BY <2>1
<1>. QED BY <1>1, <1>3, <1>4, <1>5, CellsGive

LEMMA TemplateCsvIs ==
  ASSUME NEW file \in Seq(Read)
  PROVE  TemplateCsv(file) = CsvFile(MapBy(LineFun, FileCells(file)))
<1> DEFINE LineFor(t, item) ==
             CsvLine(<<<<t.code>>, Escape(t.desc), <<item.isin>>, <<item.weight>>>>)
           LinesFor(t) == [j \in DOMAIN t.items |-> LineFor(t, t.items[j])]
           R == Seq(ItemCells)
<1>1. PICK ss \in Seq(R) : ss = MapBy(RowFun, file) /\ FileCells(file) = FlattenSeq(ss)
  BY FileCellsNext
<1>2. ASSUME NEW t \in Read PROVE LinesFor(t) = MapBy(LineFun, RowCells(t.code, t.desc, t.items))
  <2>1. t.code \in Code /\ t.desc \in Seq(LineChar) /\ t.items \in Seq(Item)
    BY DEF Read, Items, Item
  <2>2. PICK code \in Code, desc \in Seq(LineChar), items \in Seq(Item) :
           code = t.code /\ desc = t.desc /\ items = t.items
    BY <2>1
  <2>3. ASSUME NEW j \in DOMAIN items
        PROVE  LineFor(t, items[j]) = LineFun[CellsOf(code, desc, items[j])]
    <3>1. PICK item \in Item : item = items[j]
      OBVIOUS
    <3>2. PICK c \in ItemCells : c = CellsOf(code, desc, item)
      BY DEF ItemCells
    <3>3. PICK line : line = LineFor(t, item)
      OBVIOUS
    <3>4. line = LineOf(c)
      <4>1. line = CsvLine(<<<<code>>, Escape(desc), <<item.isin>>, <<item.weight>>>>)
        BY <2>2, <3>3
      <4>. QED BY <3>2, <4>1, TemplateLine
    <3>. QED BY <3>1, <3>2, <3>3, <3>4 DEF LineFun
  <2>4. RowCells(code, desc, items) = [j \in DOMAIN items |-> CellsOf(code, desc, items[j])]
    BY DEF RowCells
  <2>5. MapBy(LineFun, RowCells(code, desc, items)) =
           [j \in DOMAIN items |-> LineFun[CellsOf(code, desc, items[j])]]
    BY <2>4 DEF MapBy
  <2>6. LinesFor(t) = [j \in DOMAIN items |-> LineFor(t, items[j])]
    BY <2>2
  <2>. HIDE DEF LineFor, LinesFor
  <2>. QED BY <2>2, <2>3, <2>5, <2>6
<1>3. \A k \in DOMAIN file : file[k] \in Read /\ k \in DOMAIN ss
            /\ ss[k] = RowCells(file[k].code, file[k].desc, file[k].items)
  <2>1. \A k \in DOMAIN file : file[k] \in Read
    OBVIOUS
  <2>. QED BY <1>1, <2>1 DEF MapBy, RowFun
<1>4. [k \in DOMAIN file |-> LinesFor(file[k])] = [k \in DOMAIN ss |-> MapBy(LineFun, ss[k])]
  <2>1. DOMAIN ss = DOMAIN file
    BY <1>1 DEF MapBy
  <2>2. \A k \in DOMAIN file : LinesFor(file[k]) = MapBy(LineFun, ss[k])
    BY <1>2, <1>3
  <2>. HIDE DEF LinesFor
  <2>. QED BY <2>1, <2>2
<1>5. FlattenSeq([k \in DOMAIN ss |-> MapBy(LineFun, ss[k])]) = MapBy(LineFun, FlattenSeq(ss))
  <2>1. LineFun \in [ItemCells -> Seq(Char)]
    BY TemplateLines DEF LineFun
  <2>. QED BY <2>1, FlattenMapped
<1>6. TemplateCsv(file) = CsvFile(FlattenSeq([k \in DOMAIN file |-> LinesFor(file[k])]))
  BY DEF TemplateCsv, Mapped
<1>. QED BY <1>1, <1>4, <1>5, <1>6

LEMMA TemplatesReadBack ==
  ASSUME CatalogueOK, \A k \in DOMAIN TemplateRows : OneLine(TemplateRows[k].desc)
  PROVE  ReadTemplates(TemplateCsv(TemplateRows)) =
            Selected(TemplateRows, {k \in DOMAIN TemplateRows : TemplateRows[k].items # << >>})
<1>1. PICK file \in Seq(Read) : file = TemplateRows /\ Distinct(file)
  BY TemplateRowsTyped
<1>2. PICK cells \in Seq(ItemCells) : cells = FileCells(file)
  BY FileCellsNext
<1>3. PICK lines : lines = MapBy(LineFun, cells)
  OBVIOUS
<1>4. DOMAIN lines = DOMAIN cells /\ \A k \in DOMAIN cells : cells[k] \in ItemCells /\ lines[k] = LineFun[cells[k]]
  BY <1>3 DEF MapBy
<1>5. lines \in Seq(Seq(Char))
  <2> DEFINE Q == Seq(Char)
  <2>1. \A c \in ItemCells : LineFun[c] \in Q
    BY TemplateLines
  <2>. HIDE DEF Q
  <2>2. lines \in Seq(Q)
    BY <1>3, <2>1, MapTyped
  <2>. QED BY <2>2 DEF Q
<1>6. DataLines(CsvFile(lines)) = lines
  <2>1. \A k \in DOMAIN lines : Readable(lines[k], Char)
    BY <1>4, TemplateLines
  <2>. QED BY <1>5, <2>1, CharIs, DataLinesOf
<1>7. Mapped(lines, LAMBDA line : Parse(line)[1]) = cells
  <2>1. \A k \in DOMAIN cells : Parse(lines[k])[1] = cells[k]
    <3>. SUFFICES ASSUME NEW k \in DOMAIN cells PROVE Parse(lines[k])[1] = cells[k]
      OBVIOUS
    <3>1. Parse(lines[k]) = <<cells[k]>>
      BY <1>4, TemplateLines
    <3>. QED BY <3>1
  <2>2. cells = [k \in DOMAIN cells |-> cells[k]]
    OBVIOUS
  <2>. QED BY <1>4, <2>1, <2>2 DEF Mapped
<1> DEFINE legal == {k \in DOMAIN cells : Cell(cells[k], 1) # Empty /\ Cell(cells[k], 3) # Empty}
<1>8. Selected(cells, legal) = cells
  <2>1. DOMAIN cells \subseteq legal
    BY <1>4, TemplateLines
  <2>. HIDE DEF legal
  <2>. QED BY <2>1, SelectedWhole
<1>9. ReadTemplates(CsvFile(lines)) = AddOf(cells)
  BY <1>6, <1>7, <1>8 DEF ReadTemplates, AddOf
<1>10. AddOf(cells) = Selected(file, WithItems(file))
  BY <1>1, <1>2, FileAdded
<1>. QED BY <1>1, <1>2, <1>3, <1>9, <1>10, TemplateCsvIs DEF WithItems

\* What the CSV exports of instruments and of templates write, importCsv reads back,
\* however many there are and whatever commas and quotes their texts hold, if no text
\* has a newline and no name begins with a blank: csvEscape, join, split, trim and
\* parseCsv of instruments.service.ts and templates.service.ts undo each other, and
\* the lines of one template are put together again.
THEOREM CatalogueCsvReadsBack == Spec => []CatalogueCsvIsFaithful
<1>1. ExchangeTypes => CatalogueCsvIsFaithful
  BY InstrumentsReadBack, TemplatesReadBack DEF ExchangeTypes, CatalogueCsvIsFaithful
<1>. QED BY <1>1, TypesCorrect, PTL

--------------------------------------------------------------------------------
(* Rows of cells, as a file has them.                                           *)

\* The text that is written for some lines of cells.
TextOf(rs) == JoinedBy(Newline, [k \in DOMAIN rs |-> LineOf(rs[k])])

LinesTo(C) == Seq(Seq(C)) \ {<< >>}

LEMMA TextNext ==
  ASSUME NEW C, CsvOf(C), Newline \in C
  PROVE  /\ \A r \in LinesTo(C) : LineOf(r) \in Seq(C) /\ TextOf(<<r>>) = LineOf(r)
         /\ \A rs \in Seq(LinesTo(C)) : TextOf(rs) \in Seq(C)
         /\ \A rs \in Seq(LinesTo(C)), r \in LinesTo(C) : rs # << >> =>
               TextOf(Append(rs, r)) = TextOf(rs) \o (<<Newline>> \o LineOf(r))
<1> DEFINE Q == Seq(C)
           R == LinesTo(C)
           f == [r \in R |-> LineOf(r)]
<1>1. \A r \in R : LineOf(r) \in Q /\ f[r] = LineOf(r) /\ f[r] \in Q
  BY LineNext DEF LinesTo
<1>2. ASSUME NEW rs \in Seq(R) PROVE TextOf(rs) = JoinedBy(Newline, MapBy(f, rs)) /\ MapBy(f, rs) \in Seq(Q)
  <2>. HIDE DEF R, Q
  <2>1. \A k \in DOMAIN rs : rs[k] \in R
    OBVIOUS
  <2>2. MapBy(f, rs) = [k \in DOMAIN rs |-> LineOf(rs[k])]
    BY <1>1, <2>1 DEF MapBy
  <2>. HIDE DEF f
  <2>3. MapBy(f, rs) \in Seq(Q)
    BY <1>1, MapTyped
  <2>. QED BY <2>2, <2>3 DEF TextOf
<1>3. /\ \A ts \in Seq(Q) : JoinedBy(Newline, ts) \in Q
      /\ \A t \in Q : JoinedBy(Newline, <<t>>) = t
      /\ \A ts \in Seq(Q), t \in Q : ts # << >> =>
            JoinedBy(Newline, Append(ts, t)) = JoinedBy(Newline, ts) \o (<<Newline>> \o t)
  BY JoinedNext
<1>4. ASSUME NEW r \in R PROVE TextOf(<<r>>) = LineOf(r)
  <2>1. [k \in DOMAIN <<r>> |-> LineOf(<<r>>[k])] = <<LineOf(r)>>
    OBVIOUS
  <2>. QED BY <1>1, <1>3, <2>1 DEF TextOf
<1>. HIDE DEF R, Q, f
<1>5. ASSUME NEW rs \in Seq(R), NEW r \in R, rs # << >>
      PROVE  TextOf(Append(rs, r)) = TextOf(rs) \o (<<Newline>> \o LineOf(r))
  <2>1. PICK ls \in Seq(Q), l \in Q : ls = MapBy(f, rs) /\ l = f[r] /\ l = LineOf(r)
    BY <1>1, <1>2
  <2>2. MapBy(f, Append(rs, r)) = Append(ls, l)
    BY <2>1, MapAppend
  <2>3. ls # << >>
    <3>1. Len(ls) = Len(rs) /\ Len(rs) # 0
      BY <1>1, <1>5, <2>1, MapTyped
    <3>. QED BY <3>1
  <2>4. Append(rs, r) \in Seq(R)
    BY AppendIs
  <2>5. TextOf(Append(rs, r)) = JoinedBy(Newline, Append(ls, l))
    BY <1>2, <2>2, <2>4
  <2>. QED BY <1>2, <1>3, <2>1, <2>3, <2>5
<1>. QED BY <1>1, <1>2, <1>3, <1>4, <1>5 DEF R, Q

LEMMA TextRead ==
  ASSUME NEW C, CsvOf(C), Newline \in C
  PROVE  \A rs \in Seq(LinesTo(C)) : rs # << >> =>
            \E qs \in Seq(LinesTo(C)), ys \in Seq(Seq(C)), y \in Seq(C) :
               /\ rs = Append(qs, Append(ys, y))
               /\ ReadOf(TextOf(rs)) \in {Outside(qs, ys, y), Behind(qs, ys, y)}
<1> DEFINE Q == Seq(C)
           R == LinesTo(C)
           Reads(rs, qs, ys, y) == /\ rs = Append(qs, Append(ys, y))
                                   /\ ReadOf(TextOf(rs)) \in {Outside(qs, ys, y), Behind(qs, ys, y)}
           T == {rs \in Seq(R) : rs # << >> =>
                   \E qs \in Seq(R), ys \in Seq(Q), y \in Q : Reads(rs, qs, ys, y)}
<1>1. << >> \in T
  <2>. HIDE DEF R
  <2>. QED BY EmptyIs
<1>2. ASSUME NEW rs \in Seq(R), NEW r \in R, rs \in T PROVE Append(rs, r) \in T
  <2>1. \E ys \in Seq(Q), y \in Q : Reads(Append(rs, r), rs, ys, y)
    <3>0. r \in Seq(Seq(C)) /\ r # << >>
      BY DEF LinesTo
    <3>1. CASE rs = << >>
      <4>1. PICK t \in Seq(C) : t = << >>
        BY EmptyIs
      <4>2. ReadOf(t) = Outside(<< >>, << >>, << >>)
        BY <4>1, ReadNext DEF Unread, Outside, Empty
      <4>3. PICK ys \in Seq(Q), y \in Q :
               /\ r = Append(ys, y)
               /\ ReadOf(t \o LineOf(r)) \in {Outside(<< >>, ys, y), Behind(<< >>, ys, y)}
        BY <3>0, <4>2, LineReadAfter
      <4>4. t \o LineOf(r) = LineOf(r)
        BY <4>1, TextNext
      <4>5. Append(rs, r) = <<r>> /\ TextOf(<<r>>) = LineOf(r)
        BY <3>1, TextNext
      <4>6. Reads(Append(rs, r), rs, ys, y)
        BY <3>1, <4>3, <4>4, <4>5
      <4>. QED BY <4>6
    <3>2. CASE rs # << >>
      <4>1. PICK qs \in Seq(R), xs \in Seq(Q), x \in Q : Reads(rs, qs, xs, x)
        BY <1>2, <3>2
      <4>2. PICK t \in Seq(C) : t = TextOf(rs)
        BY TextNext
      <4>3. PICK u \in Seq(C) : u = Append(t, Newline)
        BY AppendIs
      <4>4. ReadOf(u) = Outside(rs, << >>, << >>)
        <5>1. PICK st : st = ReadOf(t)
          OBVIOUS
        <5>2. ReadOf(u) = Scan(st, Newline)
          BY <4>3, <5>1, ReadOn
        <5>3. Scan(st, Newline) = Outside(Append(qs, Append(xs, x)), << >>, << >>)
          <6>1. CASE st = Outside(qs, xs, x)
            BY <6>1, ScanNewline
          <6>2. CASE st = Behind(qs, xs, x)
            BY <6>2, ScanNewline
          <6>. QED BY <4>1, <4>2, <5>1, <6>1, <6>2
        <5>. QED BY <4>1, <5>2, <5>3
      <4>5. PICK ys \in Seq(Q), y \in Q :
               /\ r = Append(ys, y)
               /\ ReadOf(u \o LineOf(r)) \in {Outside(rs, ys, y), Behind(rs, ys, y)}
        BY <3>0, <4>4, LineReadAfter
      <4>6. PICK l \in Seq(C) : l = LineOf(r)
        BY TextNext
      <4>7. u \o l = t \o (<<Newline>> \o l)
        BY <4>2, <4>3, <4>6
      <4>8. TextOf(Append(rs, r)) = u \o l
        BY <3>2, <4>2, <4>6, <4>7, TextNext
      <4>9. Reads(Append(rs, r), rs, ys, y)
        BY <4>5, <4>6, <4>8
      <4>. QED BY <4>9
    <3>. QED BY <3>1, <3>2
  <2>2. Append(rs, r) \in Seq(R)
    <3>. HIDE DEF R
    <3>. QED BY AppendIs
  <2>. HIDE DEF Q, R, Reads
  <2>. QED BY <2>1, <2>2
<1>3. \A rs \in Seq(R) : rs \in T
  <2>. HIDE DEF T, R
  <2>. QED BY <1>1, <1>2, SeqInduction
<1>. QED BY <1>3

\* What csvEscape and both joins write, parseCsv reads as the same rows of the same
\* cells, whatever commas, quotes and newlines are in them.
LEMMA RowsReadBack ==
  ASSUME NEW C, CsvOf(C), Newline \in C, NEW rs \in Seq(LinesTo(C)), rs # << >>
  PROVE  Parse(TextOf(rs)) = rs
<1>1. PICK qs \in Seq(LinesTo(C)), ys \in Seq(Seq(C)), y \in Seq(C) :
         /\ rs = Append(qs, Append(ys, y))
         /\ ReadOf(TextOf(rs)) \in {Outside(qs, ys, y), Behind(qs, ys, y)}
  BY TextRead
<1>2. PICK st : st = ReadOf(TextOf(rs))
  OBVIOUS
<1>3. st.rows = qs /\ st.row = ys /\ st.cur = y
  BY <1>1, <1>2 DEF Outside, Behind
<1>4. Parse(TextOf(rs)) = Append(st.rows, Append(st.row, st.cur))
  BY <1>2 DEF Parse, ReadOf
<1>. QED BY <1>1, <1>3, <1>4

--------------------------------------------------------------------------------
(* Portfolios that are put together from rows.                                  *)

\* What a sequence has of the elements of G.
Chosen(s, G) == Selected(s, {k \in DOMAIN s : s[k] \in G})

LEMMA SelectedNone ==
  ASSUME NEW S, NEW s \in Seq(S), NEW ks, \A k \in DOMAIN s : k \notin ks
  PROVE  Selected(s, ks) = << >>
<1>1. \A k \in DOMAIN s : k \in ks => s[k] \in {}
  OBVIOUS
<1>2. PICK t \in Seq({}) : t = Selected(s, ks)
  BY <1>1, SelectedTyped
<1>3. DOMAIN t = {}
  <2>. SUFFICES ASSUME NEW k \in DOMAIN t PROVE FALSE
    OBVIOUS
  <2>1. t[k] \in {}
    OBVIOUS
  <2>. QED BY <2>1
<1>. QED BY <1>2, <1>3

LEMMA ChosenTyped ==
  ASSUME NEW S, NEW s \in Seq(S), NEW G
  PROVE  Chosen(s, G) \in Seq(S)
<1>1. \A k \in DOMAIN s : s[k] \in S
  OBVIOUS
<1>. QED BY <1>1, SelectedTyped DEF Chosen

LEMMA ChosenNone == ASSUME NEW G PROVE Chosen(<< >>, G) = << >>
<1>1. << >> \in Seq({}) /\ DOMAIN << >> = {}
  OBVIOUS
<1>. QED BY <1>1, SelectedNone DEF Chosen

LEMMA ChosenNext ==
  ASSUME NEW S, NEW G, NEW s \in Seq(S), NEW x \in S
  PROVE  Chosen(Append(s, x), G) = IF x \in G THEN Append(Chosen(s, G), x) ELSE Chosen(s, G)
<1> DEFINE ks == {k \in DOMAIN s : s[k] \in G}
           js == {k \in DOMAIN Append(s, x) : Append(s, x)[k] \in G}
<1>1. PICK n \in Nat : n = Len(s) /\ DOMAIN s = 1..n
  OBVIOUS
<1>2. /\ DOMAIN Append(s, x) = 1..(n + 1) /\ Append(s, x)[n + 1] = x
      /\ \A i \in 1..n : Append(s, x)[i] = s[i]
  BY <1>1
<1>3. \A i \in 1..n : i \in js <=> i \in ks
  BY <1>1, <1>2
<1>4. n + 1 \in js <=> x \in G
  BY <1>2
<1>. HIDE DEF ks, js
<1>5. Selected(Append(s, x), js) =
         IF Len(s) + 1 \in js THEN Append(Selected(s, ks), x) ELSE Selected(s, ks)
  BY <1>1, <1>3, SelectedNext
<1>. QED BY <1>1, <1>4, <1>5 DEF Chosen, ks, js

LEMMA ChosenConcat ==
  ASSUME NEW S, NEW G, NEW s \in Seq(S)
  PROVE  \A t \in Seq(S) : Chosen(s \o t, G) = Chosen(s, G) \o Chosen(t, G)
<1> DEFINE T == {t \in Seq(S) : Chosen(s \o t, G) = Chosen(s, G) \o Chosen(t, G)}
<1>1. << >> \in T
  <2>1. PICK v \in Seq(S) : v = Chosen(s, G)
    BY ChosenTyped
  <2>2. v \o << >> = v /\ s \o << >> = s /\ << >> \in Seq(S)
    OBVIOUS
  <2>. QED BY <2>1, <2>2, ChosenNone
<1>2. ASSUME NEW t \in Seq(S), NEW x \in S, t \in T PROVE Append(t, x) \in T
  <2>1. PICK v \in Seq(S), w \in Seq(S) : v = Chosen(s, G) /\ w = Chosen(t, G)
    BY ChosenTyped
  <2>2. PICK u \in Seq(S) : u = s \o t
    BY ConcatIs
  <2>3. s \o Append(t, x) = Append(u, x)
    BY <2>2, ConcatAppend
  <2>4. Chosen(u, G) = v \o w
    BY <1>2, <2>1, <2>2
  <2>5. v \o Append(w, x) = Append(v \o w, x)
    BY ConcatAppend
  <2>6. \A z \in Seq(S) :
            Chosen(Append(z, x), G) = IF x \in G THEN Append(Chosen(z, G), x) ELSE Chosen(z, G)
    BY ChosenNext
  <2>7. Chosen(Append(u, x), G) = IF x \in G THEN Append(v \o w, x) ELSE v \o w
    BY <2>4, <2>6, Zenon
  <2>8. Chosen(Append(t, x), G) = IF x \in G THEN Append(w, x) ELSE w
    BY <2>1, <2>6, Zenon
  <2>9. Chosen(Append(u, x), G) = v \o Chosen(Append(t, x), G)
    BY <2>5, <2>7, <2>8
  <2>10. Append(t, x) \in Seq(S)
    BY AppendIs
  <2>. QED BY <2>1, <2>3, <2>9, <2>10
<1>3. \A t \in Seq(S) : t \in T
  <2>. HIDE DEF T
  <2>. QED BY <1>1, <1>2, SeqInduction
<1>. QED BY <1>3

\* One place is selected.
LEMMA SelectedOne ==
  ASSUME NEW S, NEW s \in Seq(S), NEW ks, NEW m \in DOMAIN s,
         \A k \in DOMAIN s : k \in ks <=> k = m
  PROVE  Selected(s, ks) = <<s[m]>>
<1>1. PICK h : Grows(h, s, ks, Len(s)) /\ Selected(s, ks) = h[Len(s)]
  BY SelectedGrows
<1>2. /\ h[0] = << >>
      /\ \A n \in Nat : n + 1 \in 1..Len(s) =>
           h[n + 1] = IF n + 1 \in ks THEN Append(h[n], s[n + 1]) ELSE h[n]
  BY <1>1, GrownAt
<1> DEFINE T == {n \in Nat : n <= Len(s) => h[n] = IF n < m THEN << >> ELSE <<s[m]>>}
<1>0. Len(s) \in Nat /\ m \in 1..Len(s) /\ DOMAIN s = 1..Len(s)
  OBVIOUS
<1>3. 0 \in T
  BY <1>0, <1>2
<1>4. ASSUME NEW n \in Nat, n \in T PROVE n + 1 \in T
  <2>. SUFFICES ASSUME n + 1 <= Len(s)
                PROVE  h[n + 1] = IF n + 1 < m THEN << >> ELSE <<s[m]>>
    OBVIOUS
  <2>1. n + 1 \in 1..Len(s) /\ n + 1 \in DOMAIN s
        /\ h[n] = IF n < m THEN << >> ELSE <<s[m]>>
    BY <1>0, <1>4
  <2>2. h[n + 1] = IF n + 1 \in ks THEN Append(h[n], s[n + 1]) ELSE h[n]
    BY <1>2, <2>1
  <2>3. n + 1 \in ks <=> n + 1 = m
    BY <2>1
  <2>4. CASE n + 1 = m
    <3>1. h[n] = << >> /\ ~(n + 1 < m)
      BY <1>0, <2>1, <2>4
    <3>2. Append(<< >>, s[m]) = <<s[m]>>
      OBVIOUS
    <3>. QED BY <2>2, <2>3, <2>4, <3>1, <3>2
  <2>5. CASE n + 1 # m
    <3>1. n < m <=> n + 1 < m
      BY <1>0, <2>5
    <3>. QED BY <2>1, <2>2, <2>3, <2>5, <3>1
  <2>. QED BY <2>4, <2>5
<1>5. Nat \subseteq T
  <2>. HIDE DEF T
  <2>. QED BY <1>3, <1>4, SetInduction
<1>. QED BY <1>0, <1>1, <1>5

\* What the texts of portfolios are made of when csvEscape leaves them as they are, and
\* their names when they have no bar.
PlainChar == LabelChar \ {Comma, Quote, Newline, Backslash}
NameChar  == PlainChar \ {Bar}

\* The transactions of such portfolios: trim leaves their notes as they are, and the
\* names of their instruments need no quotes.
AnyChar   == UNION {ToSet(text) : text \in Prose}
ProseChar == AnyChar \ {Comma, Quote, Newline, Backslash}
PRow == {tx \in Row : /\ tx.notes \in Seq(PlainChar) /\ Trim(tx.notes) = tx.notes
                     /\ instruments[tx.isin] # None
                     /\ instruments[tx.isin].name \in Seq(ProseChar)}

\* A row of the CSV of portfolios as it is read, and the portfolios made of such rows.
Rec == [name : Seq(NameChar), desc : Seq(PlainChar), tx : PRow]
Grp == [name : Seq(NameChar), desc : Seq(PlainChar), rows : Seq(PRow)]

GrpOf(name, desc, rows) == [name |-> name, desc |-> desc, rows |-> rows]

LEMMA GrpIs ==
  /\ \A p \in Grp : /\ p = GrpOf(p.name, p.desc, p.rows)
                   /\ p.name \in Seq(NameChar) /\ p.desc \in Seq(PlainChar) /\ p.rows \in Seq(PRow)
  /\ \A n \in Seq(NameChar), d \in Seq(PlainChar), rows \in Seq(PRow) : GrpOf(n, d, rows) \in Grp
  /\ \A r \in Rec : r.name \in Seq(NameChar) /\ r.desc \in Seq(PlainChar) /\ r.tx \in PRow
<1>1. PICK N, D, X, P : N = Seq(NameChar) /\ D = Seq(PlainChar) /\ X = Seq(PRow) /\ P = PRow
  OBVIOUS
<1>2. Grp = [name : N, desc : D, rows : X] /\ Rec = [name : N, desc : D, tx : P]
  BY <1>1 DEF Grp, Rec
<1>3. \A p \in [name : N, desc : D, rows : X] :
         p = [name |-> p.name, desc |-> p.desc, rows |-> p.rows]
         /\ p.name \in N /\ p.desc \in D /\ p.rows \in X
  BY ONLY TRUE
<1>4. \A n \in N, d \in D, rows \in X :
         [name |-> n, desc |-> d, rows |-> rows] \in [name : N, desc : D, rows : X]
  BY ONLY TRUE
<1>5. \A r \in [name : N, desc : D, tx : P] : r.name \in N /\ r.desc \in D /\ r.tx \in P
  BY ONLY TRUE
<1>. QED BY <1>1, <1>2, <1>3, <1>4, <1>5, Zenon DEF GrpOf

\* A key ends the name at its first bar, so that it tells name and description.
LEMMA KeyTells ==
  ASSUME NEW n \in Seq(NameChar), NEW m \in Seq(NameChar),
         NEW d \in Seq(PlainChar), NEW e \in Seq(PlainChar),
         n \o <<Bar, Bar>> \o d = m \o <<Bar, Bar>> \o e
  PROVE  n = m /\ d = e
<1>1. PICK C : C = PlainChar \cup {Bar}
  OBVIOUS
<1>2. n \in Seq(C) /\ m \in Seq(C) /\ d \in Seq(C) /\ e \in Seq(C)
  BY <1>1 DEF NameChar
<1>3. PICK b \in Seq(C) : b = <<Bar, Bar>> /\ Len(b) = 2 /\ b[1] = Bar /\ b[2] = Bar
  <2>1. PICK z \in C : z = Bar
    BY <1>1
  <2>2. <<z, z>> \in Seq(C) /\ Len(<<z, z>>) = 2 /\ <<z, z>>[1] = z /\ <<z, z>>[2] = z
    OBVIOUS
  <2>. QED BY <2>1, <2>2
<1>4. PICK k \in Nat, l \in Nat, i \in Nat, j \in Nat :
         k = Len(n) /\ l = Len(m) /\ i = Len(d) /\ j = Len(e)
  BY <1>2
<1>5. PICK x, y : x = (n \o b) \o d /\ y = (m \o b) \o e
  OBVIOUS
<1>6. /\ Len(x) = k + 2 + i
      /\ \A h \in 1..k : x[h] = n[h]
      /\ x[k + 1] = Bar
      /\ \A h \in 1..i : x[k + 2 + h] = d[h]
  BY ONLY <1>2, <1>3, <1>4, <1>5
<1>7. /\ Len(y) = l + 2 + j
      /\ \A h \in 1..l : y[h] = m[h]
      /\ y[l + 1] = Bar
      /\ \A h \in 1..j : y[l + 2 + h] = e[h]
  BY ONLY <1>2, <1>3, <1>4, <1>5
<1>8. x = y
  BY <1>3, <1>5
<1>9. (\A h \in 1..k : n[h] # Bar) /\ (\A h \in 1..l : m[h] # Bar)
  <2>1. \A ch \in NameChar : ch # Bar
    BY DEF NameChar
  <2>2. (\A h \in 1..k : n[h] \in NameChar) /\ (\A h \in 1..l : m[h] \in NameChar)
    BY <1>4
  <2>. QED BY <2>1, <2>2
<1>10. k = l
  <2>1. ~(k < l)
    <3>. SUFFICES ASSUME k < l PROVE FALSE
      OBVIOUS
    <3>1. k + 1 \in 1..l
      OBVIOUS
    <3>. QED BY <1>6, <1>7, <1>8, <1>9, <3>1
  <2>2. ~(l < k)
    <3>. SUFFICES ASSUME l < k PROVE FALSE
      OBVIOUS
    <3>1. l + 1 \in 1..k
      OBVIOUS
    <3>. QED BY <1>6, <1>7, <1>8, <1>9, <3>1
  <2>. QED BY <2>1, <2>2
<1>11. i = j
  BY <1>6, <1>7, <1>8, <1>10
<1>12. n = m
  <2>1. \A h \in 1..k : n[h] = m[h]
    BY <1>6, <1>7, <1>8, <1>10
  <2>2. Len(n) = Len(m) /\ \A h \in 1..Len(n) : n[h] = m[h]
    BY <1>4, <1>10, <2>1
  <2>. QED BY <1>2, <2>2, SeqEqual
<1>13. d = e
  <2>1. \A h \in 1..i : d[h] = e[h]
    BY <1>6, <1>7, <1>8, <1>10, <1>11
  <2>2. Len(d) = Len(e) /\ \A h \in 1..Len(d) : d[h] = e[h]
    BY <1>4, <1>11, <2>1
  <2>. QED BY <1>2, <2>2, SeqEqual
<1>. QED BY <1>12, <1>13

Keyed(p, n, d) == p.name = n /\ p.desc = d

LEMMA KeyedBy ==
  ASSUME NEW p \in Grp, NEW r \in Rec
  PROVE  Key(p) = Key(r) <=> Keyed(p, r.name, r.desc)
<1>1. PICK n \in Seq(NameChar), m \in Seq(NameChar), d \in Seq(PlainChar), e \in Seq(PlainChar) :
         n = p.name /\ m = r.name /\ d = p.desc /\ e = r.desc
  BY GrpIs
<1>. QED BY <1>1, KeyTells DEF Key, Keyed

\* A name and description that are not there yet begin a portfolio.
LEMMA GroupsNew ==
  ASSUME NEW ps \in Seq(Grp), NEW r \in Rec, \A k \in DOMAIN ps : ~Keyed(ps[k], r.name, r.desc)
  PROVE  AddRow(ps, r) = Append(ps, GrpOf(r.name, r.desc, <<r.tx>>))
<1>1. {k \in DOMAIN ps : Key(ps[k]) = Key(r)} = {}
  <2>1. \A k \in DOMAIN ps : ps[k] \in Grp
    OBVIOUS
  <2>. QED BY <2>1, KeyedBy
<1>. QED BY <1>1 DEF AddRow, GrpOf

\* A transaction is added to the first portfolio of its name and description.
LEMMA GroupsTo ==
  ASSUME NEW ps \in Seq(Grp), NEW r \in Rec,
         NEW k \in DOMAIN ps, Keyed(ps[k], r.name, r.desc)
  PROVE  \E m \in DOMAIN ps :
            /\ Keyed(ps[m], r.name, r.desc)
            /\ AddRow(ps, r) = [ps EXCEPT ![m] = GrpOf(r.name, r.desc, Append(ps[m].rows, r.tx))]
<1> DEFINE same == {i \in DOMAIN ps : Key(ps[i]) = Key(r)}
<1>0. \A i \in DOMAIN ps : ps[i] \in Grp
  OBVIOUS
<1>1. same # {} /\ same \in SUBSET (1..Len(ps)) /\ Len(ps) \in Nat
  BY <1>0, KeyedBy
<1>2. PICK m \in same : m = Min(same)
  <2>. HIDE DEF same
  <2>. QED BY <1>1, MinMax
<1>3. m \in DOMAIN ps /\ ps[m].name = r.name /\ ps[m].desc = r.desc
  BY <1>0, KeyedBy DEF Keyed
<1>4. AddRow(ps, r) = [ps EXCEPT ![m].rows = Append(@, r.tx)]
  <2>1. PICK s : s = same
    OBVIOUS
  <2>2. s = {i \in DOMAIN ps : Key(ps[i]) = Key(r)} /\ s # {} /\ m = Min(s)
    BY <1>1, <1>2, <2>1
  <2>. HIDE DEF same
  <2>. QED BY <2>2 DEF AddRow
<1>5. PICK p \in Grp : p = ps[m] /\ p = GrpOf(p.name, p.desc, p.rows)
  BY <1>3, GrpIs
<1>6. [p EXCEPT !.rows = Append(@, r.tx)] = GrpOf(r.name, r.desc, Append(ps[m].rows, r.tx))
  <2>1. PICK n, d, rows, more : n = p.name /\ d = p.desc /\ rows = p.rows /\ more = Append(rows, r.tx)
    OBVIOUS
  <2>2. p = [name |-> n, desc |-> d, rows |-> rows]
    BY <1>5, <2>1 DEF GrpOf
  <2>3. [p EXCEPT !.rows = more] = [name |-> n, desc |-> d, rows |-> more]
    BY ONLY <2>2
  <2>. QED BY <1>3, <1>5, <2>1, <2>3 DEF GrpOf
<1>7. [ps EXCEPT ![m].rows = Append(@, r.tx)] = [ps EXCEPT ![m] = [p EXCEPT !.rows = Append(@, r.tx)]]
  BY <1>3, <1>5
<1>. QED BY <1>3, <1>4, <1>6, <1>7 DEF Keyed

LEMMA GroupTyped ==
  ASSUME NEW ps \in Seq(Grp), NEW r \in Rec
  PROVE  AddRow(ps, r) \in Seq(Grp)
<1>1. r.name \in Seq(NameChar) /\ r.desc \in Seq(PlainChar) /\ r.tx \in PRow
  BY GrpIs
<1>2. CASE \A k \in DOMAIN ps : ~Keyed(ps[k], r.name, r.desc)
  <2>1. PICK rows \in Seq(PRow) : rows = <<r.tx>>
    <3>1. PICK tx \in PRow : tx = r.tx
      BY <1>1
    <3>2. <<tx>> \in Seq(PRow)
      OBVIOUS
    <3>. QED BY <3>1, <3>2
  <2>2. PICK p \in Grp : p = GrpOf(r.name, r.desc, rows)
    BY <1>1, GrpIs
  <2>. QED BY <1>2, <2>1, <2>2, GroupsNew, AppendIs
<1>3. ASSUME NEW k \in DOMAIN ps, Keyed(ps[k], r.name, r.desc) PROVE AddRow(ps, r) \in Seq(Grp)
  <2>1. PICK m \in DOMAIN ps :
           AddRow(ps, r) = [ps EXCEPT ![m] = GrpOf(r.name, r.desc, Append(ps[m].rows, r.tx))]
    BY <1>3, GroupsTo
  <2>2. ps[m] \in Grp
    OBVIOUS
  <2>3. PICK rows \in Seq(PRow) : rows = ps[m].rows
    BY <2>2, GrpIs
  <2>4. PICK more \in Seq(PRow) : more = Append(rows, r.tx)
    BY <1>1, AppendIs
  <2>5. PICK p \in Grp : p = GrpOf(r.name, r.desc, more)
    BY <1>1, GrpIs
  <2>6. [ps EXCEPT ![m] = p] \in Seq(Grp)
    BY ONLY ps \in Seq(Grp), m \in DOMAIN ps, p \in Grp
  <2>. QED BY <2>1, <2>3, <2>4, <2>5, <2>6
<1>. QED BY <1>2, <1>3

LEMMA GroupFolds ==
  ASSUME NEW t \in Seq(Rec)
  PROVE  \E st, k : /\ st = [i \in 1..Len(t) |-> [a \in Seq(Grp) |-> AddRow(a, t[i])]]
                    /\ Folds(k, st, << >>, Len(t))
                    /\ Grouped(t) = k[1..Len(t)] /\ Grouped(t) \in Seq(Grp)
<1> DEFINE A == Seq(Grp)
           ks == CHOOSE iter : iter = [e \in SUBSET DOMAIN t |->
                    IF e = {} THEN << >>
                    ELSE LET x == Max(e) IN AddRow(iter[e \ {x}], t[x])]
<1>1. PICK n \in Nat : n = Len(t) /\ DOMAIN t = 1..n /\ \A i \in 1..n : t[i] \in Rec
  OBVIOUS
<1>2. Grouped(t) = ks[DOMAIN t]
  BY DEF Grouped, FoldLeft, MapThenFoldSet
<1>3. << >> \in A
  BY EmptyIs
<1>4. \A a \in A, i \in 1..n : AddRow(a, t[i]) \in A
  BY <1>1, GroupTyped
<1>5. PICK st : st = [i \in 1..n |-> [a \in A |-> AddRow(a, t[i])]]
  OBVIOUS
<1>. HIDE DEF A, ks
<1>6. PICK g : Folds(g, st, << >>, n)
  BY <1>1, FoldsExist
<1>7. \A a \in A, i \in 1..n : st[i][a] = AddRow(a, t[i])
  BY <1>5
<1>8. \A e \in SUBSET (1..n) : e # {} => Max(e) \in 1..n /\ e \ {Max(e)} \in SUBSET (1..n)
  BY <1>1, MaxOf
<1>9. \A e \in SUBSET (1..n) : g[e] \in A
  <2>1. \A a \in A, i \in 1..n : st[i][a] \in A
    BY <1>4, <1>7
  <2>2. PICK b \in A : b = << >>
    BY <1>3
  <2>. QED BY <1>1, <1>6, <2>1, <2>2, FoldsTyped
<1>10. g = [e \in SUBSET (1..n) |-> IF e = {} THEN << >>
                    ELSE LET x == Max(e) IN AddRow(g[e \ {x}], t[x])]
  <2>1. g = [e \in SUBSET (1..n) |-> IF e = {} THEN << >> ELSE st[Max(e)][g[e \ {Max(e)}]]]
    BY <1>6 DEF Folds
  <2>2. \A e \in SUBSET (1..n) : e # {} =>
           st[Max(e)][g[e \ {Max(e)}]] = AddRow(g[e \ {Max(e)}], t[Max(e)])
    BY <1>7, <1>8, <1>9
  <2>. QED BY <2>1, <2>2
<1>11. ks = [e \in SUBSET DOMAIN t |-> IF e = {} THEN << >>
                    ELSE LET x == Max(e) IN AddRow(ks[e \ {x}], t[x])]
  <2>1. g = [e \in SUBSET DOMAIN t |-> IF e = {} THEN << >>
                    ELSE LET x == Max(e) IN AddRow(g[e \ {x}], t[x])]
    BY <1>1, <1>10
  <2>. USE DEF ks
  <2>. QED BY <2>1
<1>12. PICK k : /\ k = ks
                /\ k = [e \in SUBSET (1..n) |-> IF e = {} THEN << >>
                    ELSE LET x == Max(e) IN AddRow(k[e \ {x}], t[x])]
  BY <1>1, <1>11
<1>13. \A e \in SUBSET (1..n) : k[e] \in A
  <2>1. k[{}] \in A
    BY <1>3, <1>12
  <2>2. \A e \in SUBSET (1..n) : e # {} /\ k[e \ {Max(e)}] \in A => k[e] \in A
    BY <1>4, <1>8, <1>12
  <2>. QED BY <1>1, <2>1, <2>2, FoldInduction
<1>14. Folds(k, st, << >>, n)
  <2>1. \A e \in SUBSET (1..n) : e # {} =>
           st[Max(e)][k[e \ {Max(e)}]] = AddRow(k[e \ {Max(e)}], t[Max(e)])
    BY <1>7, <1>8, <1>13
  <2>. QED BY <1>12, <2>1 DEF Folds
<1>15. 1..n \in SUBSET (1..n)
  OBVIOUS
<1>. QED BY <1>1, <1>2, <1>5, <1>12, <1>13, <1>14, <1>15 DEF A

\* Each row of a file is added to what the rows before it gave.
LEMMA GroupNext ==
  /\ Grouped(<< >>) = << >>
  /\ \A t \in Seq(Rec) : Grouped(t) \in Seq(Grp)
  /\ \A t \in Seq(Rec), c \in Rec : Grouped(Append(t, c)) = AddRow(Grouped(t), c)
<1>1. Grouped(<< >>) = << >>
  <2>1. << >> \in Seq(Rec) /\ Len(<< >>) = 0 /\ 1..0 = {}
    OBVIOUS
  <2>2. PICK st, k : Folds(k, st, << >>, 0) /\ Grouped(<< >>) = k[1..0]
    BY <2>1, GroupFolds
  <2>. QED BY <2>1, <2>2 DEF Folds
<1>2. \A t \in Seq(Rec) : Grouped(t) \in Seq(Grp)
  BY GroupFolds
<1>3. ASSUME NEW t \in Seq(Rec), NEW c \in Rec
      PROVE  Grouped(Append(t, c)) = AddRow(Grouped(t), c)
  <2>1. PICK u \in Seq(Rec) : u = Append(t, c)
    BY AppendIs
  <2>2. PICK n \in Nat : n = Len(t) /\ Len(u) = n + 1 /\ u[n + 1] = c /\ \A i \in 1..n : u[i] = t[i]
    BY <2>1, AppendIs
  <2>3. PICK st, k : /\ st = [i \in 1..n |-> [a \in Seq(Grp) |-> AddRow(a, t[i])]]
                     /\ Folds(k, st, << >>, n) /\ Grouped(t) = k[1..n] /\ Grouped(t) \in Seq(Grp)
    <3>1. PICK st, k : /\ st = [i \in 1..Len(t) |-> [a \in Seq(Grp) |-> AddRow(a, t[i])]]
                       /\ Folds(k, st, << >>, Len(t))
                       /\ Grouped(t) = k[1..Len(t)] /\ Grouped(t) \in Seq(Grp)
      BY GroupFolds
    <3>. QED BY <2>2, <3>1
  <2>4. PICK su, g : /\ su = [i \in 1..(n + 1) |-> [a \in Seq(Grp) |-> AddRow(a, u[i])]]
                     /\ Folds(g, su, << >>, n + 1) /\ Grouped(u) = g[1..(n + 1)]
    <3>1. PICK su, g : /\ su = [i \in 1..Len(u) |-> [a \in Seq(Grp) |-> AddRow(a, u[i])]]
                       /\ Folds(g, su, << >>, Len(u)) /\ Grouped(u) = g[1..Len(u)]
      BY GroupFolds
    <3>. QED BY <2>2, <3>1
  <2>5. \A i \in 1..n : su[i] = st[i]
    BY <2>2, <2>3, <2>4
  <2>6. g[1..(n + 1)] = su[n + 1][k[1..n]]
    <3>1. PICK b : b = << >>
      OBVIOUS
    <3>2. Folds(k, st, b, n) /\ Folds(g, su, b, n + 1)
      BY <2>3, <2>4, <3>1
    <3>. QED BY ONLY n \in Nat, <2>5, <3>2, FoldsAgree
  <2>7. su[n + 1][Grouped(t)] = AddRow(Grouped(t), c)
    <3>1. n + 1 \in 1..(n + 1)
      OBVIOUS
    <3>. QED BY <2>2, <2>3, <2>4, <3>1
  <2>. QED BY <2>1, <2>3, <2>4, <2>6, <2>7
<1>. QED BY <1>1, <1>2, <1>3

With(n, d) == {r \in Rec : r.name = n /\ r.desc = d}
TxFun == [r \in Rec |-> r.tx]

\* The transactions of the rows of one name and description.
TxsOf(rs, n, d) == MapBy(TxFun, Chosen(rs, With(n, d)))

LEMMA TxsNone == ASSUME NEW n, NEW d PROVE TxsOf(<< >>, n, d) = << >>
<1>1. MapBy(TxFun, << >>) = << >>
  BY DEF MapBy
<1>. QED BY <1>1, ChosenNone DEF TxsOf

LEMMA TxFunIs ==
  ASSUME NEW r \in Rec
  PROVE  /\ TxFun[r] = r.tx /\ TxFun[r] \in PRow
         /\ \A n, d : r \in With(n, d) <=> r.name = n /\ r.desc = d
  BY GrpIs DEF TxFun, With

LEMMA TxsTyped ==
  ASSUME NEW n, NEW d, NEW rs \in Seq(Rec)
  PROVE  TxsOf(rs, n, d) \in Seq(PRow)
<1>1. PICK cs \in Seq(Rec) : cs = Chosen(rs, With(n, d))
  BY ChosenTyped
<1>2. \A r \in Rec : TxFun[r] \in PRow
  BY TxFunIs
<1>. QED BY <1>1, <1>2, MapTyped DEF TxsOf

LEMMA TxsNext ==
  ASSUME NEW n, NEW d, NEW rs \in Seq(Rec), NEW r \in Rec
  PROVE  TxsOf(Append(rs, r), n, d) = IF r.name = n /\ r.desc = d
                                      THEN Append(TxsOf(rs, n, d), r.tx) ELSE TxsOf(rs, n, d)
<1>1. TxFun[r] = r.tx /\ (r \in With(n, d) <=> r.name = n /\ r.desc = d)
  BY TxFunIs
<1>2. PICK cs \in Seq(Rec) : cs = Chosen(rs, With(n, d))
  BY ChosenTyped
<1>3. Chosen(Append(rs, r), With(n, d)) = IF r \in With(n, d) THEN Append(cs, r) ELSE cs
  BY <1>2, ChosenNext
<1>4. MapBy(TxFun, Append(cs, r)) = Append(MapBy(TxFun, cs), TxFun[r])
  BY MapAppend
<1>. QED BY <1>1, <1>2, <1>3, <1>4, Zenon DEF TxsOf

\* Each name and description has one portfolio, with the transactions of its rows.
Grouping(rs, ps) ==
    /\ \A i, j \in DOMAIN ps : Keyed(ps[i], ps[j].name, ps[j].desc) => i = j
    /\ \A n, d : \A m \in DOMAIN ps : Keyed(ps[m], n, d) => ps[m].rows = TxsOf(rs, n, d)
    /\ \A n, d : (\A m \in DOMAIN ps : ~Keyed(ps[m], n, d)) => TxsOf(rs, n, d) = << >>

LEMMA GroupingNew ==
  ASSUME NEW rs \in Seq(Rec), NEW r \in Rec, NEW ps \in Seq(Grp), Grouping(rs, ps),
         \A k \in DOMAIN ps : ~Keyed(ps[k], r.name, r.desc)
  PROVE  Grouping(Append(rs, r), AddRow(ps, r))
<1>1. PICK p \in Grp : p = GrpOf(r.name, r.desc, <<r.tx>>)
  <2>1. PICK tx \in PRow : tx = r.tx
    BY GrpIs
  <2>2. <<tx>> \in Seq(PRow)
    OBVIOUS
  <2>. QED BY <2>1, <2>2, GrpIs
<1>2. PICK qs : qs = Append(ps, p) /\ qs = AddRow(ps, r)
  BY <1>1, GroupsNew
<1>3. p.name = r.name /\ p.desc = r.desc /\ p.rows = <<r.tx>>
  BY <1>1 DEF GrpOf
<1>4. PICK n \in Nat : n = Len(ps) /\ DOMAIN ps = 1..n
  OBVIOUS
<1>5. DOMAIN qs = 1..(n + 1) /\ qs[n + 1] = p /\ \A i \in 1..n : qs[i] = ps[i]
  <2>1. PICK us \in Seq(Grp) : us = Append(ps, p)
    BY AppendIs
  <2>2. Len(us) = n + 1 /\ us[n + 1] = p /\ \A i \in 1..n : us[i] = ps[i]
    BY <1>4, <2>1, AppendIs
  <2>3. DOMAIN us = 1..(n + 1)
    BY <2>2
  <2>. QED BY <1>2, <2>1, <2>2, <2>3
<1>6. \A i \in DOMAIN qs : i = n + 1 \/ i \in 1..n
  BY <1>5
<1>7. \A a, b : TxsOf(Append(rs, r), a, b) = IF r.name = a /\ r.desc = b
                                             THEN Append(TxsOf(rs, a, b), r.tx) ELSE TxsOf(rs, a, b)
  BY TxsNext
<1>8. n + 1 \notin 1..n /\ Append(<< >>, r.tx) = <<r.tx>>
  BY <1>4
<1>9. ASSUME NEW i \in DOMAIN qs, NEW j \in DOMAIN qs, Keyed(qs[i], qs[j].name, qs[j].desc)
      PROVE  i = j
  <2>1. CASE i = n + 1 /\ j \in 1..n
    <3>1. Keyed(ps[j], r.name, r.desc)
      BY <1>3, <1>5, <1>9, <2>1 DEF Keyed
    <3>. QED BY <1>4, <2>1, <3>1
  <2>2. CASE i \in 1..n /\ j = n + 1
    <3>1. Keyed(ps[i], r.name, r.desc)
      BY <1>3, <1>5, <1>9, <2>2 DEF Keyed
    <3>. QED BY <1>4, <2>2, <3>1
  <2>3. CASE i \in 1..n /\ j \in 1..n
    <3>1. Keyed(ps[i], ps[j].name, ps[j].desc)
      BY <1>5, <1>9, <2>3
    <3>. QED BY <1>4, <2>3, <3>1 DEF Grouping
  <2>. QED BY <1>6, <2>1, <2>2, <2>3
<1>10. ASSUME NEW a, NEW b, NEW m \in DOMAIN qs, Keyed(qs[m], a, b)
       PROVE  qs[m].rows = TxsOf(Append(rs, r), a, b)
  <2>1. CASE m = n + 1
    <3>1. r.name = a /\ r.desc = b
      BY <1>3, <1>5, <1>10, <2>1 DEF Keyed
    <3>2. TxsOf(rs, a, b) = << >>
      BY <3>1 DEF Grouping
    <3>. QED BY <1>3, <1>5, <1>7, <1>8, <2>1, <3>1, <3>2
  <2>2. CASE m \in 1..n
    <3>1. Keyed(ps[m], a, b) /\ m \in DOMAIN ps
      BY <1>4, <1>5, <1>10, <2>2
    <3>2. ~(r.name = a /\ r.desc = b)
      BY <3>1
    <3>3. ps[m].rows = TxsOf(rs, a, b)
      BY <3>1 DEF Grouping
    <3>. QED BY <1>5, <1>7, <2>2, <3>2, <3>3
  <2>. QED BY <1>6, <2>1, <2>2
<1>11. ASSUME NEW a, NEW b, \A m \in DOMAIN qs : ~Keyed(qs[m], a, b)
       PROVE  TxsOf(Append(rs, r), a, b) = << >>
  <2>1. ~(r.name = a /\ r.desc = b)
    <3>1. n + 1 \in DOMAIN qs
      BY <1>4, <1>5
    <3>. QED BY <1>3, <1>5, <1>11, <3>1 DEF Keyed
  <2>2. \A m \in DOMAIN ps : ~Keyed(ps[m], a, b)
    <3>1. \A m \in 1..n : m \in 1..(n + 1)
      BY <1>4
    <3>. QED BY <1>4, <1>5, <1>11, <3>1, Zenon
  <2>3. TxsOf(rs, a, b) = << >>
    BY <2>2 DEF Grouping
  <2>. QED BY <1>7, <2>1, <2>3
<1>. QED BY <1>2, <1>9, <1>10, <1>11 DEF Grouping

LEMMA GroupingTo ==
  ASSUME NEW rs \in Seq(Rec), NEW r \in Rec, NEW ps \in Seq(Grp), Grouping(rs, ps),
         NEW k \in DOMAIN ps, Keyed(ps[k], r.name, r.desc)
  PROVE  Grouping(Append(rs, r), AddRow(ps, r))
<1>1. PICK m \in DOMAIN ps :
         /\ Keyed(ps[m], r.name, r.desc)
         /\ AddRow(ps, r) = [ps EXCEPT ![m] = GrpOf(r.name, r.desc, Append(ps[m].rows, r.tx))]
  BY GroupsTo
<1>2. PICK p : p = GrpOf(r.name, r.desc, Append(ps[m].rows, r.tx))
  OBVIOUS
<1>3. PICK qs : qs = AddRow(ps, r) /\ qs = [ps EXCEPT ![m] = p]
  BY <1>1, <1>2
<1>4. p.name = r.name /\ p.desc = r.desc /\ p.rows = Append(ps[m].rows, r.tx)
  BY <1>2 DEF GrpOf
<1>5. DOMAIN qs = DOMAIN ps /\ qs[m] = p /\ \A i \in DOMAIN ps : i # m => qs[i] = ps[i]
  BY <1>3
<1>6. \A i \in DOMAIN ps : \A a, b : Keyed(qs[i], a, b) <=> Keyed(ps[i], a, b)
  BY <1>1, <1>4, <1>5 DEF Keyed
<1>7. \A a, b : TxsOf(Append(rs, r), a, b) = IF r.name = a /\ r.desc = b
                                             THEN Append(TxsOf(rs, a, b), r.tx) ELSE TxsOf(rs, a, b)
  BY TxsNext
<1>8. ASSUME NEW i \in DOMAIN qs, NEW j \in DOMAIN qs, Keyed(qs[i], qs[j].name, qs[j].desc)
      PROVE  i = j
  <2>1. qs[j].name = ps[j].name /\ qs[j].desc = ps[j].desc
    BY <1>5, <1>6, <1>8 DEF Keyed
  <2>2. Keyed(ps[i], ps[j].name, ps[j].desc)
    BY <1>5, <1>6, <1>8, <2>1
  <2>. QED BY <1>5, <2>2 DEF Grouping
<1>9. ASSUME NEW a, NEW b, NEW i \in DOMAIN qs, Keyed(qs[i], a, b)
      PROVE  qs[i].rows = TxsOf(Append(rs, r), a, b)
  <2>1. Keyed(ps[i], a, b) /\ i \in DOMAIN ps /\ ps[i].rows = TxsOf(rs, a, b)
    BY <1>5, <1>6, <1>9 DEF Grouping
  <2>2. CASE i = m
    <3>1. r.name = a /\ r.desc = b
      BY <1>4, <1>5, <1>9, <2>2 DEF Keyed
    <3>. QED BY <1>4, <1>5, <1>7, <2>1, <2>2, <3>1
  <2>3. CASE i # m
    <3>1. ~(r.name = a /\ r.desc = b)
      <4>. SUFFICES ASSUME r.name = a, r.desc = b PROVE FALSE
        OBVIOUS
      <4>1. Keyed(ps[i], ps[m].name, ps[m].desc)
        BY <1>1, <2>1 DEF Keyed
      <4>. QED BY <2>1, <2>3, <4>1 DEF Grouping
    <3>. QED BY <1>5, <1>7, <2>1, <2>3, <3>1
  <2>. QED BY <2>2, <2>3
<1>10. ASSUME NEW a, NEW b, \A i \in DOMAIN qs : ~Keyed(qs[i], a, b)
       PROVE  TxsOf(Append(rs, r), a, b) = << >>
  <2>1. ~(r.name = a /\ r.desc = b)
    BY <1>4, <1>5, <1>10 DEF Keyed
  <2>2. \A i \in DOMAIN ps : ~Keyed(ps[i], a, b)
    BY <1>5, <1>6, <1>10
  <2>3. TxsOf(rs, a, b) = << >>
    BY <2>2 DEF Grouping
  <2>. QED BY <1>7, <2>1, <2>3
<1>. QED BY <1>3, <1>8, <1>9, <1>10 DEF Grouping

\* importPortfoliosFromCsv puts together the transactions of each name and description.
LEMMA GroupedIs ==
  \A rs \in Seq(Rec) : Grouped(rs) \in Seq(Grp) /\ Grouping(rs, Grouped(rs))
<1> DEFINE T == {rs \in Seq(Rec) : Grouping(rs, Grouped(rs))}
<1>1. << >> \in T
  <2>1. << >> \in Seq(Rec) /\ DOMAIN << >> = {}
    OBVIOUS
  <2>2. Grouping(<< >>, << >>)
    BY <2>1, TxsNone DEF Grouping
  <2>. QED BY <2>1, <2>2, GroupNext
<1>2. ASSUME NEW rs \in Seq(Rec), NEW r \in Rec, rs \in T PROVE Append(rs, r) \in T
  <2>1. PICK ps \in Seq(Grp) : ps = Grouped(rs)
    BY GroupNext
  <2>2. Grouping(rs, ps)
    BY <1>2, <2>1
  <2>3. Grouping(Append(rs, r), AddRow(ps, r))
    BY <2>2, GroupingNew, GroupingTo
  <2>4. Append(rs, r) \in Seq(Rec)
    BY AppendIs
  <2>5. Grouped(Append(rs, r)) = AddRow(ps, r)
    BY <2>1, GroupNext
  <2>. QED BY <2>3, <2>4, <2>5
<1>3. \A rs \in Seq(Rec) : rs \in T
  <2>. HIDE DEF T
  <2>. QED BY <1>1, <1>2, SeqInduction
<1>. QED BY <1>3, GroupNext

--------------------------------------------------------------------------------
(* What a file of portfolios gives, as JSON and as rows.                        *)

\* A text that is trimmed stays as it is when it is trimmed again.
LEMMA TrimTwice ==
  ASSUME NEW C, NEW t \in Seq(C)
  PROVE  Trim(Trim(t)) = Trim(t)
<1> DEFINE K == {k \in DOMAIN t : t[k] \notin Blank}
<1>1. CASE K = {}
  <2>1. Trim(t) = << >>
    BY <1>1 DEF Trim, Empty
  <2>2. Trim(<< >>) = << >>
    BY DEF Trim, Empty
  <2>. QED BY <2>1, <2>2
<1>2. CASE K # {}
  <2>1. PICK n \in Nat : n = Len(t) /\ DOMAIN t = 1..n
    OBVIOUS
  <2>2. Min(K) \in K /\ Max(K) \in K /\ Min(K) <= Max(K)
    BY <1>2, <2>1, MinMax
  <2>3. PICK a \in 1..n, b \in 1..n :
           a = Min(K) /\ b = Max(K) /\ a <= b /\ t[a] \notin Blank /\ t[b] \notin Blank
    BY <2>1, <2>2
  <2>4. Trim(t) = SubSeq(t, a, b)
    BY <1>2, <2>3 DEF Trim
  <2>. HIDE DEF K
  <2>5. PICK u \in Seq(C) : u = SubSeq(t, a, b)
    <3>1. SubSeq(t, a, b) \in Seq(C)
      BY <2>1
    <3>. QED BY <3>1
  <2>6. /\ Len(u) = b - a + 1 /\ Len(u) >= 1 /\ Len(u) \in Nat
        /\ \A k \in 1..Len(u) : u[k] = t[a + k - 1]
    BY <2>1, <2>3, <2>5
  <2>7. u[1] = t[a] /\ u[Len(u)] = t[b] /\ u # << >>
    <3>1. a + 1 - 1 = a /\ a + Len(u) - 1 = b /\ 1 \in 1..Len(u) /\ Len(u) \in 1..Len(u)
      BY <2>3, <2>6
    <3>. QED BY <2>6, <3>1
  <2>8. Trim(u) = u
    BY <2>3, <2>7, TrimWhole
  <2>. QED BY <2>4, <2>5, <2>8
<1>. QED BY <1>1, <1>2

Of(n, d) == {p \in Grp : Trim(p.name) = n /\ Trim(p.desc) = d}
RowsFun == [p \in Grp |-> p.rows]

\* The transactions of the portfolios of one name and description, one after the other.
FlatOf(list, n, d) == FlattenSeq(MapBy(RowsFun, Chosen(list, Of(n, d))))

LEMMA RowsOfIs ==
  ASSUME NEW list \in Seq(Grp), NEW n, NEW d
  PROVE  RowsOf(list, n, d) = ToBag(FlatOf(list, n, d))
<1> DEFINE keyed == {k \in DOMAIN list : Trim(list[k].name) = n /\ Trim(list[k].desc) = d}
<1>1. keyed = {k \in DOMAIN list : list[k] \in Of(n, d)}
  <2>1. \A k \in DOMAIN list : list[k] \in Grp
    OBVIOUS
  <2>. QED BY <2>1 DEF Of
<1>2. PICK s \in Seq(Grp) : s = Chosen(list, Of(n, d))
  BY ChosenTyped
<1>3. Selected(list, keyed) = s
  BY <1>1, <1>2 DEF Chosen
<1>4. \A k \in DOMAIN s : RowsFun[s[k]] = s[k].rows
  <2>1. \A k \in DOMAIN s : s[k] \in Grp
    OBVIOUS
  <2>. QED BY <2>1 DEF RowsFun
<1>5. Mapped(s, LAMBDA p : p.rows) = MapBy(RowsFun, s)
  BY <1>4 DEF Mapped, MapBy
<1>. HIDE DEF keyed
<1>6. RowsOf(list, n, d) = ToBag(FlattenSeq(Mapped(Selected(list, keyed), LAMBDA p : p.rows)))
  BY DEF RowsOf, keyed
<1>. QED BY <1>2, <1>3, <1>5, <1>6 DEF FlatOf

LEMMA FlatNone == ASSUME NEW n, NEW d PROVE FlatOf(<< >>, n, d) = << >>
<1>1. MapBy(RowsFun, << >>) = << >>
  BY DEF MapBy
<1>. QED BY <1>1, ChosenNone, FlattenTyped DEF FlatOf

LEMMA FlatParts ==
  ASSUME NEW s \in Seq(Grp)
  PROVE  /\ MapBy(RowsFun, s) \in Seq(Seq(PRow))
         /\ \A p \in Grp : MapBy(RowsFun, Append(s, p)) = Append(MapBy(RowsFun, s), p.rows)
<1> DEFINE Q == Seq(PRow)
<1>1. \A p \in Grp : RowsFun[p] = p.rows /\ RowsFun[p] \in Q
  BY GrpIs DEF RowsFun
<1>. HIDE DEF Q
<1>2. MapBy(RowsFun, s) \in Seq(Q)
  BY <1>1, MapTyped
<1>3. ASSUME NEW p \in Grp PROVE MapBy(RowsFun, Append(s, p)) = Append(MapBy(RowsFun, s), p.rows)
  BY <1>1, MapAppend
<1>. QED BY <1>2, <1>3 DEF Q

LEMMA FlatNext ==
  ASSUME NEW n, NEW d, NEW list \in Seq(Grp), NEW p \in Grp
  PROVE  /\ FlatOf(list, n, d) \in Seq(PRow)
         /\ FlatOf(Append(list, p), n, d) = IF Trim(p.name) = n /\ Trim(p.desc) = d
                                            THEN FlatOf(list, n, d) \o p.rows
                                            ELSE FlatOf(list, n, d)
<1>1. PICK s \in Seq(Grp) : s = Chosen(list, Of(n, d))
  BY ChosenTyped
<1>2. PICK ss \in Seq(Seq(PRow)) : ss = MapBy(RowsFun, s)
  BY FlatParts
<1>3. PICK x \in Seq(PRow) : x = p.rows
  BY GrpIs
<1>4. MapBy(RowsFun, Append(s, p)) = Append(ss, x)
  BY <1>2, <1>3, FlatParts
<1>5. FlattenSeq(Append(ss, x)) = FlattenSeq(ss) \o x
  BY FlattenNext
<1>6. Chosen(Append(list, p), Of(n, d)) = IF p \in Of(n, d) THEN Append(s, p) ELSE s
  BY <1>1, ChosenNext
<1>7. p \in Of(n, d) <=> Trim(p.name) = n /\ Trim(p.desc) = d
  BY DEF Of
<1>8. FlatOf(list, n, d) = FlattenSeq(ss)
  BY <1>1, <1>2 DEF FlatOf
<1>9. FlattenSeq(ss) \in Seq(PRow)
  BY FlattenTyped
<1>10. FlatOf(Append(list, p), n, d) = IF p \in Of(n, d) THEN FlattenSeq(ss) \o x ELSE FlattenSeq(ss)
  BY <1>2, <1>4, <1>5, <1>6, Zenon DEF FlatOf
<1>. QED BY <1>3, <1>7, <1>8, <1>9, <1>10

\* The rows that are imported.
Good == {tx \in Row : tx.isin \in Isin /\ instruments[tx.isin] # None /\ ValidRow(tx)}

\* The portfolios that an import takes, and those that are made of trimmed rows.
Led == {p \in Grp : Trim(p.name) # Empty}
Trimmed == {p \in Grp : p.name # Empty /\ Trim(p.name) = p.name /\ Trim(p.desc) = p.desc}

ImpFun == [p \in Led |-> Imported(p)]

LEMMA ImportedGrp ==
  ASSUME NEW p \in Led
  PROVE  /\ ImpFun[p] = Imported(p) /\ Imported(p) \in Grp
         /\ Imported(p).rows = Chosen(p.rows, Good)
         /\ Trim(Imported(p).name) = Trim(p.name) /\ Trim(Imported(p).desc) = Trim(p.desc)
<1>1. PICK rows \in Seq(PRow), n \in Seq(NameChar), d \in Seq(PlainChar) :
         rows = p.rows /\ n = p.name /\ d = p.desc
  BY GrpIs DEF Led
<1>2. Takes(rows) = {k \in DOMAIN rows : rows[k] \in Good}
  <2>1. \A k \in DOMAIN rows : rows[k] \in PRow
    OBVIOUS
  <2>. QED BY <2>1 DEF Takes, Good, PRow
<1>3. PICK taken \in Seq(PRow) : taken = Chosen(rows, Good) /\ taken = Selected(rows, Takes(rows))
  BY <1>2, ChosenTyped DEF Chosen
<1>4. PICK t \in Seq(NameChar) : t = Trim(n) /\ Trim(t) = t
  BY TrimTyped, TrimTwice
<1>5. Imported(p) = GrpOf(t, d, taken)
  BY <1>1, <1>3, <1>4 DEF Imported, GrpOf
<1>6. GrpOf(t, d, taken) \in Grp
  BY GrpIs
<1>7. PICK q : q = GrpOf(t, d, taken)
  OBVIOUS
<1>8. q.name = t /\ q.desc = d /\ q.rows = taken
  BY <1>7 DEF GrpOf
<1>. QED BY <1>1, <1>3, <1>4, <1>5, <1>6, <1>7, <1>8, Zenon DEF ImpFun

LEMMA ImportsIs ==
  ASSUME NEW file \in Seq(Led)
  PROVE  ImportedPortfolios(file) = MapBy(ImpFun, file) /\ MapBy(ImpFun, file) \in Seq(Grp)
<1>1. \A k \in DOMAIN file : file[k] \in Led
  OBVIOUS
<1>2. DOMAIN file \subseteq Named(file)
  BY <1>1 DEF Named, Led
<1>3. Selected(file, Named(file)) = file
  BY <1>2, SelectedWhole
<1>4. ImportedPortfolios(file) = [k \in DOMAIN file |-> Imported(file[k])]
  BY <1>3, ImportedIs
<1>5. \A p \in Led : ImpFun[p] = Imported(p) /\ ImpFun[p] \in Grp
  BY ImportedGrp
<1>6. MapBy(ImpFun, file) = [k \in DOMAIN file |-> Imported(file[k])]
  BY <1>1, <1>5 DEF MapBy
<1>7. MapBy(ImpFun, file) \in Seq(Grp)
  BY <1>5, MapTyped
<1>. QED BY <1>4, <1>6, <1>7

TRec == {r \in Rec : r.name # Empty /\ Trim(r.name) = r.name /\ Trim(r.desc) = r.desc}

RecOf(name, desc, tx) == [name |-> name, desc |-> desc, tx |-> tx]

\* The rows that are read of one portfolio, and of all of a file.
RecsOf(p) == [j \in DOMAIN p.rows |-> RecOf(Trim(p.name), Trim(p.desc), p.rows[j])]
RecsFun == [p \in Led |-> RecsOf(p)]
Recs(file) == FlattenSeq(MapBy(RecsFun, file))

LEMMA RecIs ==
  ASSUME NEW n \in Seq(NameChar), NEW d \in Seq(PlainChar), NEW tx \in PRow
  PROVE  RecOf(n, d, tx) \in Rec /\ RecOf(n, d, tx).name = n /\ RecOf(n, d, tx).desc = d
         /\ RecOf(n, d, tx).tx = tx
<1>1. PICK N, D, P : N = Seq(NameChar) /\ D = Seq(PlainChar) /\ P = PRow
  OBVIOUS
<1>2. n \in N /\ d \in D /\ tx \in P /\ Rec = [name : N, desc : D, tx : P]
  BY <1>1 DEF Rec
<1>3. [name |-> n, desc |-> d, tx |-> tx] \in [name : N, desc : D, tx : P]
  BY ONLY <1>2
<1>. QED BY <1>2, <1>3 DEF RecOf

LEMMA RecsOfIs ==
  ASSUME NEW p \in Led, NEW n, NEW d
  PROVE  /\ RecsOf(p) \in Seq(TRec)
         /\ TxsOf(RecsOf(p), n, d) = IF Trim(p.name) = n /\ Trim(p.desc) = d THEN p.rows ELSE << >>
<1>1. PICK rows \in Seq(PRow), a \in Seq(NameChar), b \in Seq(PlainChar) :
         rows = p.rows /\ a = Trim(p.name) /\ b = Trim(p.desc)
  BY GrpIs, TrimTyped DEF Led
<1>2. a # Empty /\ Trim(a) = a /\ Trim(b) = b
  BY <1>1, GrpIs, TrimTwice DEF Led
<1>3. PICK rs : rs = [j \in DOMAIN rows |-> RecOf(a, b, rows[j])]
  OBVIOUS
<1>4. rs = RecsOf(p)
  BY <1>1, <1>3 DEF RecsOf
<1>5. DOMAIN rs = DOMAIN rows /\ \A j \in DOMAIN rows : rows[j] \in PRow /\ rs[j] = RecOf(a, b, rows[j])
  BY <1>3
<1>6. \A j \in DOMAIN rows : /\ rs[j] \in TRec /\ rs[j] \in Rec
                             /\ rs[j].name = a /\ rs[j].desc = b /\ rs[j].tx = rows[j]
  BY <1>2, <1>5, RecIs DEF TRec
<1>7. rs \in Seq(TRec) /\ rs \in Seq(Rec)
  <2>1. DOMAIN rows = 1..Len(rows) /\ Len(rows) \in Nat
    OBVIOUS
  <2>. QED BY <1>3, <1>6, <2>1
<1>8. CASE a = n /\ b = d
  <2>1. \A j \in DOMAIN rs : rs[j] \in With(n, d)
    BY <1>5, <1>6, <1>8 DEF With
  <2>2. Chosen(rs, With(n, d)) = rs
    BY <1>7, <2>1, SelectedWhole DEF Chosen
  <2>3. \A j \in DOMAIN rows : TxFun[rs[j]] = rows[j]
    BY <1>6, TxFunIs
  <2>4. MapBy(TxFun, rs) = rows
    BY <1>5, <2>3 DEF MapBy
  <2>. QED BY <1>1, <1>4, <1>7, <1>8, <2>2, <2>4 DEF TxsOf
<1>9. CASE ~(a = n /\ b = d)
  <2>1. \A j \in DOMAIN rs : rs[j] \notin With(n, d)
    BY <1>5, <1>6, <1>9 DEF With
  <2>2. Chosen(rs, With(n, d)) = << >>
    BY <1>7, <2>1, SelectedNone DEF Chosen
  <2>3. MapBy(TxFun, << >>) = << >>
    BY DEF MapBy
  <2>. QED BY <1>1, <1>4, <1>7, <1>9, <2>2, <2>3 DEF TxsOf
<1>. QED BY <1>8, <1>9

LEMMA TxsConcat ==
  ASSUME NEW rs \in Seq(Rec), NEW qs \in Seq(Rec), NEW n, NEW d
  PROVE  TxsOf(rs \o qs, n, d) = TxsOf(rs, n, d) \o TxsOf(qs, n, d)
<1>1. PICK a \in Seq(Rec), b \in Seq(Rec) : a = Chosen(rs, With(n, d)) /\ b = Chosen(qs, With(n, d))
  BY ChosenTyped
<1>2. Chosen(rs \o qs, With(n, d)) = a \o b
  BY <1>1, ChosenConcat
<1>3. MapBy(TxFun, a \o b) = MapBy(TxFun, a) \o MapBy(TxFun, b)
  BY MapConcat
<1>. QED BY <1>1, <1>2, <1>3 DEF TxsOf

LEMMA RecsNext ==
  /\ Recs(<< >>) = << >>
  /\ \A file \in Seq(Led) : MapBy(RecsFun, file) \in Seq(Seq(TRec)) /\ Recs(file) \in Seq(TRec)
  /\ \A file \in Seq(Led), p \in Led : Recs(Append(file, p)) = Recs(file) \o RecsOf(p)
<1> DEFINE Q == Seq(TRec)
<1>1. \A p \in Led : RecsFun[p] = RecsOf(p) /\ RecsFun[p] \in Q
  BY RecsOfIs DEF RecsFun
<1>2. ASSUME NEW file \in Seq(Led) PROVE MapBy(RecsFun, file) \in Seq(Q)
  <2>. HIDE DEF Q
  <2>. QED BY <1>1, MapTyped
<1>3. ASSUME NEW file \in Seq(Led) PROVE Recs(file) \in Seq(TRec)
  BY <1>2, FlattenTyped DEF Recs
<1>4. ASSUME NEW file \in Seq(Led), NEW p \in Led
      PROVE  Recs(Append(file, p)) = Recs(file) \o RecsOf(p)
  <2>1. PICK ss \in Seq(Seq(TRec)) : ss = MapBy(RecsFun, file)
    BY <1>2
  <2>2. PICK x \in Seq(TRec) : x = RecsOf(p) /\ x = RecsFun[p]
    BY <1>1
  <2>3. MapBy(RecsFun, Append(file, p)) = Append(ss, x)
    BY <2>1, <2>2, MapAppend
  <2>4. FlattenSeq(Append(ss, x)) = FlattenSeq(ss) \o x
    BY FlattenNext
  <2>. QED BY <2>1, <2>2, <2>3, <2>4 DEF Recs
<1>5. Recs(<< >>) = << >>
  <2>1. MapBy(RecsFun, << >>) = << >>
    BY DEF MapBy
  <2>. QED BY <2>1, FlattenTyped DEF Recs
<1>. QED BY <1>2, <1>3, <1>4, <1>5

\* What JSON gives for a name and description is what the rows of the CSV have for it.
LEMMA FileFlat ==
  ASSUME NEW n, NEW d
  PROVE  \A file \in Seq(Led) :
            FlatOf(MapBy(ImpFun, file), n, d) = Chosen(TxsOf(Recs(file), n, d), Good)
<1> DEFINE T == {file \in Seq(Led) :
                    FlatOf(MapBy(ImpFun, file), n, d) = Chosen(TxsOf(Recs(file), n, d), Good)}
<1>1. << >> \in T
  <2>1. << >> \in Seq(Led)
    BY EmptyIs
  <2>2. MapBy(ImpFun, << >>) = << >>
    BY DEF MapBy
  <2>3. FlatOf(MapBy(ImpFun, << >>), n, d) = << >>
    BY <2>2, FlatNone
  <2>4. TxsOf(Recs(<< >>), n, d) = << >>
    BY RecsNext, TxsNone
  <2>. QED BY <2>1, <2>3, <2>4, ChosenNone
<1>2. ASSUME NEW file \in Seq(Led), NEW p \in Led, file \in T PROVE Append(file, p) \in T
  <2>1. PICK list \in Seq(Grp) : list = MapBy(ImpFun, file)
    BY ImportsIs
  <2>2. PICK q \in Grp : q = Imported(p) /\ q = ImpFun[p] /\ q.rows = Chosen(p.rows, Good)
                         /\ Trim(q.name) = Trim(p.name) /\ Trim(q.desc) = Trim(p.desc)
    BY ImportedGrp
  <2>3. MapBy(ImpFun, Append(file, p)) = Append(list, q)
    BY <2>1, <2>2, MapAppend
  <2>4. PICK f \in Seq(PRow) : f = FlatOf(list, n, d)
    BY <2>2, FlatNext
  <2>5. FlatOf(Append(list, q), n, d) = IF Trim(p.name) = n /\ Trim(p.desc) = d
                                        THEN f \o Chosen(p.rows, Good) ELSE f
    <3>1. FlatOf(Append(list, q), n, d) = IF Trim(q.name) = n /\ Trim(q.desc) = d
                                          THEN FlatOf(list, n, d) \o q.rows ELSE FlatOf(list, n, d)
      BY FlatNext
    <3>. QED BY <2>2, <2>4, <3>1, Zenon
  <2>6. PICK rs \in Seq(Rec), ps \in Seq(Rec) : rs = Recs(file) /\ ps = RecsOf(p)
    <3>1. Recs(file) \in Seq(TRec) /\ RecsOf(p) \in Seq(TRec)
      BY RecsNext, RecsOfIs
    <3>2. TRec \subseteq Rec
      BY DEF TRec
    <3>3. Seq(TRec) \subseteq Seq(Rec)
      BY <3>2
    <3>. QED BY <3>1, <3>3
  <2>7. PICK rows \in Seq(PRow) : rows = p.rows
    BY GrpIs DEF Led
  <2>8. PICK t \in Seq(PRow) : t = TxsOf(rs, n, d) /\ f = Chosen(t, Good)
    <3>1. f = Chosen(TxsOf(rs, n, d), Good)
      BY <1>2, <2>1, <2>4, <2>6
    <3>. QED BY <3>1, TxsTyped
  <2>9. TxsOf(rs \o ps, n, d) = t \o TxsOf(ps, n, d)
    <3>1. TxsOf(rs \o ps, n, d) = TxsOf(rs, n, d) \o TxsOf(ps, n, d)
      BY TxsConcat
    <3>. QED BY <2>8, <3>1, Zenon
  <2>10. TxsOf(ps, n, d) = IF Trim(p.name) = n /\ Trim(p.desc) = d THEN rows ELSE << >>
    BY <2>6, <2>7, RecsOfIs
  <2>11. Recs(Append(file, p)) = rs \o ps
    BY <2>6, RecsNext
  <2>12. FlatOf(MapBy(ImpFun, Append(file, p)), n, d) = Chosen(TxsOf(Recs(Append(file, p)), n, d), Good)
    <3>1. CASE Trim(p.name) = n /\ Trim(p.desc) = d
      <4>1. Chosen(t \o rows, Good) = Chosen(t, Good) \o Chosen(rows, Good)
        BY ChosenConcat
      <4>2. TxsOf(Recs(Append(file, p)), n, d) = t \o rows
        BY <2>9, <2>10, <2>11, <3>1
      <4>3. FlatOf(Append(list, q), n, d) = f \o Chosen(rows, Good)
        BY <2>5, <2>7, <3>1
      <4>. QED BY <2>3, <2>8, <4>1, <4>2, <4>3, Zenon
    <3>2. CASE ~(Trim(p.name) = n /\ Trim(p.desc) = d)
      <4>1. t \o << >> = t
        OBVIOUS
      <4>2. TxsOf(Recs(Append(file, p)), n, d) = t
        BY <2>9, <2>10, <2>11, <3>2, <4>1
      <4>3. FlatOf(Append(list, q), n, d) = f
        BY <2>5, <3>2
      <4>. QED BY <2>3, <2>8, <4>2, <4>3, Zenon
    <3>. QED BY <3>1, <3>2
  <2>13. Append(file, p) \in Seq(Led)
    BY AppendIs
  <2>. QED BY <2>12, <2>13
<1>3. \A file \in Seq(Led) : file \in T
  <2>. HIDE DEF T
  <2>. QED BY <1>1, <1>2, SeqInduction
<1>. QED BY <1>3

\* Portfolios made of trimmed rows have trimmed texts.
LEMMA AddTrimmed ==
  ASSUME NEW ps \in Seq(Trimmed), NEW r \in TRec
  PROVE  AddRow(ps, r) \in Seq(Trimmed)
<1>1. r \in Rec /\ r.name \in Seq(NameChar) /\ r.desc \in Seq(PlainChar) /\ r.tx \in PRow
      /\ r.name # Empty /\ Trim(r.name) = r.name /\ Trim(r.desc) = r.desc
  BY GrpIs DEF TRec
<1>2. ASSUME NEW rows \in Seq(PRow) PROVE GrpOf(r.name, r.desc, rows) \in Trimmed
  <2>1. PICK p \in Grp : p = GrpOf(r.name, r.desc, rows)
    BY <1>1, GrpIs
  <2>2. p.name = r.name /\ p.desc = r.desc
    BY <2>1 DEF GrpOf
  <2>. QED BY <1>1, <2>1, <2>2 DEF Trimmed
<1>3. ps \in Seq(Grp)
  BY DEF Trimmed
<1>4. CASE \A k \in DOMAIN ps : ~Keyed(ps[k], r.name, r.desc)
  <2>1. PICK rows \in Seq(PRow) : rows = <<r.tx>>
    <3>1. PICK tx \in PRow : tx = r.tx
      BY <1>1
    <3>2. <<tx>> \in Seq(PRow)
      OBVIOUS
    <3>. QED BY <3>1, <3>2
  <2>2. PICK p \in Trimmed : p = GrpOf(r.name, r.desc, rows)
    BY <1>2
  <2>3. AddRow(ps, r) = Append(ps, p)
    BY <1>1, <1>3, <1>4, <2>1, <2>2, GroupsNew
  <2>. QED BY <2>3, AppendIs
<1>5. ASSUME NEW k \in DOMAIN ps, Keyed(ps[k], r.name, r.desc) PROVE AddRow(ps, r) \in Seq(Trimmed)
  <2>1. PICK m \in DOMAIN ps :
           AddRow(ps, r) = [ps EXCEPT ![m] = GrpOf(r.name, r.desc, Append(ps[m].rows, r.tx))]
    BY <1>1, <1>3, <1>5, GroupsTo
  <2>2. ps[m] \in Grp
    BY <1>3
  <2>3. PICK rows \in Seq(PRow) : rows = ps[m].rows
    BY <2>2, GrpIs
  <2>4. PICK more \in Seq(PRow) : more = Append(rows, r.tx)
    BY <1>1, AppendIs
  <2>5. PICK p \in Trimmed : p = GrpOf(r.name, r.desc, more)
    BY <1>2
  <2>6. [ps EXCEPT ![m] = p] \in Seq(Trimmed)
    BY ONLY ps \in Seq(Trimmed), m \in DOMAIN ps, p \in Trimmed
  <2>. QED BY <2>1, <2>3, <2>4, <2>5, <2>6
<1>. QED BY <1>4, <1>5

LEMMA GroupedTrimmed == \A rs \in Seq(TRec) : rs \in Seq(Rec) /\ Grouped(rs) \in Seq(Trimmed)
<1> DEFINE T == {rs \in Seq(TRec) : Grouped(rs) \in Seq(Trimmed)}
<1>0. TRec \subseteq Rec /\ Seq(TRec) \subseteq Seq(Rec)
  <2>1. TRec \subseteq Rec
    BY DEF TRec
  <2>. QED BY <2>1
<1>1. << >> \in T
  BY GroupNext, EmptyIs
<1>2. ASSUME NEW rs \in Seq(TRec), NEW r \in TRec, rs \in T PROVE Append(rs, r) \in T
  <2>1. PICK ps \in Seq(Trimmed) : ps = Grouped(rs)
    BY <1>2
  <2>2. Grouped(Append(rs, r)) = AddRow(ps, r)
    BY <1>0, <2>1, GroupNext
  <2>3. AddRow(ps, r) \in Seq(Trimmed)
    BY AddTrimmed
  <2>4. Append(rs, r) \in Seq(TRec)
    BY AppendIs
  <2>. QED BY <2>2, <2>3, <2>4
<1>3. \A rs \in Seq(TRec) : rs \in T
  <2>. HIDE DEF T
  <2>. QED BY <1>1, <1>2, SeqInduction
<1>. QED BY <1>0, <1>3

\* What is made of the rows gives for a name and description what the rows have for it.
LEMMA GroupFlat ==
  ASSUME NEW n, NEW d, NEW rs \in Seq(TRec)
  PROVE  /\ Grouped(rs) \in Seq(Led)
         /\ FlatOf(MapBy(ImpFun, Grouped(rs)), n, d) = Chosen(TxsOf(rs, n, d), Good)
<1>1. PICK ps \in Seq(Trimmed) : ps = Grouped(rs)
  BY GroupedTrimmed
<1>2. \A k \in DOMAIN ps : /\ ps[k] \in Led /\ ps[k] \in Grp /\ Trim(ps[k].name) = ps[k].name
                           /\ Trim(ps[k].desc) = ps[k].desc
  <2>1. \A k \in DOMAIN ps : ps[k] \in Trimmed
    OBVIOUS
  <2>. QED BY <2>1 DEF Trimmed, Led
<1>3. ps \in Seq(Led)
  BY <1>2, SeqWithin
<1>4. Grouping(rs, ps)
  BY <1>1, GroupedTrimmed, GroupedIs
<1>5. PICK list \in Seq(Grp) : list = MapBy(ImpFun, ps)
  BY <1>3, ImportsIs
<1>6. DOMAIN list = DOMAIN ps
  BY <1>5 DEF MapBy
<1>7. ASSUME NEW k \in DOMAIN ps
      PROVE  /\ list[k].rows = Chosen(ps[k].rows, Good) /\ list[k] \in Grp
             /\ list[k] \in Of(n, d) <=> Keyed(ps[k], n, d)
  <2>1. PICK p \in Led : p = ps[k] /\ Trim(p.name) = p.name /\ Trim(p.desc) = p.desc
    BY <1>2
  <2>2. list[k] = Imported(p)
    <3>1. ImpFun[p] = Imported(p)
      BY ImportedGrp
    <3>. QED BY <1>5, <2>1, <3>1 DEF MapBy
  <2>3. /\ Imported(p) \in Grp /\ Imported(p).rows = Chosen(p.rows, Good)
        /\ Trim(Imported(p).name) = p.name /\ Trim(Imported(p).desc) = p.desc
    BY <2>1, ImportedGrp
  <2>. QED BY <2>1, <2>2, <2>3 DEF Of, Keyed
<1>8. ASSUME NEW m \in DOMAIN ps, Keyed(ps[m], n, d)
      PROVE  FlatOf(list, n, d) = Chosen(TxsOf(rs, n, d), Good)
  <2>1. \A k \in DOMAIN ps : Keyed(ps[k], n, d) => k = m
    <3>. SUFFICES ASSUME NEW k \in DOMAIN ps, Keyed(ps[k], n, d) PROVE k = m
      OBVIOUS
    <3>1. Keyed(ps[k], ps[m].name, ps[m].desc)
      BY <1>8 DEF Keyed
    <3>. QED BY <1>4, <3>1 DEF Grouping
  <2>2. PICK ks : ks = {k \in DOMAIN list : list[k] \in Of(n, d)}
    OBVIOUS
  <2>3. m \in DOMAIN list /\ \A k \in DOMAIN list : k \in ks <=> k = m
    BY <1>6, <1>7, <1>8, <2>1, <2>2
  <2>4. Chosen(list, Of(n, d)) = <<list[m]>>
    BY <2>2, <2>3, SelectedOne DEF Chosen
  <2>5. PICK q \in Grp : q = list[m] /\ q.rows = Chosen(ps[m].rows, Good)
    BY <1>7
  <2>6. PICK x \in Seq(PRow) : x = q.rows
    BY GrpIs
  <2>7. MapBy(RowsFun, <<q>>) = <<x>>
    <3>1. RowsFun[q] = x
      BY <2>6 DEF RowsFun
    <3>. QED BY <3>1 DEF MapBy
  <2>8. FlattenSeq(<<x>>) = x
    <3>1. FlattenSeq(Append(<< >>, x)) = FlattenSeq(<< >>) \o x
      <4>1. << >> \in Seq(Seq(PRow))
        BY EmptyIs
      <4>. QED BY <4>1, FlattenNext
    <3>2. Append(<< >>, x) = <<x>> /\ << >> \o x = x
      OBVIOUS
    <3>. QED BY <3>1, <3>2, FlattenTyped
  <2>9. ps[m].rows = TxsOf(rs, n, d)
    BY <1>4, <1>8 DEF Grouping
  <2>. QED BY <2>4, <2>5, <2>6, <2>7, <2>8, <2>9 DEF FlatOf
<1>9. CASE \A m \in DOMAIN ps : ~Keyed(ps[m], n, d)
  <2>1. TxsOf(rs, n, d) = << >>
    BY <1>4, <1>9 DEF Grouping
  <2>2. PICK ks : ks = {k \in DOMAIN list : list[k] \in Of(n, d)}
    OBVIOUS
  <2>3. \A k \in DOMAIN list : k \notin ks
    BY <1>6, <1>7, <1>9, <2>2
  <2>4. Chosen(list, Of(n, d)) = << >>
    BY <2>2, <2>3, SelectedNone DEF Chosen
  <2>5. MapBy(RowsFun, << >>) = << >>
    BY DEF MapBy
  <2>6. FlatOf(list, n, d) = << >>
    BY <2>4, <2>5, FlattenTyped DEF FlatOf
  <2>7. Chosen(<< >>, Good) = << >>
    BY ChosenNone
  <2>. QED BY <1>1, <1>3, <1>5, <2>1, <2>6, <2>7
<1>. QED BY <1>1, <1>3, <1>5, <1>8, <1>9

\* A file gives the same whether it is imported or written as rows that are read and
\* put together again.
LEMMA FormatsGive ==
  ASSUME NEW file \in Seq(Led), NEW n, NEW d
  PROVE  RowsOf(ImportedPortfolios(file), n, d) = RowsOf(ImportedPortfolios(Grouped(Recs(file))), n, d)
<1>1. PICK list \in Seq(Grp) : list = ImportedPortfolios(file) /\ list = MapBy(ImpFun, file)
  BY ImportsIs
<1>2. PICK rs \in Seq(TRec) : rs = Recs(file)
  BY RecsNext
<1>3. PICK ps \in Seq(Led) : ps = Grouped(rs)
  BY GroupFlat
<1>4. PICK made \in Seq(Grp) : made = ImportedPortfolios(ps) /\ made = MapBy(ImpFun, ps)
  BY ImportsIs
<1>5. FlatOf(list, n, d) = Chosen(TxsOf(rs, n, d), Good)
  BY <1>1, <1>2, FileFlat
<1>6. FlatOf(made, n, d) = Chosen(TxsOf(rs, n, d), Good)
  BY <1>3, <1>4, GroupFlat
<1>. QED BY <1>1, <1>2, <1>3, <1>4, <1>5, <1>6, RowsOfIs

--------------------------------------------------------------------------------
(* The CSV of portfolios.                                                       *)

\* The columns of one character, and the characters of the CSV of portfolios.
Solo  == {Header} \cup Isin \cup Int \cup TransactionType
PChar == {Comma, Quote, Newline} \cup Solo \cup PlainChar \cup ProseChar

LEMMA SoloCell ==
  ASSUME NEW ch \in Solo
  PROVE  <<ch>> \in Seq(PChar) /\ Escape(<<ch>>) = <<ch>> /\ Trim(<<ch>>) = <<ch>>
<1>1. ch \notin {Comma, Quote, Newline, Space}
  <2>1. CASE ch = Header
    BY <2>1, ExchangeAssumption
  <2>2. CASE ch \in Isin \cup Int
    BY <2>2, ExchangeAssumption
  <2>3. CASE ch \in TransactionType
    BY <2>3, ExchangeAssumption
  <2>. QED BY <2>1, <2>2, <2>3 DEF Solo
<1>2. ch \in PChar
  BY DEF PChar
<1>3. PICK x : x = <<ch>>
  OBVIOUS
<1>4. x \in Seq(PChar) /\ x # << >> /\ x[1] = ch /\ x[Len(x)] = ch
  BY <1>2, <1>3
<1>5. Trim(x) = x
  BY <1>1, <1>4, TrimWhole DEF Blank
<1>6. ToSet(<<ch>>) = {ch}
  BY DEF ToSet
<1>7. Escape(<<ch>>) = <<ch>>
  BY <1>1, <1>6 DEF Escape, NeedsQuotes, Special
<1>. QED BY <1>3, <1>4, <1>5, <1>7

LEMMA PlainText ==
  ASSUME NEW x \in Seq(PlainChar \cup ProseChar)
  PROVE  x \in Seq(PChar) /\ Escape(x) = x /\ EscapeLabel(x) = x
<1> DEFINE C == PlainChar \cup ProseChar
<1>1. C \cap {Comma, Quote, Newline, Backslash} = {} /\ C \subseteq PChar
  <2>1. C \cap {Comma, Quote, Newline, Backslash} = {}
    BY DEF PlainChar, ProseChar
  <2>. QED BY <2>1, Zenon DEF PChar
<1>. HIDE DEF C
<1>2. ToSet(x) \subseteq C
  BY DEF ToSet, C
<1>3. ToSet(x) \cap Special = {} /\ ToSet(x) \cap (Special \cup {Backslash}) = {}
  BY <1>1, <1>2 DEF Special
<1>4. x \in Seq(PChar)
  BY <1>1 DEF C
<1>. QED BY <1>3, <1>4 DEF Escape, EscapeLabel, NeedsQuotes

PCells(r) == <<r.name, r.desc, <<r.tx.isin>>, instruments[r.tx.isin].name, <<r.tx.type>>,
               <<r.tx.units>>, <<r.tx.price>>, <<r.tx.fees>>, r.tx.notes>>
PLine(r) == CsvLine(<<EscapeLabel(r.name), EscapeLabel(r.desc), <<r.tx.isin>>,
                      EscapeLabel(instruments[r.tx.isin].name), <<r.tx.type>>,
                      <<r.tx.units>>, <<r.tx.price>>, <<r.tx.fees>>,
                      EscapeLabel(r.tx.notes)>>)

LEMMA RowIs ==
  ASSUME NEW tx \in PRow
  PROVE  /\ {tx.isin, tx.type, tx.units, tx.price, tx.fees} \subseteq Solo
         /\ tx.notes \in Seq(PlainChar) /\ Trim(tx.notes) = tx.notes
         /\ instruments[tx.isin].name \in Seq(ProseChar)
         /\ tx = [isin |-> tx.isin, type |-> tx.type, units |-> tx.units, price |-> tx.price,
                  fees |-> tx.fees, notes |-> tx.notes]
<1>1. tx \in Row
  BY DEF PRow
<1>2. tx \in Transaction
  BY <1>1, ExchangeAssumption
<1>. QED BY <1>2 DEF Solo, PRow, Transaction

LEMMA RowLine ==
  ASSUME NEW r \in Rec
  PROVE  PCells(r) \in LinesTo(PChar) /\ PLine(r) = LineOf(PCells(r))
<1> DEFINE Q == Seq(PChar)
<1>1. r.name \in Seq(NameChar) /\ r.desc \in Seq(PlainChar) /\ r.tx \in PRow
  BY GrpIs
<1>2. PICK C : C = PlainChar \cup ProseChar
  OBVIOUS
<1>3. /\ r.name \in Seq(C) /\ r.desc \in Seq(C) /\ r.tx.notes \in Seq(C)
      /\ instruments[r.tx.isin].name \in Seq(C)
  <2>1. NameChar \subseteq C /\ PlainChar \subseteq C /\ ProseChar \subseteq C
    BY <1>2 DEF NameChar
  <2>2. r.tx.notes \in Seq(PlainChar) /\ instruments[r.tx.isin].name \in Seq(ProseChar)
    BY <1>1, RowIs
  <2>. QED BY <1>1, <2>1, <2>2
<1>4. PICK n \in Q, d \in Q, m \in Q, s \in Q :
         /\ n = r.name /\ d = r.desc /\ m = instruments[r.tx.isin].name /\ s = r.tx.notes
         /\ Escape(n) = n /\ Escape(d) = d /\ Escape(m) = m /\ Escape(s) = s
         /\ EscapeLabel(n) = n /\ EscapeLabel(d) = d /\ EscapeLabel(m) = m
         /\ EscapeLabel(s) = s
  BY <1>2, <1>3, PlainText
<1>5. PICK i \in Q, t \in Q, u \in Q, p \in Q, f \in Q :
         /\ i = <<r.tx.isin>> /\ t = <<r.tx.type>> /\ u = <<r.tx.units>>
         /\ p = <<r.tx.price>> /\ f = <<r.tx.fees>>
         /\ Escape(i) = i /\ Escape(t) = t /\ Escape(u) = u /\ Escape(p) = p /\ Escape(f) = f
  BY <1>1, RowIs, SoloCell
<1>. HIDE DEF Q
<1>6. PICK cells : cells = <<n, d, i, m, t, u, p, f, s>>
  OBVIOUS
<1>7. cells = PCells(r)
  BY <1>4, <1>5, <1>6 DEF PCells
<1>8. cells \in Seq(Q) /\ cells # << >>
  BY <1>6
<1>9. [k \in DOMAIN cells |-> Escape(cells[k])] =
         <<Escape(n), Escape(d), Escape(i), Escape(m), Escape(t), Escape(u), Escape(p),
           Escape(f), Escape(s)>>
  BY <1>6
<1>10. LineOf(cells) = CsvLine(<<n, d, i, m, t, u, p, f, s>>)
  BY <1>4, <1>5, <1>9 DEF LineOf
<1>11. PLine(r) = CsvLine(<<n, d, i, m, t, u, p, f, s>>)
  BY <1>4, <1>5 DEF PLine
<1>. QED BY <1>7, <1>8, <1>10, <1>11 DEF LinesTo, Q

TrimFun == [r \in Rec |-> RecOf(Trim(r.name), Trim(r.desc), r.tx)]

\* What importPortfoliosFromCsv makes of the cells of a row.
TrimmedCells(cells) == [k \in DOMAIN cells |-> Trim(cells[k])]
ReadRow(c) == [name |-> Cell(c, 1), desc |-> Cell(c, 2),
               tx |-> [isin |-> Value(c, 3), type |-> Value(c, 5),
                       units |-> Value(c, 6), price |-> Value(c, 7),
                       fees |-> Value(c, 8), notes |-> Cell(c, 9)]]

LEMMA RowRead ==
  ASSUME NEW r \in Rec, NEW c, c = TrimmedCells(PCells(r))
  PROVE  /\ ReadRow(c) = TrimFun[r] /\ Cell(c, 1) = Trim(r.name)
         /\ \A k \in {3, 5, 6, 7, 8} : Cell(c, k) # Empty
<1>1. PICK tx \in PRow : tx = r.tx
  BY GrpIs
<1>2. PICK n, d, i, m, t, u, p, f, s :
         /\ n = Trim(r.name) /\ d = Trim(r.desc) /\ s = tx.notes /\ Trim(tx.notes) = s
         /\ m = Trim(instruments[tx.isin].name)
         /\ i = <<tx.isin>> /\ t = <<tx.type>> /\ u = <<tx.units>>
         /\ p = <<tx.price>> /\ f = <<tx.fees>>
         /\ Trim(<<tx.isin>>) = i /\ Trim(<<tx.type>>) = t /\ Trim(<<tx.units>>) = u
         /\ Trim(<<tx.price>>) = p /\ Trim(<<tx.fees>>) = f
  BY <1>1, RowIs, SoloCell
<1>3. c = <<n, d, i, m, t, u, p, f, s>>
  <2>1. PICK a, b, e : a = r.name /\ b = r.desc /\ e = instruments[tx.isin].name
    OBVIOUS
  <2>2. PICK cells : cells = <<a, b, <<tx.isin>>, e, <<tx.type>>, <<tx.units>>, <<tx.price>>,
                              <<tx.fees>>, tx.notes>>
    OBVIOUS
  <2>3. cells = PCells(r)
    BY <1>1, <2>1, <2>2 DEF PCells
  <2>4. [k \in DOMAIN cells |-> Trim(cells[k])] =
           <<Trim(a), Trim(b), Trim(<<tx.isin>>), Trim(e), Trim(<<tx.type>>), Trim(<<tx.units>>),
             Trim(<<tx.price>>), Trim(<<tx.fees>>), Trim(tx.notes)>>
    BY <2>2
  <2>. QED BY <1>2, <2>1, <2>3, <2>4 DEF TrimmedCells
<1>4. /\ Cell(c, 1) = n /\ Cell(c, 2) = d /\ Cell(c, 3) = i /\ Cell(c, 5) = t
      /\ Cell(c, 6) = u /\ Cell(c, 7) = p /\ Cell(c, 8) = f /\ Cell(c, 9) = s
  BY <1>3 DEF Cell
<1>5. /\ i # Empty /\ t # Empty /\ u # Empty /\ p # Empty /\ f # Empty
      /\ i[1] = tx.isin /\ t[1] = tx.type /\ u[1] = tx.units
      /\ p[1] = tx.price /\ f[1] = tx.fees
  BY <1>2 DEF Empty
<1>6. /\ Value(c, 3) = tx.isin /\ Value(c, 5) = tx.type /\ Value(c, 6) = tx.units
      /\ Value(c, 7) = tx.price /\ Value(c, 8) = tx.fees
  BY <1>4, <1>5 DEF Value
<1>7. [isin |-> tx.isin, type |-> tx.type, units |-> tx.units, price |-> tx.price,
       fees |-> tx.fees, notes |-> s] = tx
  BY <1>2, RowIs
<1>8. ReadRow(c) = RecOf(n, d, tx)
  BY <1>4, <1>6, <1>7 DEF ReadRow, RecOf
<1>9. TrimFun[r] = RecOf(n, d, tx)
  BY <1>1, <1>2 DEF TrimFun
<1>. QED BY <1>2, <1>4, <1>5, <1>8, <1>9

\* The rows that exportPortfoliosCsv writes, and those of which the name is not blank.
NRec == {r \in Rec : Trim(r.name) # Empty}
EntsOf(p) == [j \in DOMAIN p.rows |-> RecOf(p.name, p.desc, p.rows[j])]
EntsFun == [p \in Led |-> EntsOf(p)]
Ents(file) == FlattenSeq(MapBy(EntsFun, file))

CellFun == [r \in Rec |-> PCells(r)]
PLineFun == [r \in NRec |-> PLine(r)]
TrimNamed == [r \in NRec |-> TrimFun[r]]

WrittenAs(name, desc, tx) ==
    CsvLine(<<EscapeLabel(name), EscapeLabel(desc), <<tx.isin>>,
              EscapeLabel(instruments[tx.isin].name), <<tx.type>>, <<tx.units>>,
              <<tx.price>>, <<tx.fees>>, EscapeLabel(tx.notes)>>)

LEMMA EntsOfIs ==
  ASSUME NEW p \in Led
  PROVE  /\ EntsOf(p) \in Seq(NRec) /\ RecsOf(p) = MapBy(TrimNamed, EntsOf(p))
         /\ [j \in DOMAIN p.rows |-> WrittenAs(p.name, p.desc, p.rows[j])]
              = MapBy(PLineFun, EntsOf(p))
<1>1. PICK rows \in Seq(PRow), n \in Seq(NameChar), d \in Seq(PlainChar) :
         rows = p.rows /\ n = p.name /\ d = p.desc /\ Trim(n) # Empty
  BY GrpIs DEF Led
<1>2. PICK es : es = [j \in DOMAIN rows |-> RecOf(n, d, rows[j])]
  OBVIOUS
<1>3. es = EntsOf(p)
  BY <1>1, <1>2 DEF EntsOf
<1>4. DOMAIN es = DOMAIN rows /\ \A j \in DOMAIN rows : rows[j] \in PRow /\ es[j] = RecOf(n, d, rows[j])
  BY <1>2
<1>5. \A j \in DOMAIN rows : /\ es[j] \in Rec /\ es[j] \in NRec
                             /\ es[j].name = n /\ es[j].desc = d /\ es[j].tx = rows[j]
  BY <1>1, <1>4, RecIs DEF NRec
<1>6. es \in Seq(NRec)
  <2>1. DOMAIN rows = 1..Len(rows) /\ Len(rows) \in Nat
    OBVIOUS
  <2>. QED BY <1>2, <1>5, <2>1
<1>7. \A j \in DOMAIN rows : TrimNamed[es[j]] = RecOf(Trim(n), Trim(d), rows[j])
  BY <1>5 DEF TrimNamed, TrimFun
<1>8. RecsOf(p) = MapBy(TrimNamed, es)
  BY <1>1, <1>4, <1>7 DEF RecsOf, MapBy
<1>9. \A j \in DOMAIN rows : PLineFun[es[j]] = WrittenAs(n, d, rows[j])
  BY <1>5 DEF PLineFun, PLine, WrittenAs
<1>10. MapBy(PLineFun, es) = [j \in DOMAIN rows |-> WrittenAs(n, d, rows[j])]
  BY <1>4, <1>9 DEF MapBy
<1>. QED BY <1>1, <1>3, <1>6, <1>8, <1>10

LEMMA EntsIs ==
  ASSUME NEW file \in Seq(Led)
  PROVE  /\ Ents(file) \in Seq(NRec)
         /\ Recs(file) = MapBy(TrimNamed, Ents(file))
         /\ PortfolioCsv(file) = CsvFile(MapBy(PLineFun, Ents(file)))
<1> DEFINE Q == Seq(NRec)
           Written(p) == [j \in DOMAIN p.rows |-> WrittenAs(p.name, p.desc, p.rows[j])]
<1>1. \A p \in Led : /\ EntsFun[p] = EntsOf(p) /\ EntsFun[p] \in Q
                     /\ RecsFun[p] = MapBy(TrimNamed, EntsOf(p))
                     /\ Written(p) = MapBy(PLineFun, EntsOf(p))
  BY EntsOfIs DEF EntsFun, RecsFun
<1>2. PICK ss \in Seq(Q) : ss = MapBy(EntsFun, file)
  <2>. HIDE DEF Q, Written
  <2>. QED BY <1>1, MapTyped
<1>3. Ents(file) \in Seq(NRec) /\ Ents(file) = FlattenSeq(ss)
  BY <1>2, FlattenTyped DEF Ents
<1>4. DOMAIN ss = DOMAIN file /\ \A k \in DOMAIN file : file[k] \in Led /\ ss[k] = EntsOf(file[k])
  <2>1. \A k \in DOMAIN file : file[k] \in Led
    OBVIOUS
  <2>. HIDE DEF Q, Written
  <2>. QED BY <1>1, <1>2, <2>1 DEF MapBy
<1>. HIDE DEF Written
<1>5. MapBy(RecsFun, file) = [k \in DOMAIN ss |-> MapBy(TrimNamed, ss[k])]
  <2>1. \A k \in DOMAIN file : RecsFun[file[k]] = MapBy(TrimNamed, ss[k])
    BY <1>1, <1>4
  <2>. QED BY <1>4, <2>1 DEF MapBy
<1>6. [k \in DOMAIN file |-> Written(file[k])] = [k \in DOMAIN ss |-> MapBy(PLineFun, ss[k])]
  <2>1. \A k \in DOMAIN file : Written(file[k]) = MapBy(PLineFun, ss[k])
    BY <1>1, <1>4
  <2>. QED BY <1>4, <2>1
<1>7. FlattenSeq([k \in DOMAIN ss |-> MapBy(TrimNamed, ss[k])]) = MapBy(TrimNamed, FlattenSeq(ss))
  <2>1. TrimNamed \in [NRec -> {TrimFun[r] : r \in NRec}]
    BY DEF TrimNamed
  <2>. QED BY <2>1, FlattenMapped
<1>8. FlattenSeq([k \in DOMAIN ss |-> MapBy(PLineFun, ss[k])]) = MapBy(PLineFun, FlattenSeq(ss))
  <2>1. PLineFun \in [NRec -> {PLine(r) : r \in NRec}]
    BY DEF PLineFun
  <2>. QED BY <2>1, FlattenMapped
<1>9. PortfolioCsv(file) = CsvFile(FlattenSeq([k \in DOMAIN file |-> Written(file[k])]))
  BY DEF PortfolioCsv, Mapped, Written, WrittenAs
<1>10. Recs(file) = MapBy(TrimNamed, Ents(file))
  BY <1>3, <1>5, <1>7 DEF Recs
<1>11. PortfolioCsv(file) = CsvFile(MapBy(PLineFun, Ents(file)))
  BY <1>3, <1>6, <1>8, <1>9
<1>. QED BY <1>3, <1>10, <1>11

HeadRow == <<<<Header>>>>
LineTo == [c \in LinesTo(PChar) |-> LineOf(c)]

LEMMA HeadRowIs ==
  HeadRow \in LinesTo(PChar) /\ LineOf(HeadRow) = <<Header>>
  /\ CsvOf(PChar) /\ Newline \in PChar
<1>1. PICK x \in Seq(PChar) : x = <<Header>> /\ Escape(x) = x
  BY SoloCell DEF Solo
<1>2. <<x>> \in Seq(Seq(PChar)) /\ <<x>> # << >>
  <2>1. PICK Q : Q = Seq(PChar)
    OBVIOUS
  <2>2. <<x>> \in Seq(Q) /\ <<x>> # << >>
    BY <2>1
  <2>. QED BY <2>1, <2>2
<1>3. CsvOf(PChar) /\ Newline \in PChar
  BY DEF CsvOf, PChar
<1>4. LineOf(<<x>>) = x
  BY <1>1, <1>3, LineNext
<1>. QED BY <1>1, <1>2, <1>3, <1>4 DEF HeadRow, LinesTo

\* The file holds the header and the cells of each row.
LEMMA CsvIsText ==
  ASSUME NEW es \in Seq(NRec)
  PROVE  /\ MapBy(CellFun, es) \in Seq(LinesTo(PChar))
         /\ <<HeadRow>> \o MapBy(CellFun, es) \in Seq(LinesTo(PChar))
         /\ CsvFile(MapBy(PLineFun, es)) = TextOf(<<HeadRow>> \o MapBy(CellFun, es))
<1> DEFINE L == LinesTo(PChar)
<1>1. \A r \in NRec : CellFun[r] \in L /\ PLineFun[r] = LineTo[CellFun[r]]
  BY RowLine DEF NRec, CellFun, PLineFun, LineTo
<1>2. HeadRow \in L /\ LineTo[HeadRow] = <<Header>>
  BY HeadRowIs DEF LineTo
<1>3. \A c \in L : LineTo[c] = LineOf(c)
  BY DEF LineTo
<1>. HIDE DEF L
<1>4. PICK cs \in Seq(L) : cs = MapBy(CellFun, es)
  BY <1>1, MapTyped
<1>5. PICK hs \in Seq(L) : hs = <<HeadRow>>
  <2>1. PICK h \in L : h = HeadRow
    BY <1>2
  <2>2. <<h>> \in Seq(L)
    OBVIOUS
  <2>. QED BY <2>1, <2>2
<1>6. PICK rs \in Seq(L) : rs = hs \o cs
  BY ConcatIs
<1>7. MapBy(LineTo, rs) = MapBy(LineTo, hs) \o MapBy(LineTo, cs)
  BY <1>6, MapConcat
<1>8. MapBy(LineTo, hs) = <<<<Header>>>>
  <2>1. PICK h \in L : h = HeadRow
    BY <1>2
  <2>2. \A f : [k \in DOMAIN <<h>> |-> f[<<h>>[k]]] = <<f[h]>>
    OBVIOUS
  <2>. QED BY <1>2, <1>5, <2>1, <2>2 DEF MapBy
<1>9. MapBy(LineTo, cs) = MapBy(PLineFun, es)
  <2>1. \A k \in DOMAIN es : es[k] \in NRec
    OBVIOUS
  <2>. QED BY <1>1, <1>4, <2>1 DEF MapBy
<1>10. MapBy(LineTo, rs) = [k \in DOMAIN rs |-> LineOf(rs[k])]
  <2>1. \A k \in DOMAIN rs : rs[k] \in L
    OBVIOUS
  <2>. QED BY <1>3, <2>1 DEF MapBy
<1>11. CsvFile(MapBy(PLineFun, es)) = TextOf(rs)
  BY <1>7, <1>8, <1>9, <1>10 DEF CsvFile, TextOf
<1>. QED BY <1>4, <1>5, <1>6, <1>11 DEF L

TrimRow == [c \in LinesTo(PChar) |-> TrimmedCells(c)]

\* The rows of a file are read with their cells trimmed, without the header.
LEMMA DataRowsAre ==
  ASSUME NEW es \in Seq(NRec)
  PROVE  DataRows(CsvFile(MapBy(PLineFun, es))) = MapBy(TrimRow, MapBy(CellFun, es))
<1> DEFINE L == LinesTo(PChar)
<1>1. PICK text : text = CsvFile(MapBy(PLineFun, es))
  OBVIOUS
<1>2. PICK cs \in Seq(L), rs \in Seq(L) :
         cs = MapBy(CellFun, es) /\ rs = <<HeadRow>> \o cs /\ text = TextOf(rs)
  BY <1>1, CsvIsText
<1>3. HeadRow \in L /\ \A c \in L : TrimRow[c] = TrimmedCells(c)
  BY HeadRowIs DEF TrimRow
<1>. HIDE DEF L
<1>4. PICK h \in L : h = HeadRow
  BY <1>3
<1>5. /\ rs # << >>
      /\ \A k \in DOMAIN rs : rs[k] = h \/ \E j \in DOMAIN cs : rs[k] = cs[j]
  BY <1>2, <1>4, HeadAndTail
<1>6. Parse(text) = rs
  <2>1. rs \in Seq(LinesTo(PChar))
    BY DEF L
  <2>. QED BY <1>2, <1>5, <2>1, HeadRowIs, RowsReadBack
<1> DEFINE filled == {m \in DOMAIN rs : \E k \in DOMAIN rs[m] : Trim(rs[m][k]) # Empty}
<1>7. DOMAIN rs \subseteq filled
  <2>1. \E k \in DOMAIN h : Trim(h[k]) # Empty
    <3>1. Trim(<<Header>>) # Empty
      <4>1. Header \in Solo
        BY DEF Solo
      <4>2. Trim(<<Header>>) = <<Header>>
        BY <4>1, SoloCell
      <4>3. <<Header>> # Empty
        BY DEF Empty
      <4>. QED BY <4>2, <4>3
    <3>2. 1 \in DOMAIN h /\ h[1] = <<Header>>
      BY <1>4 DEF HeadRow
    <3>. QED BY <3>1, <3>2
  <2>2. ASSUME NEW j \in DOMAIN cs PROVE \E k \in DOMAIN cs[j] : Trim(cs[j][k]) # Empty
    <3>1. j \in DOMAIN es /\ es[j] \in NRec /\ es[j] \in Rec /\ cs[j] = CellFun[es[j]]
      BY <1>2 DEF MapBy, NRec
    <3>2. cs[j] = PCells(es[j]) /\ Trim(es[j].name) # Empty
      BY <3>1 DEF CellFun, NRec
    <3>3. 1 \in DOMAIN cs[j] /\ cs[j][1] = es[j].name
      BY <3>2 DEF PCells
    <3>. QED BY <3>2, <3>3
  <2>3. \A m \in DOMAIN rs : m \in filled
    BY <1>5, <2>1, <2>2
  <2>. QED BY <2>3
<1>. HIDE DEF filled
<1>8. Selected(rs, filled) = rs
  BY <1>7, SelectedWhole
<1>9. Mapped(rs, LAMBDA cells : [k \in DOMAIN cells |-> Trim(cells[k])]) = MapBy(TrimRow, rs)
  <2>1. \A k \in DOMAIN rs : rs[k] \in L
    OBVIOUS
  <2>2. \A k \in DOMAIN rs : TrimRow[rs[k]] = TrimmedCells(rs[k])
    BY <1>3, <2>1
  <2>. QED BY <2>2 DEF Mapped, MapBy, TrimmedCells
<1>10. Tail(MapBy(TrimRow, rs)) = MapBy(TrimRow, cs)
  <2>1. PICK hs \in Seq(L) : hs = <<h>>
    <3>1. <<h>> \in Seq(L)
      OBVIOUS
    <3>. QED BY <3>1
  <2>2. MapBy(TrimRow, hs \o cs) = MapBy(TrimRow, hs) \o MapBy(TrimRow, cs)
    BY MapConcat
  <2>3. MapBy(TrimRow, hs) = <<TrimRow[h]>>
    BY <2>1 DEF MapBy
  <2>4. PICK Q : \A c \in L : TrimRow[c] \in Q
    <3>1. \A c \in L : TrimRow[c] \in {TrimRow[b] : b \in L}
      OBVIOUS
    <3>. QED BY <3>1
  <2>5. PICK ms \in Seq(Q), t \in Q : ms = MapBy(TrimRow, cs) /\ t = TrimRow[h]
    BY <2>4, MapTyped
  <2>6. Tail(<<t>> \o ms) = ms
    BY HeadAndTail
  <2>. QED BY <1>2, <1>4, <2>1, <2>2, <2>3, <2>5, <2>6
<1>11. DataRows(text) = Tail(Mapped(Selected(rs, filled),
                             LAMBDA cells : [k \in DOMAIN cells |-> Trim(cells[k])]))
  BY <1>6 DEF DataRows, filled
<1>. QED BY <1>1, <1>2, <1>8, <1>9, <1>10, <1>11

\* importPortfoliosFromCsv makes of the rows what exportPortfoliosCsv wrote, trimmed.
LEMMA RowsRead ==
  ASSUME NEW es \in Seq(NRec)
  PROVE  ReadPortfolios(CsvFile(MapBy(PLineFun, es))) = Grouped(MapBy(TrimNamed, es))
<1>1. PICK text : text = CsvFile(MapBy(PLineFun, es))
  OBVIOUS
<1>2. PICK rows : rows = MapBy(TrimRow, MapBy(CellFun, es)) /\ rows = DataRows(text)
  BY <1>1, DataRowsAre
<1>3. DOMAIN rows = DOMAIN es
  BY <1>2 DEF MapBy
<1>4. ASSUME NEW k \in DOMAIN es
      PROVE  /\ ReadRow(rows[k]) = TrimNamed[es[k]]
             /\ \A c \in {1, 3, 5, 6, 7, 8} : Cell(rows[k], c) # Empty
  <2>1. PICK r \in Rec : r = es[k] /\ r \in NRec
    BY DEF NRec
  <2>2. CellFun[r] = PCells(r) /\ PCells(r) \in LinesTo(PChar)
    BY RowLine DEF CellFun
  <2>3. rows[k] = TrimRow[CellFun[r]]
    BY <1>2, <2>1 DEF MapBy
  <2>4. rows[k] = TrimmedCells(PCells(r))
    BY <2>2, <2>3 DEF TrimRow
  <2>5. PICK c : c = rows[k]
    OBVIOUS
  <2>6. /\ ReadRow(c) = TrimFun[r] /\ Cell(c, 1) = Trim(r.name)
        /\ \A j \in {3, 5, 6, 7, 8} : Cell(c, j) # Empty
    BY <2>4, <2>5, RowRead
  <2>7. Trim(r.name) # Empty /\ TrimNamed[r] = TrimFun[r]
    BY <2>1 DEF NRec, TrimNamed
  <2>. QED BY <2>1, <2>5, <2>6, <2>7
<1>5. [k \in DOMAIN rows |-> ReadRow(rows[k])] = MapBy(TrimNamed, es)
  BY <1>3, <1>4 DEF MapBy
<1>6. ~ \E k \in DOMAIN rows : \E c \in {1, 3, 5, 6, 7, 8} : Cell(rows[k], c) = Empty
  BY <1>3, <1>4
<1>7. ReadPortfolios(text) = Grouped([k \in DOMAIN rows |-> ReadRow(rows[k])])
  BY <1>2, <1>6 DEF ReadPortfolios, Mapped, ReadRow
<1>. QED BY <1>1, <1>5, <1>7

LEMMA CsvRead ==
  ASSUME NEW file \in Seq(Led)
  PROVE  ReadPortfolios(PortfolioCsv(file)) = Grouped(Recs(file))
<1>1. PICK es \in Seq(NRec) : /\ es = Ents(file) /\ Recs(file) = MapBy(TrimNamed, es)
                              /\ PortfolioCsv(file) = CsvFile(MapBy(PLineFun, es))
  BY EntsIs
<1>. QED BY <1>1, RowsRead

\* Texts of given characters that have none of those that csvEscape quotes.
LEMMA UnquotedTyped ==
  ASSUME NEW C, NEW text \in Seq(C), Unquoted(text)
  PROVE  text \in Seq(C \ {Comma, Quote, Newline, Backslash})
<1>1. PICK U : U = C \ {Comma, Quote, Newline, Backslash}
  OBVIOUS
<1>2. \A k \in DOMAIN text : text[k] \in C /\ text[k] \in ToSet(text)
  BY DEF ToSet
<1>3. \A k \in DOMAIN text : text[k] \in U
  BY <1>1, <1>2 DEF Unquoted, Special
<1>4. text \in Seq(U)
  BY <1>3
<1>. QED BY <1>1, <1>4

\* A transaction of a portfolio that csvEscape leaves as it is.
LEMMA PlainRow ==
  ASSUME CatalogueOK, NEW tx \in Row, instruments[tx.isin] # None, Unquoted(tx.notes),
         Trim(tx.notes) = tx.notes, Unquoted(instruments[tx.isin].name)
  PROVE  tx \in PRow
<1>1. tx.notes \in Seq(LabelChar) /\ tx.isin \in Isin
  BY RowTyped, LabelTyped
<1>2. tx.notes \in Seq(PlainChar)
  BY <1>1, UnquotedTyped DEF PlainChar
<1>3. PICK name \in Prose : name = instruments[tx.isin].name
  <2>1. instruments[tx.isin] \in [name : Prose, ext : Ext \cup {Empty}]
    BY <1>1 DEF CatalogueOK
  <2>. QED BY <2>1
<1>4. PICK P : P = AnyChar
  OBVIOUS
<1>5. name \in Seq(P)
  <2>1. PICK S : S = ToSet(name) /\ name \in Seq(S)
    BY ExchangeAssumption
  <2>2. S \subseteq P
    BY <1>4, <2>1 DEF AnyChar
  <2>. QED BY <2>1, <2>2
<1>6. name \in Seq(ProseChar)
  <2>1. Unquoted(name)
    BY <1>3
  <2>2. name \in Seq(P \ {Comma, Quote, Newline, Backslash})
    BY <1>5, <2>1, UnquotedTyped
  <2>3. ProseChar = P \ {Comma, Quote, Newline, Backslash}
    BY <1>4 DEF ProseChar
  <2>. QED BY <2>2, <2>3
<1>. QED BY <1>2, <1>3, <1>6 DEF PRow

LEMMA PlainLedger ==
  ASSUME CatalogueOK, NEW p, LedgerOK(p), PlainPortfolio(p)
  PROVE  p \in Led
<1>1. p.name \in Seq(PlainChar) /\ p.desc \in Seq(PlainChar)
  BY UnquotedTyped DEF LedgerOK, PlainPortfolio, PlainChar
<1>2. p.name \in Seq(NameChar)
  <2>1. PICK name \in Seq(PlainChar) : name = p.name
    BY <1>1
  <2>2. \A k \in DOMAIN name : name[k] \in PlainChar /\ name[k] \in ToSet(name)
    BY DEF ToSet
  <2>3. \A k \in DOMAIN name : name[k] \in NameChar
    BY <2>1, <2>2 DEF PlainPortfolio, NameChar
  <2>. QED BY <2>1, <2>3
<1>3. PICK rows \in Seq(Row) : rows = p.rows /\ \A k \in DOMAIN rows : instruments[rows[k].isin] # None
  BY DEF LedgerOK
<1>4. \A k \in DOMAIN rows : rows[k] \in PRow
  <2>. SUFFICES ASSUME NEW k \in DOMAIN rows PROVE rows[k] \in PRow
    OBVIOUS
  <2>1. PICK tx \in Row : tx = rows[k]
    OBVIOUS
  <2>2. /\ instruments[tx.isin] # None /\ Unquoted(tx.notes)
        /\ Trim(tx.notes) = tx.notes /\ Unquoted(instruments[tx.isin].name)
    BY <1>3, <2>1 DEF PlainPortfolio
  <2>. QED BY <2>1, <2>2, PlainRow
<1>5. rows \in Seq(PRow)
  BY <1>4
<1>6. p = GrpOf(p.name, p.desc, p.rows)
  BY DEF LedgerOK, GrpOf
<1>7. p \in Grp
  BY <1>1, <1>2, <1>3, <1>5, <1>6, GrpIs
<1>. QED BY <1>7 DEF Led, PlainPortfolio

\* A user who exports portfolios as CSV and imports the file gets, for each name and
\* description, the transactions that the JSON gives, however many portfolios and
\* rows there are: csvEscape, join, parseCsv and the grouping of
\* portfolios.service.ts undo each other up to the trimming of names and descriptions.
\* It takes texts that csvEscape leaves as they are, for it does not close the quotes
\* that it opens, names that are not blank and have no bar, and notes that trim does
\* not change.
THEOREM FormatsAgree == Spec => []PlainCsvAgrees
<1>1. ASSUME CatalogueOK, LedgersOK,
             \A k \in DOMAIN PortfolioFile : PlainPortfolio(PortfolioFile[k])
      PROVE  PortfolioFile \in Seq(Led)
  <2> DEFINE P == {portfolios[s] : s \in Slot}
  <2>1. PICK file \in Seq(P) : file = PortfolioFile /\ \A k \in DOMAIN file : LedgerOK(file[k])
    BY <1>1, FileOK
  <2>. HIDE DEF P
  <2>2. \A k \in DOMAIN file : file[k] \in Led
    BY <1>1, <2>1, PlainLedger
  <2>. QED BY <2>1, <2>2, SeqWithin
<1>2. CatalogueOK /\ LedgersOK => PlainCsvAgrees
  BY <1>1, CsvRead, FormatsGive DEF PlainCsvAgrees, CsvAgreesWithJson
<1>3. Init => LedgersOK
  BY DEF Init, LedgersOK
<1>4. CatalogueOK /\ JobInv /\ LedgersOK /\ [Next]_vars
        => CatalogueOK' /\ JobInv' /\ LedgersOK'
  BY NextCatalogue, NextJob, NextLedgers DEF JobInv
<1>. QED BY InitTypes, <1>2, <1>3, <1>4, PTL DEF Spec

================================================================================
