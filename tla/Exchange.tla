------------------------------- MODULE Exchange --------------------------------
(***************************************************************************)
(* Export and import of instruments, allocation templates and portfolios   *)
(* as JSON and CSV.                                                        *)
(*                                                                         *)
(* A text is a sequence of characters; only the characters that the CSV    *)
(* writers and readers look at are told apart.  A column that never needs  *)
(* quotes is one character, its value; columns that are treated alike      *)
(* stand for one another (the type of a transaction for its dates,         *)
(* externalIds for the other columns of an instrument).  Bound: no text    *)
(* has a carriage return, which the two parsers treat differently.         *)
(*                                                                         *)
(* Instruments and templates are imported row by row, each row looked up   *)
(* and stored in statements of its own, between which other requests run.  *)
(* Portfolios are imported in one database transaction.                    *)
(***************************************************************************)
EXTENDS Integers, SequencesExt, FiniteSetsExt

CONSTANTS
    Comma, Quote, Newline, Space, Backslash, Bar,   \* the characters told apart
    Header,         \* the first line of a CSV file
    Isin,           \* ISINs of instruments
    Code,           \* codes of templates
    Slot,           \* bounds the number of portfolios
    MaxRows,        \* bounds the number of transactions of all portfolios
    Label,          \* names and descriptions of portfolios
    Prose,          \* names of instruments and descriptions of templates
    Ext,            \* externalIds of instruments, as JSON
    Row,            \* transactions that requests put into the ledger
    InstrumentFile, \* files of instruments that users import, parsed
    TemplateFile,   \* files of templates that users import, parsed
    Whole,          \* what the weights of a template must add up to
    NaN,            \* what Number() makes of a text that is no number
    None            \* no instrument, template, portfolio or import

Empty == << >>

Blank == {Space, Newline}

\* String.trim
Trim(text) ==
    LET kept == {k \in DOMAIN text : text[k] \notin Blank}
    IN  IF kept = {} THEN Empty ELSE SubSeq(text, Min(kept), Max(kept))

TransactionType == {"BUY", "SELL", "SWITCH", "DIVIDEND_REINVEST", "FEE_CONSOLIDATION"}

Transaction == [isin : Isin, type : TransactionType, units : Int, price : Int, fees : Int,
                notes : Label]

\* The items of a template; a weight is a number or what was read for one.
Items == Seq([isin : Isin, weight : Int \cup {NaN}])

\* What a template has for its description.
Description == {Trim(text) : text \in Prose}

\* The rows of a file that is imported; any of them may lack its key.
InstrumentRow == [isin : Isin \cup {None}, name : Prose, ext : Ext, legal : BOOLEAN]
FileItems     == Seq([isin : Isin \cup {None}, weight : Int \cup {NaN}])
TemplateRow   == [code : Code \cup {None}, desc : Prose, items : FileItems]
AnyFile       == Seq(InstrumentRow) \cup Seq(TemplateRow)

\* An import that is running: the rest of its rows, whether the next one is to be
\* looked up or stored, and the items that were looked up for it.  reported are the
\* ISINs or codes skipped and the ISINs that are missing; quiet, auxiliary, tells
\* that nobody has changed the tables since the import began.
Job == [kind : {"instruments", "templates"}, file : AnyFile, rest : AnyFile,
        step : {"look", "store"}, items : Items,
        reported : SUBSET (Isin \cup Code \cup {None}), quiet : BOOLEAN]

ASSUME ExchangeAssumption ==
    /\ IsFiniteSet(Slot) /\ IsFiniteSet(Isin) /\ IsFiniteSet(Code)
    /\ \A text \in Label \cup Prose \cup Ext : text \in Seq(ToSet(text))
    /\ \A text \in Ext : Newline \notin ToSet(text) /\ (text # Empty => Last(text) # Space)
    /\ {Comma, Quote, Header, Backslash, Bar} \cap {Newline, Space} = {}
    /\ Comma # Quote /\ {Header, Backslash, Bar} \cap {Comma, Quote} = {}
    /\ Backslash # Bar /\ Header \notin {Backslash, Bar}
    /\ \A ch \in {Comma, Quote, Newline, Space, Backslash} :
         ch \notin Isin \cup Code \cup Int \cup {NaN} \cup TransactionType
    /\ Row \subseteq Transaction
    /\ InstrumentFile \subseteq Seq(InstrumentRow)
    /\ TemplateFile \subseteq Seq(TemplateRow)
    /\ None \notin Isin \cup Code \cup Job
    /\ None \notin [name : Prose, ext : Ext \cup {Empty}]
    /\ None \notin [desc : Description, items : Items]

VARIABLES
    instruments,  \* the table instruments: name and externalIds, by ISIN
    templates,    \* the table allocation_templates with its items, by code
    portfolios,   \* the tables portfolios and transactions
    job           \* the import of instruments or templates that is running

vars == <<instruments, templates, portfolios, job>>

--------------------------------------------------------------------------------
(* Writing and reading CSV.                                                     *)

Doubled(text) ==
    FlattenSeq([k \in DOMAIN text |->
                  IF text[k] = Quote THEN <<Quote, Quote>> ELSE <<text[k]>>])

Special == {Comma, Quote, Newline}

NeedsQuotes(text) == ToSet(text) \cap Special # {}

\* Mutant of Escape: the quotes of the text are not doubled.
EscapeUndoubled(text) ==
    IF NeedsQuotes(text) THEN <<Quote>> \o text \o <<Quote>> ELSE text

\* csvEscape of instruments and templates
Escape(text) ==
    IF NeedsQuotes(text) THEN <<Quote>> \o Doubled(text) \o <<Quote>> ELSE text

\* csvEscape of portfolios, which takes a backslash for a reason to quote as well and
\* does not close the quotes
EscapeLabel(text) ==
    IF ToSet(text) \cap (Special \cup {Backslash}) # {}
    THEN <<Quote>> \o Doubled(text) ELSE text

JoinedBy(sep, texts) ==
    FlattenSeq([k \in DOMAIN texts |-> IF k = 1 THEN texts[k] ELSE <<sep>> \o texts[k]])

CsvLine(cells) == JoinedBy(Comma, cells)
CsvFile(lines) == JoinedBy(Newline, <<<<Header>>>> \o lines)

\* One character read by parseCsv or parseCsvLine.  A quote inside quotes ends
\* them unless the next character is a quote as well (over is that quote, read).
Scan(st, ch) ==
    LET add(c) == [st EXCEPT !.cur = Append(@, c), !.over = FALSE]
        cell   == [st EXCEPT !.row = Append(@, st.cur), !.cur = Empty, !.over = FALSE]
    IN  IF st.quoted
        THEN IF ch = Quote THEN [st EXCEPT !.quoted = FALSE, !.over = TRUE] ELSE add(ch)
        ELSE IF ch = Quote /\ st.over THEN [add(ch) EXCEPT !.quoted = TRUE]
        ELSE IF ch = Quote THEN [st EXCEPT !.quoted = TRUE]
        ELSE IF ch = Comma THEN cell
        ELSE IF ch = Newline
        THEN [cell EXCEPT !.rows = Append(@, cell.row), !.row = << >>]
        ELSE add(ch)

Unread == [rows |-> << >>, row |-> << >>, cur |-> Empty, quoted |-> FALSE, over |-> FALSE]

\* The rows of a text, and the last one, which no newline ends.
Parse(text) ==
    LET st == FoldLeft(Scan, Unread, text) IN Append(st.rows, Append(st.row, st.cur))

\* What a sequence has at the places ks, as SelectSeq gives it.
Selected(s, ks) ==
    LET upTo[n \in 0..Len(s)] ==
            IF n = 0 THEN << >>
            ELSE IF n \in ks THEN Append(upTo[n - 1], s[n]) ELSE upTo[n - 1]
    IN  upTo[Len(s)]

\* One character read by split('\n').
Split(lines, ch) ==
    IF ch = Newline THEN Append(lines, Empty)
    ELSE [lines EXCEPT ![Len(lines)] = Append(@, ch)]

\* The lines of a text, each trimmed, empty ones and the header dropped: whether a
\* newline is inside quotes does not matter.
DataLines(text) ==
    LET lines   == FoldLeft(Split, <<Empty>>, text)
        trimmed == [k \in DOMAIN lines |-> Trim(lines[k])]
    IN  Tail(Selected(trimmed, {k \in DOMAIN trimmed : trimmed[k] # Empty}))

Cell(cells, k) == IF k \in DOMAIN cells THEN cells[k] ELSE Empty

\* The value of a cell that needs no quotes.
Value(cells, k) == IF Cell(cells, k) = Empty THEN None ELSE Cell(cells, k)[1]

Mapped(s, F(_)) == [k \in DOMAIN s |-> F(s[k])]

\* parseCsv of portfolios: cells are trimmed, blank rows and the header dropped.
DataRows(text) ==
    LET parsed == Parse(text)
        filled == {n \in DOMAIN parsed : \E k \in DOMAIN parsed[n] : Trim(parsed[n][k]) # Empty}
    IN  Tail(Mapped(Selected(parsed, filled),
                    LAMBDA cells : [k \in DOMAIN cells |-> Trim(cells[k])]))

SumOf(numbers) == FoldLeft(LAMBDA sum, n : sum + n, 0, numbers)

--------------------------------------------------------------------------------
(* Portfolios.                                                                  *)

\* exportPortfoliosJson; portfolios are ordered by name, here in any order.
PortfolioFile ==
    Mapped(SetToSeq({s \in Slot : portfolios[s] # None}), LAMBDA s : portfolios[s])

\* exportPortfoliosCsv: a line for each transaction.
PortfolioCsv(file) ==
    LET line(p, tx) == CsvLine(<<EscapeLabel(p.name), EscapeLabel(p.desc), <<tx.isin>>,
                                 EscapeLabel(instruments[tx.isin].name), <<tx.type>>,
                                 <<tx.units>>, <<tx.price>>, <<tx.fees>>,
                                 EscapeLabel(tx.notes)>>)
    IN  CsvFile(FlattenSeq(Mapped(file, LAMBDA p : Mapped(p.rows, LAMBDA tx : line(p, tx)))))

\* Mutant of ValidRow: no type may have negative units.
ValidRowPositive(tx) ==
    /\ tx.type \in TransactionType
    /\ {tx.units, tx.price, tx.fees} \subseteq Int
    /\ tx.units > 0 /\ tx.price > 0 /\ tx.fees >= 0

\* A FEE_CONSOLIDATION may take units away, any other type has positive units; prices
\* are positive and fees not negative, and what is no number is refused.
ValidRow(tx) ==
    /\ tx.type \in TransactionType
    /\ {tx.units, tx.price, tx.fees} \subseteq Int
    /\ tx.units # 0 /\ (tx.type = "FEE_CONSOLIDATION" \/ tx.units > 0)
    /\ tx.price > 0 /\ tx.fees >= 0

\* importPortfoliosData: always new portfolios, with the rows that are valid and
\* whose instrument exists; refused when no portfolio has a name.
ImportedPortfolios(file) ==
    LET named == Selected(file, {k \in DOMAIN file : Trim(file[k].name) # Empty})
        taken(p) == Selected(p.rows, {k \in DOMAIN p.rows : LET tx == p.rows[k] IN
                        tx.isin \in Isin /\ instruments[tx.isin] # None /\ ValidRow(tx)})
    IN  Mapped(named, LAMBDA p : [name |-> Trim(p.name), desc |-> p.desc, rows |-> taken(p)])

\* Mutant of Grouped: the description is not part of the key.
GroupedByName(rows) ==
    FoldLeft(LAMBDA acc, r :
        LET same == {k \in DOMAIN acc : acc[k].name = r.name}
        IN  IF same # {} THEN [acc EXCEPT ![Min(same)].rows = Append(@, r.tx)]
            ELSE Append(acc, [name |-> r.name, desc |-> r.desc, rows |-> <<r.tx>>]), << >>, rows)

\* The key that rows are grouped by, a text in which name and description may run
\* into one another.
Key(p) == p.name \o <<Bar, Bar>> \o p.desc

\* One row read by importPortfoliosFromCsv: another transaction of the portfolio of
\* this key, or the first one of a new portfolio.
AddRow(ps, r) ==
    LET same == {k \in DOMAIN ps : Key(ps[k]) = Key(r)}
    IN  IF same # {} THEN [ps EXCEPT ![Min(same)].rows = Append(@, r.tx)]
        ELSE Append(ps, [name |-> r.name, desc |-> r.desc, rows |-> <<r.tx>>])

Grouped(rows) == FoldLeft(AddRow, << >>, rows)

\* A row that lacks a required cell refuses the file.
ReadPortfolios(text) ==
    LET rows == DataRows(text)
        read(c) == [name |-> Cell(c, 1), desc |-> Cell(c, 2),
                    tx |-> [isin |-> Value(c, 3), type |-> Value(c, 5),
                            units |-> Value(c, 6), price |-> Value(c, 7),
                            fees |-> Value(c, 8), notes |-> Cell(c, 9)]]
    IN  IF \E k \in DOMAIN rows : \E c \in {1, 3, 5, 6, 7, 8} : Cell(rows[k], c) = Empty
        THEN << >> ELSE Grouped(Mapped(rows, read))

--------------------------------------------------------------------------------
(* Instruments and templates.                                                   *)

InstrumentRows ==
    Mapped(SetToSeq({x \in Isin : instruments[x] # None}),
           LAMBDA x : [isin |-> x, name |-> instruments[x].name, ext |-> instruments[x].ext])

InstrumentCsv(file) ==
    CsvFile(Mapped(file, LAMBDA r : CsvLine(<<Escape(r.name), <<r.isin>>, Escape(r.ext)>>)))

ReadInstruments(text) ==
    Mapped(DataLines(text), LAMBDA line :
        LET c == Parse(line)[1]
        IN  [isin |-> Value(c, 2), name |-> Cell(c, 1), ext |-> Cell(c, 3)])

\* exportJson of templates; items is the sequence of the template's items.
TemplateRows ==
    Mapped(SetToSeq({c \in Code : templates[c] # None}),
           LAMBDA c : [code |-> c, desc |-> templates[c].desc, items |-> templates[c].items])

TemplateCsv(file) ==
    LET line(t, item) == CsvLine(<<<<t.code>>, Escape(t.desc), <<item.isin>>, <<item.weight>>>>)
    IN  CsvFile(FlattenSeq(Mapped(file, LAMBDA t :
                    Mapped(t.items, LAMBDA item : line(t, item)))))

\* One line read by importCsv: another item of a template that is there already, or the
\* first of a new one, whose description it gives.
AddItem(ts, c) ==
    LET item == [isin |-> Value(c, 3), weight |-> Value(c, 4)]
        same == {k \in DOMAIN ts : ts[k].code = Value(c, 1)}
    IN  IF same # {} THEN [ts EXCEPT ![Min(same)].items = Append(@, item)]
        ELSE Append(ts, [code |-> Value(c, 1), desc |-> Cell(c, 2), items |-> <<item>>])

\* Lines without code or ISIN are skipped.
ReadTemplates(text) ==
    LET lines == Mapped(DataLines(text), LAMBDA line : Parse(line)[1])
        legal == {k \in DOMAIN lines : Cell(lines[k], 1) # Empty /\ Cell(lines[k], 3) # Empty}
    IN  FoldLeft(AddItem, << >>, Selected(lines, legal))

Isins(items) == {items[k].isin : k \in DOMAIN items}

IsNumber(items) == \A k \in DOMAIN items : items[k].weight # NaN

WeightSum(items) ==
    IF IsNumber(items) THEN SumOf(Mapped(items, LAMBDA item : item.weight)) ELSE NaN

\* Math.abs(sum - 100) > 0.01 refuses a sum; of NaN it is false.
ValidItems(items) ==
    /\ items # << >>
    /\ Cardinality(Isins(items)) = Len(items)
    /\ WeightSum(items) \in {Whole, NaN}

\* The column has CHECK (weight > 0), which NaN passes.
Storable(items) == \A k \in DOMAIN items : items[k].weight # NaN => items[k].weight > 0

--------------------------------------------------------------------------------
Init ==
    /\ instruments = [x \in Isin |-> None]
    /\ templates = [c \in Code |-> None]
    /\ portfolios = [s \in Slot |-> None]
    /\ job = None

(* Imports of instruments and templates, row by row.                            *)

\* Bound: portfolios and templates are not there together; they never meet.
TemplatesAside  == job = None /\ \A c \in Code : templates[c] = None
PortfoliosAside == \A s \in Slot : portfolios[s] = None

Start(kind, file) ==
    /\ job = None /\ PortfoliosAside
    /\ job' = [kind |-> kind, file |-> file, rest |-> file, step |-> "look",
               items |-> << >>, reported |-> {}, quiet |-> TRUE]
    /\ UNCHANGED <<instruments, templates, portfolios>>

Running(kind, step) ==
    job # None /\ job.kind = kind /\ job.step = step /\ job.rest # << >>

Dropped == [job EXCEPT !.rest = Tail(@), !.step = "look", !.items = << >>]
Reported(what) == [Dropped EXCEPT !.reported = @ \cup what]
Storing(items) == [job EXCEPT !.step = "store", !.items = items]

\* A row without ISIN is passed over, an instrument that is there is skipped.
LookInstrument ==
    /\ Running("instruments", "look")
    /\ LET x == Head(job.rest).isin
       IN  job' = IF x = None THEN Dropped
                  ELSE IF instruments[x] # None THEN Reported({x}) ELSE Storing(<< >>)
    /\ UNCHANGED <<instruments, templates, portfolios>>

\* Mutant of StoreInstrument: an import overwrites what has the same key.
StoreInstrumentOver ==
    LET row == Head(job.rest) IN
    /\ Running("instruments", "store")
    /\ instruments' = [instruments EXCEPT ![row.isin] = [name |-> row.name, ext |-> row.ext]]
    /\ job' = Dropped
    /\ UNCHANGED <<templates, portfolios>>

StoreInstrument ==
    LET row == Head(job.rest) IN
    /\ Running("instruments", "store")
    /\ instruments[row.isin] = None /\ row.legal
    /\ instruments' = [instruments EXCEPT ![row.isin] = [name |-> row.name, ext |-> row.ext]]
    /\ job' = Dropped
    /\ UNCHANGED <<templates, portfolios>>

\* A unique violation or a value that no column takes ends the import with 500;
\* the rows before this one stay.
StoreInstrumentFails ==
    /\ Running("instruments", "store")
    /\ instruments[Head(job.rest).isin] # None \/ ~Head(job.rest).legal
    /\ job' = None
    /\ UNCHANGED <<instruments, templates, portfolios>>

\* What findOneBy({ isin }) may answer: without an ISIN it asks for any instrument.
Found(x) == {y \in Isin : instruments[y] # None /\ x \in {y, None}}

Missing(items) == {k \in DOMAIN items : Found(items[k].isin) = {}}

\* The items with the instruments found; any is the one for items without an ISIN.
Resolved(items, any) ==
    Mapped(items, LAMBDA item : IF item.isin = None THEN [item EXCEPT !.isin = any] ELSE item)

AnyInstrument == IF Found(None) = {} THEN {None} ELSE Found(None)

\* Mutant of LookTemplate: skip is not reset between rows.
LookTemplateSticky ==
    /\ Running("templates", "look")
    /\ \E any \in AnyInstrument : LET row == Head(job.rest)
       IN  job' = IF row.code = None THEN Dropped
                  ELSE IF templates[row.code] # None THEN Reported({row.code})
                  ELSE IF Missing(row.items) # {}
                  THEN Reported({row.items[Min(Missing(row.items))].isin})
                  ELSE IF job.reported \cap Isin # {} THEN Dropped
                  ELSE Storing(Resolved(row.items, any))
    /\ UNCHANGED <<instruments, templates, portfolios>>

\* A template without code is passed over, one that is there is skipped, and so
\* is one with an ISIN that is missing, the first of which is reported.
LookTemplate ==
    /\ Running("templates", "look")
    /\ \E any \in AnyInstrument : LET row == Head(job.rest)
       IN  job' = IF row.code = None THEN Dropped
                  ELSE IF templates[row.code] # None THEN Reported({row.code})
                  ELSE IF Missing(row.items) # {}
                  THEN Reported({row.items[Min(Missing(row.items))].isin})
                  ELSE Storing(Resolved(row.items, any))
    /\ UNCHANGED <<instruments, templates, portfolios>>

\* create, whose every error counts as a template skipped
StoreTemplate ==
    LET row == Head(job.rest)
        created == /\ templates[row.code] = None
                   /\ ValidItems(job.items) /\ Storable(job.items)
                   /\ \A x \in Isins(job.items) : instruments[x] # None
    IN
    /\ Running("templates", "store")
    /\ templates' = IF created
                    THEN [templates EXCEPT ![row.code] =
                            [desc |-> Trim(row.desc), items |-> job.items]]
                    ELSE templates
    /\ job' = IF created THEN Dropped ELSE Reported({row.code})
    /\ UNCHANGED <<instruments, portfolios>>

Done ==
    /\ job # None /\ job.rest = << >>
    /\ job' = None
    /\ UNCHANGED <<instruments, templates, portfolios>>

--------------------------------------------------------------------------------
(* What other requests do meanwhile.                                            *)

Disturb == job' = IF job = None THEN None ELSE [job EXCEPT !.quiet = FALSE]

CreateInstrument(x, name) ==
    /\ instruments[x] = None
    /\ instruments' = [instruments EXCEPT ![x] = [name |-> name, ext |-> Empty]]
    /\ Disturb
    /\ UNCHANGED <<templates, portfolios>>

\* Its items and transactions go with it.
DeleteInstrument(x) ==
    LET others(s) == Selected(s, {k \in DOMAIN s : s[k].isin # x}) IN
    /\ instruments[x] # None
    /\ instruments' = [instruments EXCEPT ![x] = None]
    /\ templates' = [c \in Code |->
           IF templates[c] = None THEN None ELSE [templates[c] EXCEPT !.items = others(@)]]
    /\ portfolios' = [s \in Slot |->
           IF portfolios[s] = None THEN None ELSE [portfolios[s] EXCEPT !.rows = others(@)]]
    /\ Disturb

CreateTemplate(row) ==
    /\ PortfoliosAside
    /\ row.code # None /\ templates[row.code] = None
    /\ ValidItems(row.items) /\ Storable(row.items) /\ IsNumber(row.items)
    /\ Isins(row.items) \subseteq {x \in Isin : instruments[x] # None}
    /\ templates' = [templates EXCEPT ![row.code] =
                        [desc |-> Trim(row.desc), items |-> row.items]]
    /\ Disturb
    /\ UNCHANGED <<instruments, portfolios>>

DeleteTemplate(c) ==
    /\ templates[c] # None
    /\ templates' = [templates EXCEPT ![c] = None]
    /\ Disturb
    /\ UNCHANGED <<instruments, portfolios>>

RowCount == SumOf(Mapped(PortfolioFile, LAMBDA p : Len(p.rows)))

CreatePortfolio(s, name, desc) ==
    /\ portfolios[s] = None /\ TemplatesAside
    /\ portfolios' = [portfolios EXCEPT ![s] = [name |-> name, desc |-> desc, rows |-> << >>]]
    /\ UNCHANGED <<instruments, templates, job>>

\* A transaction is created, or changed to an invalid one: an update that carries a
\* type and no units is not held to the sign of the units, and the body of no update
\* is validated, so that it can leave a price of zero or negative fees.
AddTransaction(s, tx) ==
    /\ portfolios[s] # None /\ RowCount < MaxRows
    /\ instruments[tx.isin] # None
    /\ portfolios' = [portfolios EXCEPT ![s].rows = Append(@, tx)]
    /\ UNCHANGED <<instruments, templates, job>>

DeletePortfolio(s) ==
    /\ portfolios[s] # None
    /\ portfolios' = [portfolios EXCEPT ![s] = None]
    /\ UNCHANGED <<instruments, templates, job>>

\* A user imports the file that was just exported: everything is there twice.
ImportPortfolios ==
    LET made == ImportedPortfolios(PortfolioFile)
        free == SetToSeq({s \in Slot : portfolios[s] = None})
    IN
    /\ made # << >> /\ Len(made) <= Len(free)
    /\ portfolios' = [s \in Slot |->
           IF \E k \in DOMAIN made : free[k] = s
           THEN made[CHOOSE k \in DOMAIN made : free[k] = s] ELSE portfolios[s]]
    /\ UNCHANGED <<instruments, templates, job>>

--------------------------------------------------------------------------------
Import ==
    \/ \E file \in InstrumentFile : Start("instruments", file)
    \/ \E file \in TemplateFile : Start("templates", file)
    \/ LookInstrument \/ StoreInstrument \/ StoreInstrumentFails
    \/ LookTemplate \/ StoreTemplate
    \/ Done

Next ==
    \/ Import
    \/ \E x \in Isin : DeleteInstrument(x) \/ \E name \in Prose : CreateInstrument(x, name)
    \/ \E file \in TemplateFile : \E k \in DOMAIN file : CreateTemplate(file[k])
    \/ \E c \in Code : DeleteTemplate(c)
    \/ \E s \in Slot :
         \/ \E name \in Label \ {Empty}, desc \in Label : CreatePortfolio(s, name, desc)
         \/ \E tx \in Row : AddTransaction(s, tx)
         \/ DeletePortfolio(s)
    \/ ImportPortfolios

Spec == Init /\ [][Next]_vars

--------------------------------------------------------------------------------
(* Properties.                                                                  *)

\* The transactions of a list of portfolios by their key, blanks aside.
RowsOf(list, name, desc) ==
    LET keyed == {k \in DOMAIN list : Trim(list[k].name) = name /\ Trim(list[k].desc) = desc}
    IN  ToBag(FlattenSeq(Mapped(Selected(list, keyed), LAMBDA p : p.rows)))

\* The two formats agree: a portfolio that is exported as CSV and imported again
\* gets the transactions that its JSON gives it.  The CSV has no line for a
\* portfolio without transactions, merges those of the same name and description
\* and trims its cells, which is all that may differ.  The code breaks this when a
\* text has a character that csvEscape quotes.
CsvAgreesWithJson ==
    LET json == ImportedPortfolios(PortfolioFile)
        csv  == ImportedPortfolios(ReadPortfolios(PortfolioCsv(PortfolioFile)))
        keys == {<<Trim(n), Trim(d)>> : n \in Label, d \in Label}
    IN  \A key \in keys : RowsOf(json, key[1], key[2]) = RowsOf(csv, key[1], key[2])

Unquoted(text) == ToSet(text) \cap (Special \cup {Backslash}) = {}

\* A portfolio that csvEscape leaves as it is and whose key tells its name.
PlainPortfolio(p) ==
    /\ Unquoted(p.name) /\ Unquoted(p.desc)
    /\ Trim(p.name) # Empty /\ Bar \notin ToSet(p.name)
    /\ \A k \in DOMAIN p.rows : LET tx == p.rows[k] IN
         /\ Unquoted(tx.notes) /\ Trim(tx.notes) = tx.notes
         /\ Unquoted(instruments[tx.isin].name)

\* The two formats agree on portfolios whose texts, and the names of whose
\* instruments, have none of the characters that csvEscape quotes and does not close;
\* names have no bar and are not blank, and notes do not begin or end with a blank.
PlainCsvAgrees ==
    (\A k \in DOMAIN PortfolioFile : PlainPortfolio(PortfolioFile[k])) => CsvAgreesWithJson

UnitsOf(list, x) ==
    SumOf(Mapped(FlattenSeq(Mapped(list, LAMBDA p : p.rows)),
                 LAMBDA tx : IF tx.isin = x THEN tx.units ELSE 0))

\* What CreateTransactionDto and the check of the units let through.
Legal(tx) ==
    /\ IF tx.type = "FEE_CONSOLIDATION" THEN tx.units # 0 ELSE tx.units > 0
    /\ tx.price > 0 /\ tx.fees >= 0

\* A ledger of transactions as TransactionsService creates them comes back whole from
\* its backup: imported again, its portfolios, none of whose names is blank, add up to
\* the same units of each instrument.  Rows that an update has left invalid are lost.
BackupIsWhole ==
    LET file == PortfolioFile
    IN  (\A k \in DOMAIN file : /\ Trim(file[k].name) # Empty
                                /\ \A n \in DOMAIN file[k].rows : Legal(file[k].rows[n])) =>
            \A x \in Isin : UnitsOf(ImportedPortfolios(file), x) = UnitsOf(file, x)

OneLine(text) == Newline \notin ToSet(text)

\* A name is the first cell of its line, from which the trimming of lines takes blanks.
Bare(name) == OneLine(name) /\ (name # Empty => name[1] # Space)

\* The CSV of instruments and templates reads back as what was exported, whatever
\* commas and quotes their texts hold; a newline inside a text breaks it, a blank
\* before the name of an instrument is lost, and a template that has lost its items
\* is not in it.
CatalogueCsvIsFaithful ==
    /\ (\A k \in DOMAIN InstrumentRows : Bare(InstrumentRows[k].name)) =>
         ReadInstruments(InstrumentCsv(InstrumentRows)) = InstrumentRows
    /\ (\A k \in DOMAIN TemplateRows : OneLine(TemplateRows[k].desc)) =>
         ReadTemplates(TemplateCsv(TemplateRows)) =
             Selected(TemplateRows, {k \in DOMAIN TemplateRows : TemplateRows[k].items # << >>})

\* An import never changes or removes what is there ("Existing rows remain
\* untouched"), whatever is created and deleted between two of its statements.
ImportOnlyAdds ==
    [][job # None /\ job' # job /\ (job' # None => job'.quiet = job.quiet) =>
         /\ \A x \in Isin : instruments[x] # None => instruments'[x] = instruments[x]
         /\ \A c \in Code : templates[c] # None => templates'[c] = templates[c]]_vars

\* Items as they are in the file; one without ISIN has got the ISIN of any instrument.
Alike(stored, items) ==
    /\ Len(stored) = Len(items)
    /\ \A k \in DOMAIN items : /\ stored[k].weight = items[k].weight
                               /\ items[k].isin \in {None, stored[k].isin}

Kept(row) ==
    IF job.kind = "instruments"
    THEN \/ row.isin = None
         \/ instruments[row.isin] = [name |-> row.name, ext |-> row.ext]
         \/ row.isin \in job.reported
    ELSE \/ row.code = None
         \/ LET t == templates[row.code]
            IN  t # None /\ t.desc = Trim(row.desc) /\ Alike(t.items, row.items)
         \/ ({row.code} \cup Isins(row.items)) \cap job.reported # {}

\* An import that ends undisturbed has stored each row of its file or reports it, as
\* skipped or by an ISIN that is missing.  Rows without ISIN or code are excepted: the
\* code passes over them and reports them nowhere.
ImportTellsAll ==
    [][Done /\ job.quiet => \A k \in DOMAIN job.file : Kept(job.file[k])]_vars

================================================================================
