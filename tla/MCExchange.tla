------------------------------ MODULE MCExchange -------------------------------
(* Instances of Exchange for TLC.                                               *)
EXTENDS Exchange

CONSTANTS a, x1, x2, m1, m2

\* The last one is a description only that PlainCsvAgrees does not except.
PlainLabel == {Empty, <<a>>, <<a, Space>>, <<Space, Bar>>}
CommaLabel == {Empty, <<a, Comma, a>>}

\* A text of each kind that the CSV writers and readers treat differently.
SomeProse == {<<a>>, <<Space, a>>, <<Comma, Quote, Space>>, <<a, Newline, a>>}
SomeExt   == {Empty, <<Quote, a, Quote>>}

Tx(isin, type, units, price) ==
    [isin |-> isin, type |-> type, units |-> units, price |-> price, fees |-> 0,
     notes |-> Empty]

\* A SELL of negative units and a price of zero are what updates can leave in the
\* ledger.
Rows == {Tx(x1, "BUY", 2, 1), Tx(x1, "FEE_CONSOLIDATION", -1, 1), Tx(x2, "SELL", -1, 0)}

Instr(isin, name, legal) ==
    [isin |-> isin, name |-> name, ext |-> <<Quote, a, Quote>>, legal |-> legal]

\* Two instruments; the same one twice; a row without ISIN and one that the table
\* refuses.
InstrumentFiles ==
    {<<Instr(x1, <<a>>, TRUE), Instr(x2, <<Comma, Quote, Space>>, TRUE)>>,
     <<Instr(x1, <<a, Newline, a>>, TRUE), Instr(x1, <<a>>, TRUE)>>,
     <<Instr(None, <<a>>, TRUE), Instr(x2, <<a>>, TRUE), Instr(x1, <<a>>, FALSE)>>}

Item(isin, weight) == [isin |-> isin, weight |-> weight]
Tmpl(code, items) == [code |-> code, desc |-> <<Comma, Quote, Space>>, items |-> items]

\* A template of each fund and one of both; no code; no ISIN; weights that miss the
\* whole; a weight that is no number, such as "50 %".
TemplateFiles ==
    {<<Tmpl(m1, <<Item(x1, 100)>>), Tmpl(m2, <<Item(x2, 100)>>)>>,
     <<Tmpl(None, <<Item(x1, 100)>>), Tmpl(m1, <<Item(x1, 40), Item(x2, 60)>>)>>,
     <<Tmpl(m2, <<Item(None, 40)>>), Tmpl(m1, <<Item(None, NaN)>>)>>}

================================================================================
