----------------------------- MODULE FrontendProofs -----------------------------
(***************************************************************************)
(* What the views of the browser promise, for any number of funds, days,   *)
(* prices, templates and calls, and whatever habits the user and the       *)
(* network have, as far as the property itself does not leave some out.    *)
(***************************************************************************)
EXTENDS Frontend, SequenceTheorems, FiniteSetTheorems, TLAPS

--------------------------------------------------------------------------------
(* Lists of calls.  The proofs speak of the calls that are under way as a set:  *)
(* what a step adds to it, takes from it or changes in it.                      *)

Elems(s)      == {s[k] : k \in DOMAIN s}
Dropped(s, k) == SubSeq(s, 1, k - 1) \o SubSeq(s, k + 1, Len(s))

LEMMA DroppedAt ==
  ASSUME NEW S, NEW s \in Seq(S), NEW k \in DOMAIN s
  PROVE  /\ Dropped(s, k) \in Seq(S)
         /\ Len(Dropped(s, k)) = Len(s) - 1
         /\ \A j \in 1..(Len(s) - 1) : Dropped(s, k)[j] = s[IF j < k THEN j ELSE j + 1]
<1> DEFINE a == SubSeq(s, 1, k - 1)
           b == SubSeq(s, k + 1, Len(s))
<1>1. k \in 1..Len(s) /\ Len(s) \in Nat
  OBVIOUS
<1>2. a \in Seq(S) /\ Len(a) = k - 1 /\ \A j \in 1..(k - 1) : a[j] = s[j]
  BY <1>1
<1>3. b \in Seq(S) /\ Len(b) = Len(s) - k /\ \A j \in 1..(Len(s) - k) : b[j] = s[j + k]
  BY <1>1
<1>. HIDE DEF a, b
<1>4. /\ a \o b \in Seq(S) /\ Len(a \o b) = Len(s) - 1
      /\ \A j \in 1..(Len(s) - 1) : (a \o b)[j] = IF j < k THEN a[j] ELSE b[j - (k - 1)]
  <2>1. /\ a \o b \in Seq(S) /\ Len(a \o b) = Len(a) + Len(b)
        /\ \A j \in 1..(Len(a) + Len(b)) : (a \o b)[j] = IF j <= Len(a) THEN a[j]
                                                          ELSE b[j - Len(a)]
    BY <1>2, <1>3, ConcatProperties
  <2>2. Len(a) + Len(b) = Len(s) - 1 /\ \A j \in 1..(Len(s) - 1) : j <= Len(a) <=> j < k
    BY <1>1, <1>2, <1>3
  <2>. QED BY <1>2, <2>1, <2>2
<1>5. ASSUME NEW j \in 1..(Len(s) - 1)
      PROVE  (a \o b)[j] = s[IF j < k THEN j ELSE j + 1]
  <2>1. CASE j < k
    BY <1>1, <1>2, <1>4, <2>1
  <2>2. CASE ~(j < k)
    <3>1. j - (k - 1) \in 1..(Len(s) - k) /\ j - (k - 1) + k = j + 1
      BY <1>1, <2>2
    <3>. QED BY <1>1, <1>3, <1>4, <2>2, <3>1
  <2>. QED BY <2>1, <2>2
<1>. QED BY <1>4, <1>5 DEF Dropped, a, b

\* A call is taken out: the others stay, and nothing comes.
LEMMA ElemsDropped ==
  ASSUME NEW S, NEW s \in Seq(S), NEW k \in DOMAIN s
  PROVE  /\ Dropped(s, k) \in Seq(S)
         /\ Elems(Dropped(s, k)) \subseteq Elems(s)
         /\ Elems(s) \subseteq Elems(Dropped(s, k)) \cup {s[k]}
<1> DEFINE d == Dropped(s, k)
<1>1. /\ d \in Seq(S) /\ Len(d) = Len(s) - 1
      /\ \A j \in 1..(Len(s) - 1) : d[j] = s[IF j < k THEN j ELSE j + 1]
  BY DroppedAt
<1>. HIDE DEF d
<1>2. DOMAIN d = 1..(Len(s) - 1) /\ DOMAIN s = 1..Len(s) /\ Len(s) \in Nat
  BY <1>1
<1>3. ASSUME NEW j \in DOMAIN d
      PROVE  d[j] \in Elems(s)
  <2>1. (IF j < k THEN j ELSE j + 1) \in DOMAIN s
    BY <1>2
  <2>. QED BY <1>1, <1>2, <2>1 DEF Elems
<1>4. ASSUME NEW j \in DOMAIN s, j # k
      PROVE  s[j] \in Elems(d)
  <2>1. CASE j < k
    BY <1>1, <1>2, <2>1 DEF Elems
  <2>2. CASE ~(j < k)
    <3>1. j - 1 \in DOMAIN d /\ ~(j - 1 < k) /\ (j - 1) + 1 = j
      BY <1>2, <1>4, <2>2
    <3>. QED BY <1>1, <1>2, <3>1 DEF Elems
  <2>. QED BY <2>1, <2>2
<1>5. Elems(d) \subseteq Elems(s)
  BY <1>3 DEF Elems
<1>6. Elems(s) \subseteq Elems(d) \cup {s[k]}
  BY <1>4 DEF Elems
<1>. QED BY <1>1, <1>5, <1>6 DEF d

LEMMA ElemsAppended ==
  ASSUME NEW S, NEW s \in Seq(S), NEW c \in S
  PROVE  Append(s, c) \in Seq(S) /\ Elems(Append(s, c)) = Elems(s) \cup {c}
<1>1. /\ Append(s, c) \in Seq(S) /\ DOMAIN Append(s, c) = 1..(Len(s) + 1)
      /\ DOMAIN s = 1..Len(s) /\ Len(s) \in Nat
      /\ \A j \in 1..Len(s) : Append(s, c)[j] = s[j]
      /\ Append(s, c)[Len(s) + 1] = c
  OBVIOUS
<1>2. 1..(Len(s) + 1) = 1..Len(s) \cup {Len(s) + 1}
  BY <1>1
<1>. QED BY <1>1, <1>2 DEF Elems

\* A call is answered, or lost: it is the only one that changes.
LEMMA ElemsReplaced ==
  ASSUME NEW S, NEW s \in Seq(S), NEW k \in DOMAIN s, NEW c \in S
  PROVE  /\ [s EXCEPT ![k] = c] \in Seq(S)
         /\ Elems([s EXCEPT ![k] = c]) \subseteq Elems(s) \cup {c}
         /\ Elems(s) \subseteq Elems([s EXCEPT ![k] = c]) \cup {s[k]}
         /\ c \in Elems([s EXCEPT ![k] = c])
<1>1. [s EXCEPT ![k] = c] \in Seq(S)
  OBVIOUS
<1>. QED BY <1>1 DEF Elems

LEMMA ElemsNone == \A s : s = <<>> => Elems(s) = {}
  BY DEF Elems

LEMMA ElemsTwo ==
  ASSUME NEW S, NEW s \in Seq(S), NEW a \in S, NEW b \in S
  PROVE  /\ Append(Append(s, a), b) \in Seq(S)
         /\ Elems(Append(Append(s, a), b)) = Elems(s) \cup {a, b}
<1>1. Append(s, a) \in Seq(S) /\ Elems(Append(s, a)) = Elems(s) \cup {a}
  BY ElemsAppended
<1>2. ASSUME NEW f \in Seq(S)
      PROVE  Append(f, b) \in Seq(S) /\ Elems(Append(f, b)) = Elems(f) \cup {b}
  BY <1>2, ElemsAppended
<1>. QED BY <1>1, <1>2

LEMMA ElemsOne ==
  ASSUME NEW S, NEW c \in S
  PROVE  Append(<<>>, c) \in Seq(S) /\ Elems(Append(<<>>, c)) = {c}
<1>1. Append(<<>>, c) = <<c>>
  OBVIOUS
<1>2. DOMAIN <<c>> = {1} /\ <<c>>[1] = c /\ <<c>> \in Seq(S)
  OBVIOUS
<1>. QED BY <1>1, <1>2 DEF Elems

LEMMA ElemsTyped == ASSUME NEW S, NEW s \in Seq(S) PROVE Elems(s) \subseteq S
  BY DEF Elems

\* Each call is changed on its own.
LEMMA ElemsMapped ==
  ASSUME NEW S, NEW s \in Seq(S), NEW g \in [S -> S]
  PROVE  /\ [k \in DOMAIN s |-> g[s[k]]] \in Seq(S)
         /\ Elems([k \in DOMAIN s |-> g[s[k]]]) = {g[c] : c \in Elems(s)}
<1>1. DOMAIN s = 1..Len(s) /\ Len(s) \in Nat /\ \A k \in DOMAIN s : g[s[k]] \in S
  OBVIOUS
<1>2. [k \in 1..Len(s) |-> g[s[k]]] \in Seq(S)
  BY <1>1
<1>. QED BY <1>1, <1>2 DEF Elems

\* The backend answers a call, or it is lost: what it is about stays.
LEMMA ElemsAnswered ==
  ASSUME NEW S, NEW s \in Seq(S), NEW k \in DOMAIN s, NEW status, NEW answer,
         [s[k] EXCEPT !.status = status, !.answer = answer] \in S
  PROVE  LET c == [s[k] EXCEPT !.status = status, !.answer = answer]
             t == [s EXCEPT ![k].status = status, ![k].answer = answer]
         IN /\ t \in Seq(S) /\ c \in Elems(t)
            /\ Elems(t) \subseteq Elems(s) \cup {c}
            /\ Elems(s) \subseteq Elems(t) \cup {s[k]}
<1> DEFINE c == [s[k] EXCEPT !.status = status, !.answer = answer]
<1>1. [s EXCEPT ![k].status = status, ![k].answer = answer] = [s EXCEPT ![k] = c]
  OBVIOUS
<1>. HIDE DEF c
<1>2. c \in S
  BY DEF c
<1>3. /\ [s EXCEPT ![k] = c] \in Seq(S) /\ c \in Elems([s EXCEPT ![k] = c])
      /\ Elems([s EXCEPT ![k] = c]) \subseteq Elems(s) \cup {c}
      /\ Elems(s) \subseteq Elems([s EXCEPT ![k] = c]) \cup {s[k]}
  BY <1>2, ElemsReplaced
<1>. QED BY <1>1, <1>3 DEF c

Status == {"sent", "served", "failed"}

--------------------------------------------------------------------------------
(* The form of a transaction.  An effect that is not cancelled is about the     *)
(* fund, the date and the price that are in the form now, so that its answer    *)
(* is the NAV that the form may show and fill in; and the form waits for one or *)
(* says how the last one ended.                                                 *)

FormNav ==
    [kind : {"nav"}, status : Status, answer : (Nat \ {0}) \cup {None},
     about : [instrument : Instrument, date : Day, fills : BOOLEAN, live : BOOLEAN]]

FormOther ==
    [kind : {"instruments", "positions", "save"}, status : Status,
     answer : (SUBSET Instrument) \cup {None}, about : {None}]

FormCall == FormNav \cup FormOther

FormPage ==
    [instruments : SUBSET Instrument, held : SUBSET Instrument, own : Instrument \cup {None},
     instrument : Instrument \cup {None}, type : Transaction!Type, date : Day \cup {0},
     price : Nat, auto : BOOLEAN, hint : BOOLEAN, missing : BOOLEAN, navLoading : BOOLEAN,
     saving : BOOLEAN, closed : BOOLEAN]

NavOf(c) == Nav[c.about.instrument][c.about.date]

Live(c) == c.kind = "nav" /\ c.about.live

AnswersRight(C) ==
    \A c \in C : c.status = "served" =>
        /\ c.kind = "nav" => c.answer = NavOf(c)
        /\ c.kind \in {"instruments", "positions"} => c.answer \in SUBSET Instrument

LiveMatches(pg, C) ==
    \A c \in C : Live(c) =>
        /\ Transaction!Chosen(pg)
        /\ c.about.instrument = pg.instrument /\ c.about.date = pg.date
        /\ c.about.fills <=> pg.auto \/ pg.price = 0

HintMatches(pg) ==
    pg.hint => Transaction!Chosen(pg) /\ (pg.auto => pg.price = Nav[pg.instrument][pg.date])

FormWaits(pg, C) ==
    Transaction!Chosen(pg) =>
        \/ \E c \in C : Live(c)
        \/ pg.hint /\ ~pg.navLoading /\ pg.price # 0
        \/ pg.missing /\ ~pg.hint /\ ~pg.navLoading

FormLinked(pg, C) == LiveMatches(pg, C) /\ HintMatches(pg) /\ FormWaits(pg, C)

FormInv ==
    /\ server \in SUBSET Instrument /\ page \in FormPage /\ calls \in Seq(FormCall)
    /\ AnswersRight(Elems(calls))
    /\ FormLinked(page, Elems(calls))

LEMMA CancelledElems ==
  ASSUME NEW cs \in Seq(FormCall), AnswersRight(Elems(cs))
  PROVE  /\ Transaction!Cancelled(cs) \in Seq(FormCall)
         /\ AnswersRight(Elems(Transaction!Cancelled(cs)))
         /\ \A c \in Elems(Transaction!Cancelled(cs)) : ~Live(c)
<1> DEFINE g == [c \in FormCall |->
                   IF c.kind = "nav" THEN [c EXCEPT !.about.live = FALSE] ELSE c]
<1>1. ASSUME NEW c \in FormCall
      PROVE  /\ g[c] \in FormCall /\ ~Live(g[c])
             /\ g[c].kind = c.kind /\ g[c].status = c.status /\ g[c].answer = c.answer
             /\ c.kind = "nav" => NavOf(g[c]) = NavOf(c)
  BY DEF FormCall, FormNav, FormOther, Live, NavOf
<1>2. g \in [FormCall -> FormCall]
  BY <1>1
<1>3. Transaction!Cancelled(cs) = [k \in DOMAIN cs |-> g[cs[k]]]
  <2>1. \A k \in DOMAIN cs : cs[k] \in FormCall
    OBVIOUS
  <2>. QED BY <2>1 DEF Transaction!Cancelled
<1>4. Elems(cs) \subseteq FormCall
  BY ElemsTyped
<1>. HIDE DEF g
<1>5. /\ Transaction!Cancelled(cs) \in Seq(FormCall)
      /\ Elems(Transaction!Cancelled(cs)) = {g[c] : c \in Elems(cs)}
  BY <1>2, <1>3, ElemsMapped
<1>. QED BY <1>1, <1>4, <1>5 DEF AnswersRight

\* Whatever was chosen, the effect cancels the one before it and asks anew.
LEMMA EffectLinked ==
  ASSUME NEW pg \in FormPage, NEW cs \in Seq(FormCall), AnswersRight(Elems(cs))
  PROVE  LET pn == Transaction!EffectPage(pg)  cn == Transaction!EffectCalls(pg, cs) IN
         /\ pn \in FormPage /\ cn \in Seq(FormCall)
         /\ AnswersRight(Elems(cn)) /\ FormLinked(pn, Elems(cn))
<1> DEFINE pn == Transaction!EffectPage(pg)
           cn == Transaction!EffectCalls(pg, cs)
           cc == Transaction!Cancelled(cs)
<1>1. cc \in Seq(FormCall) /\ AnswersRight(Elems(cc)) /\ \A c \in Elems(cc) : ~Live(c)
  BY CancelledElems
<1>2. /\ pn \in FormPage /\ ~pn.hint
      /\ Transaction!Chosen(pn) <=> Transaction!Chosen(pg)
      /\ pn.instrument = pg.instrument /\ pn.date = pg.date
      /\ pn.auto = pg.auto /\ pn.price = pg.price
  BY DEF Transaction!EffectPage, Transaction!Chosen, FormPage
<1>. HIDE DEF cc
<1>3. CASE ~Transaction!Chosen(pg)
  <2>1. cn = cc
    BY <1>3 DEF Transaction!EffectCalls, cc
  <2>. QED BY <1>1, <1>2, <1>3, <2>1
       DEF FormLinked, LiveMatches, HintMatches, FormWaits
<1>4. CASE Transaction!Chosen(pg)
  <2> DEFINE c == [kind |-> "nav", status |-> "sent", answer |-> None,
                   about |-> [instrument |-> pg.instrument, date |-> pg.date,
                              fills |-> pg.auto \/ pg.price = 0, live |-> TRUE]]
  <2>1. c \in FormCall /\ Live(c)
    BY <1>4 DEF FormPage, FormCall, FormNav, Status, Live, Transaction!Chosen
  <2>2. cn = Append(cc, c)
    BY <1>4 DEF Transaction!EffectCalls, cc, Transaction!Send, Transaction!Call
  <2>3. c.about.instrument = pg.instrument /\ c.about.date = pg.date /\ c.status # "served"
        /\ (c.about.fills <=> pg.auto \/ pg.price = 0)
    OBVIOUS
  <2>. HIDE DEF c
  <2>4. cn \in Seq(FormCall) /\ Elems(cn) = Elems(cc) \cup {c}
    BY <1>1, <2>1, <2>2, ElemsAppended
  <2>. HIDE DEF cn, pn
  <2>5. AnswersRight(Elems(cn))
    BY <1>1, <2>3, <2>4 DEF AnswersRight
  <2>6. FormLinked(pn, Elems(cn))
    BY <1>1, <1>2, <1>4, <2>1, <2>3, <2>4 DEF FormLinked, LiveMatches, HintMatches, FormWaits
  <2>. QED BY <1>2, <2>4, <2>5, <2>6 DEF cn, pn
<1>. QED BY <1>3, <1>4

LEMMA RenderLinked ==
  ASSUME NEW pg \in FormPage, NEW cs \in Seq(FormCall), AnswersRight(Elems(cs)),
         Transaction!Render(pg, cs), server' \in SUBSET Instrument,
         Transaction!Watched(pg) = Transaction!Watched(page) => FormLinked(pg, Elems(cs))
  PROVE  FormInv'
<1>1. CASE Transaction!Watched(pg) = Transaction!Watched(page)
  <2>1. page' = pg /\ calls' = cs
    BY <1>1 DEF Transaction!Render
  <2>. QED BY <1>1, <2>1 DEF FormInv
<1>2. CASE Transaction!Watched(pg) # Transaction!Watched(page)
  <2>1. page' = Transaction!EffectPage(pg) /\ calls' = Transaction!EffectCalls(pg, cs)
    BY <1>2 DEF Transaction!Render
  <2>. QED BY <2>1, EffectLinked DEF FormInv
<1>. QED BY <1>1, <1>2

\* Nothing of this changes while the same effects are under way for the same choice.
LEMMA LinkedKept ==
  ASSUME NEW pg, NEW pn, NEW C, NEW D, FormLinked(pg, C),
         \A c \in D : Live(c) => \E b \in C : Live(b) /\ b.about = c.about,
         \A b \in C : Live(b) => \E c \in D : Live(c),
         Transaction!Watched(pn) = Transaction!Watched(pg),
         pn.hint = pg.hint, pn.missing = pg.missing, pn.navLoading = pg.navLoading
  PROVE  FormLinked(pn, D)
<1>1. /\ pn.instrument = pg.instrument /\ pn.date = pg.date
      /\ pn.auto = pg.auto /\ pn.price = pg.price
  BY DEF Transaction!Watched
<1>2. Transaction!Chosen(pn) <=> Transaction!Chosen(pg)
  BY <1>1 DEF Transaction!Chosen
<1>3. LiveMatches(pn, D)
  BY <1>1, <1>2 DEF FormLinked, LiveMatches
<1>4. HintMatches(pn) /\ FormWaits(pn, D)
  BY <1>1, <1>2 DEF FormLinked, HintMatches, FormWaits
<1>. QED BY <1>3, <1>4 DEF FormLinked

LEMMA InitForm ==
  ASSUME Transaction!Init
  PROVE  FormInv
<1>s. PICK own \in Instrument \cup {None}, d \in Day, p \in Typed : \E pg :
        /\ pg = Transaction!Fresh(own, d, IF own = None THEN 0 ELSE p)
        /\ server \in SUBSET Instrument /\ page = Transaction!EffectPage(pg)
        /\ calls = Transaction!EffectCalls(pg, Transaction!FirstCalls)
  BY DEF Transaction!Init, Transaction!Openings
<1>1. PICK pg :
        /\ pg = Transaction!Fresh(own, d, IF own = None THEN 0 ELSE p)
        /\ server \in SUBSET Instrument /\ page = Transaction!EffectPage(pg)
        /\ calls = Transaction!EffectCalls(pg, Transaction!FirstCalls)
  BY <1>s
<1>2. pg \in FormPage
  <2>1. d \in Day \cup {0} /\ (IF own = None THEN 0 ELSE p) \in Nat
    BY FrontendAssumption
  <2>. QED BY <1>1, <2>1 DEF Transaction!Fresh, FormPage, Transaction!Type
<1> DEFINE a == [kind |-> "instruments", about |-> None, status |-> "sent", answer |-> None]
           b == [kind |-> "positions", about |-> None, status |-> "sent", answer |-> None]
<1>3. a \in FormCall /\ b \in FormCall /\ a.status = "sent" /\ b.status = "sent"
  BY DEF FormCall, FormOther, Status
<1>4. PICK none \in Seq(FormCall) : /\ Elems(none) = {}
                                   /\ Transaction!FirstCalls = Append(Append(none, a), b)
  <2>1. Transaction!FirstCalls = Append(Append(<<>>, a), b)
    BY DEF Transaction!FirstCalls, Transaction!Send, Transaction!Call
  <2>2. <<>> \in Seq(FormCall) /\ Elems(<<>>) = {}
    BY ElemsNone
  <2>. QED BY <2>1, <2>2, Zenon
<1>. HIDE DEF a, b
<1>7. /\ Transaction!FirstCalls \in Seq(FormCall)
      /\ Elems(Transaction!FirstCalls) = {a, b}
  BY <1>3, <1>4, ElemsTwo
<1>8. AnswersRight(Elems(Transaction!FirstCalls))
  BY <1>3, <1>7 DEF AnswersRight
<1>9. PICK cs : cs = Transaction!FirstCalls
  OBVIOUS
<1>10. /\ Transaction!EffectPage(pg) \in FormPage
       /\ Transaction!EffectCalls(pg, cs) \in Seq(FormCall)
       /\ AnswersRight(Elems(Transaction!EffectCalls(pg, cs)))
       /\ FormLinked(Transaction!EffectPage(pg), Elems(Transaction!EffectCalls(pg, cs)))
  BY <1>2, <1>7, <1>8, <1>9, EffectLinked
<1>. QED BY <1>1, <1>9, <1>10 DEF FormInv

\* The backend answers, or a call fails.
LEMMA FormServed ==
  ASSUME FormInv, NEW i \in DOMAIN calls, Transaction!Serve(i) \/ Transaction!Lose(i)
  PROVE  FormInv'
<1> DEFINE old == calls[i]
<1>0. calls \in Seq(FormCall) /\ old \in FormCall /\ Elems(calls) \subseteq FormCall
  BY ElemsTyped DEF FormInv
<1>s. PICK status \in Status : \E answer :
        /\ calls' = [calls EXCEPT ![i].status = status, ![i].answer = answer]
        /\ answer = None \/ (old.kind # "nav" /\ answer \in SUBSET Instrument)
             \/ (old.kind = "nav" /\ answer = NavOf(old))
        /\ status = "served" =>
             /\ old.kind = "nav" => answer = NavOf(old)
             /\ old.kind \in {"instruments", "positions"} => answer \in SUBSET Instrument
  <2>1. CASE Transaction!Serve(i)
    <3> DEFINE a == CASE old.kind = "nav" -> Nav[old.about.instrument][old.about.date]
                      [] old.kind = "instruments" -> Instrument
                      [] old.kind = "positions" -> server
                      [] OTHER -> None
    <3>1. calls' = [calls EXCEPT ![i].status = "served", ![i].answer = a]
      BY <2>1 DEF Transaction!Serve, Transaction!Served
    <3>2. old.kind = "nav" => a = NavOf(old)
      BY DEF NavOf
    <3>3. /\ old.kind # "nav" => a = None \/ a \in SUBSET Instrument
          /\ old.kind \in {"instruments", "positions"} => a \in SUBSET Instrument
      BY <1>0 DEF FormInv, FormCall, FormNav, FormOther
    <3>. HIDE DEF a, old
    <3>. QED BY <3>1, <3>2, <3>3 DEF Status
  <2>2. CASE Transaction!Lose(i)
    BY <2>2 DEF Transaction!Lose, Transaction!Lost, Status
  <2>. QED BY <2>1, <2>2
<1>1. PICK answer :
        /\ calls' = [calls EXCEPT ![i].status = status, ![i].answer = answer]
        /\ answer = None \/ (old.kind # "nav" /\ answer \in SUBSET Instrument)
             \/ (old.kind = "nav" /\ answer = NavOf(old))
        /\ status = "served" =>
             /\ old.kind = "nav" => answer = NavOf(old)
             /\ old.kind \in {"instruments", "positions"} => answer \in SUBSET Instrument
  BY <1>s
<1> DEFINE new == [old EXCEPT !.status = status, !.answer = answer]
<1>2. new \in FormCall
  <2>1. old.kind = "nav" => NavOf(old) \in (Nat \ {0}) \cup {None}
    BY <1>0, FrontendAssumption DEF FormCall, FormNav, FormOther, NavOf
  <2>2. CASE old.kind = "nav"
    <3>1. answer \in (Nat \ {0}) \cup {None} /\ old \in FormNav
      BY <1>0, <1>1, <2>1, <2>2 DEF FormCall, FormOther
    <3>. HIDE DEF old
    <3>. QED BY <3>1 DEF FormCall, FormNav
  <2>3. CASE old.kind # "nav"
    <3>1. answer \in (SUBSET Instrument) \cup {None} /\ old \in FormOther
      BY <1>0, <1>1, <2>3 DEF FormCall, FormNav
    <3>. HIDE DEF old
    <3>. QED BY <3>1 DEF FormCall, FormOther
  <2>. QED BY <2>2, <2>3
<1>3. /\ new.kind = old.kind /\ new.about = old.about
      /\ new.status = status /\ new.answer = answer
  BY <1>0 DEF FormCall, FormNav, FormOther
<1>4. /\ calls' \in Seq(FormCall) /\ new \in Elems(calls')
      /\ Elems(calls') \subseteq Elems(calls) \cup {new}
      /\ Elems(calls) \subseteq Elems(calls') \cup {old}
  BY <1>0, <1>1, <1>2, ElemsAnswered
<1>5. old \in Elems(calls)
  BY DEF Elems
<1>. HIDE DEF old, new
<1>6. AnswersRight(Elems(calls'))
  BY <1>1, <1>3, <1>4 DEF FormInv, AnswersRight, NavOf
<1>7. server' = server /\ page' = page
  BY DEF Transaction!Serve, Transaction!Lose
<1>8. FormLinked(page', Elems(calls'))
  <2>1. \A c \in Elems(calls') : Live(c) => \E b \in Elems(calls) : Live(b) /\ b.about = c.about
    BY <1>3, <1>4, <1>5 DEF Live
  <2>2. \A b \in Elems(calls) : Live(b) => \E c \in Elems(calls') : Live(c)
    BY <1>3, <1>4 DEF Live
  <2>. QED BY <1>7, <2>1, <2>2, LinkedKept DEF FormInv
<1>. QED BY <1>4, <1>6, <1>7, <1>8 DEF FormInv

\* A call that has arrived is no longer under way.
LEMMA FormRest ==
  ASSUME FormInv, NEW i \in DOMAIN calls
  PROVE  LET rest == Transaction!Rest(i) IN
         /\ rest \in Seq(FormCall) /\ AnswersRight(Elems(rest))
         /\ LiveMatches(page, Elems(rest))
         /\ ~Live(calls[i]) => FormLinked(page, Elems(rest))
<1> DEFINE rest == Transaction!Rest(i)
<1>1. rest = Dropped(calls, i)
  BY DEF Transaction!Rest, Transaction!RemoveAt, Dropped
<1>. HIDE DEF rest
<1>2. /\ rest \in Seq(FormCall) /\ Elems(rest) \subseteq Elems(calls)
      /\ Elems(calls) \subseteq Elems(rest) \cup {calls[i]}
  BY <1>1, ElemsDropped DEF FormInv
<1>3. AnswersRight(Elems(rest)) /\ LiveMatches(page, Elems(rest))
  BY <1>2 DEF FormInv, AnswersRight, FormLinked, LiveMatches
<1>4. ~Live(calls[i]) => FormLinked(page, Elems(rest))
  BY <1>2, <1>3 DEF FormInv, FormLinked, FormWaits
<1>. QED BY <1>2, <1>3, <1>4 DEF rest

\* An answer that is no NAV, or one that nobody waits for any more.
LEMMA FormQuietArrival ==
  ASSUME FormInv, NEW i \in DOMAIN calls,
         \/ Transaction!ListArrives(i) \/ Transaction!SaveArrives(i)
         \/ Transaction!NavArrives(i) /\ ~Live(calls[i])
  PROVE  FormInv'
<1>1. /\ Transaction!Rest(i) \in Seq(FormCall) /\ AnswersRight(Elems(Transaction!Rest(i)))
      /\ ~Live(calls[i]) => FormLinked(page, Elems(Transaction!Rest(i)))
  BY FormRest
<1>2. calls[i] \in FormCall /\ page \in FormPage /\ server \in SUBSET Instrument
  BY DEF FormInv
<1>3. server' = server /\ calls' = Transaction!Rest(i) /\ ~Live(calls[i])
  BY <1>2 DEF Transaction!ListArrives, Transaction!SaveArrives, Transaction!NavArrives,
         Transaction!Arrives, Live, FormCall, FormNav
<1>4. \/ page' = page
      \/ \E H \in SUBSET Instrument : page' = [page EXCEPT !.held = H]
      \/ \E H \in SUBSET Instrument : page' = [page EXCEPT !.instruments = H]
      \/ page' = [page EXCEPT !.closed = TRUE]
      \/ page' = [page EXCEPT !.saving = FALSE]
  <2>1. CASE Transaction!ListArrives(i)
    <3>1. calls[i].kind \in {"instruments", "positions"}
      BY <2>1 DEF Transaction!ListArrives, Transaction!Arrives
    <3>2. calls[i].status = "served" => calls[i].answer \in SUBSET Instrument
      BY <3>1 DEF FormInv, AnswersRight, Elems
    <3>. QED BY <2>1, <3>2 DEF Transaction!ListArrives, Transaction!Succeeds
  <2>2. CASE Transaction!SaveArrives(i)
    BY <2>2 DEF Transaction!SaveArrives
  <2>3. CASE Transaction!NavArrives(i) /\ ~Live(calls[i])
    BY <2>3 DEF Transaction!NavArrives, Transaction!Arrives, Live
  <2>. QED BY <2>1, <2>2, <2>3
<1>5. /\ page' \in FormPage
      /\ Transaction!Watched(page') = Transaction!Watched(page)
      /\ page'.hint = page.hint /\ page'.missing = page.missing
      /\ page'.navLoading = page.navLoading
  BY <1>2, <1>4 DEF FormPage, Transaction!Watched
<1>6. FormLinked(page', Elems(calls'))
  BY <1>1, <1>3, <1>5, LinkedKept
<1>. QED BY <1>1, <1>2, <1>3, <1>5, <1>6 DEF FormInv

\* The NAV that the form waits for.
LEMMA FormNavArrival ==
  ASSUME FormInv, NEW i \in DOMAIN calls, Transaction!NavArrives(i), Live(calls[i])
  PROVE  FormInv'
<1> DEFINE c == calls[i]
           found == Transaction!Succeeds(c) /\ c.answer # None
           told == [page EXCEPT !.navLoading = FALSE, !.hint = found, !.missing = ~found]
           nav == Nav[page.instrument][page.date]
           rest == Transaction!Rest(i)
<1>1. /\ rest \in Seq(FormCall) /\ AnswersRight(Elems(rest))
      /\ LiveMatches(page, Elems(rest))
  BY FormRest
<1>2. c \in FormNav /\ c \in Elems(calls) /\ page \in FormPage
  BY DEF FormInv, Live, FormCall, FormOther, Elems
<1>3. /\ Transaction!Chosen(page) /\ NavOf(c) = nav
      /\ c.about.fills <=> page.auto \/ page.price = 0
      /\ c.status = "served" => c.answer = NavOf(c)
  BY <1>2 DEF FormInv, FormLinked, LiveMatches, NavOf, Live, AnswersRight, FormNav
<1>4. /\ found \in BOOLEAN
      /\ found => c.answer = nav /\ c.answer \in Nat \ {0}
      /\ c.about.live
  BY <1>2, <1>3 DEF FormNav, Transaction!Succeeds, Live
<1>5. server' = server
  BY DEF Transaction!NavArrives, Transaction!Arrives
<1>6. /\ IF found /\ c.about.fills
         THEN Transaction!Render([told EXCEPT !.price = c.answer, !.auto = TRUE], rest)
         ELSE page' = told /\ calls' = rest
  BY <1>4 DEF Transaction!NavArrives
<1>. HIDE DEF found, c, rest
<1>7. /\ told \in FormPage /\ Transaction!Watched(told) = Transaction!Watched(page)
      /\ told.hint = found /\ told.missing = ~found /\ told.navLoading = FALSE
  BY <1>2, <1>4 DEF FormPage, Transaction!Watched
<1>. HIDE DEF told
<1>8. /\ told.instrument = page.instrument /\ told.date = page.date
      /\ told.auto = page.auto /\ told.price = page.price
  BY <1>7 DEF Transaction!Watched
<1>9. Transaction!Chosen(told)
  BY <1>3, <1>8 DEF Transaction!Chosen
<1>10. CASE found /\ c.about.fills
  <2> DEFINE pg == [told EXCEPT !.price = c.answer, !.auto = TRUE]
  <2>1. /\ pg \in FormPage /\ pg.instrument = told.instrument /\ pg.date = told.date
        /\ pg.price = c.answer /\ pg.auto = TRUE /\ pg.hint = TRUE /\ pg.navLoading = FALSE
    BY <1>4, <1>7, <1>10 DEF FormPage
  <2>2. Transaction!Render(pg, rest)
    BY <1>6, <1>10
  <2>. HIDE DEF pg
  <2>3. ASSUME Transaction!Watched(pg) = Transaction!Watched(page)
        PROVE  FormLinked(pg, Elems(rest))
    <3>1. LiveMatches(pg, Elems(rest))
      BY <1>1, <2>3 DEF LiveMatches, Transaction!Watched, Transaction!Chosen
    <3>2. HintMatches(pg) /\ FormWaits(pg, Elems(rest))
      BY <1>4, <1>8, <1>9, <1>10, <2>1 DEF HintMatches, FormWaits, Transaction!Chosen
    <3>. QED BY <3>1, <3>2 DEF FormLinked
  <2>. QED BY <1>1, <1>5, <2>1, <2>2, <2>3, RenderLinked DEF FormInv
<1>11. CASE ~(found /\ c.about.fills)
  <2>1. page' = told /\ calls' = rest
    BY <1>6, <1>11
  <2>2. LiveMatches(told, Elems(rest))
    BY <1>1, <1>8, <1>9 DEF LiveMatches
  <2>3. HintMatches(told) /\ FormWaits(told, Elems(rest))
    BY <1>2, <1>3, <1>7, <1>8, <1>9, <1>11 DEF HintMatches, FormWaits
  <2>. QED BY <1>1, <1>5, <1>7, <2>1, <2>2, <2>3 DEF FormInv, FormLinked
<1>. QED BY <1>10, <1>11

LEMMA FormUser ==
  ASSUME FormInv, Transaction!User
  PROVE  FormInv'
<1>1. /\ page \in FormPage /\ calls \in Seq(FormCall) /\ AnswersRight(Elems(calls))
      /\ FormLinked(page, Elems(calls)) /\ server \in SUBSET Instrument
  BY DEF FormInv
<1>2. ASSUME NEW pg \in FormPage, Transaction!Render(pg, calls), server' = server,
             pg.hint = page.hint, pg.missing = page.missing, pg.navLoading = page.navLoading
      PROVE  FormInv'
  BY <1>1, <1>2, LinkedKept, RenderLinked
<1>3. ASSUME NEW type \in Transaction!Type, Transaction!HandleTypeChange(type)
      PROVE  FormInv'
  <2> DEFINE pg == [page EXCEPT !.type = type,
                      !.instrument = IF Transaction!RequiresPosition(type)
                                          /\ page.instrument \notin page.held
                                     THEN None ELSE page.instrument]
  <2>1. /\ pg \in FormPage
        /\ pg.hint = page.hint /\ pg.missing = page.missing /\ pg.navLoading = page.navLoading
    BY <1>1 DEF FormPage
  <2>2. Transaction!Render(pg, calls) /\ server' = server
    BY <1>3 DEF Transaction!HandleTypeChange, Transaction!UserChooses
  <2>. HIDE DEF pg
  <2>. QED BY <1>2, <2>1, <2>2
<1>4. ASSUME NEW x \in Instrument \cup {None}, Transaction!SelectInstrument(x)
      PROVE  FormInv'
  <2> DEFINE pg == [page EXCEPT !.instrument = x]
  <2>1. /\ pg \in FormPage
        /\ pg.hint = page.hint /\ pg.missing = page.missing /\ pg.navLoading = page.navLoading
    BY <1>1 DEF FormPage
  <2>2. Transaction!Render(pg, calls) /\ server' = server
    BY <1>4 DEF Transaction!SelectInstrument, Transaction!UserChooses
  <2>. HIDE DEF pg
  <2>. QED BY <1>2, <2>1, <2>2
<1>5. ASSUME NEW d \in Day \cup {0}, Transaction!EnterDate(d)
      PROVE  FormInv'
  <2> DEFINE pg == [page EXCEPT !.date = d]
  <2>1. /\ pg \in FormPage
        /\ pg.hint = page.hint /\ pg.missing = page.missing /\ pg.navLoading = page.navLoading
    BY <1>1 DEF FormPage
  <2>2. Transaction!Render(pg, calls) /\ server' = server
    BY <1>5 DEF Transaction!EnterDate, Transaction!UserChooses
  <2>. HIDE DEF pg
  <2>. QED BY <1>2, <2>1, <2>2
<1>6. ASSUME NEW p \in Typed \cup {0}, Transaction!EnterPrice(p)
      PROVE  FormInv'
  <2> DEFINE pg == [page EXCEPT !.price = p, !.auto = FALSE]
  <2>1. p \in Nat
    BY FrontendAssumption
  <2>2. /\ pg \in FormPage
        /\ pg.hint = page.hint /\ pg.missing = page.missing /\ pg.navLoading = page.navLoading
    BY <1>1, <2>1 DEF FormPage
  <2>3. Transaction!Render(pg, calls) /\ server' = server
    BY <1>6 DEF Transaction!EnterPrice, Transaction!UserChooses
  <2>. HIDE DEF pg
  <2>. QED BY <1>2, <2>2, <2>3
<1>7. CASE Transaction!HandleSubmit
  <2> DEFINE c == [kind |-> "save", about |-> None, status |-> "sent", answer |-> None]
  <2>1. c \in FormCall /\ ~Live(c) /\ c.status # "served"
    BY DEF FormCall, FormOther, Status, Live
  <2>2. /\ page' = [page EXCEPT !.saving = TRUE] /\ calls' = Append(calls, c)
        /\ server' = server
    BY <1>7 DEF Transaction!HandleSubmit, Transaction!Send, Transaction!Call
  <2>. HIDE DEF c
  <2>3. calls' \in Seq(FormCall) /\ Elems(calls') = Elems(calls) \cup {c}
    BY <1>1, <2>1, <2>2, ElemsAppended
  <2>4. AnswersRight(Elems(calls'))
    BY <1>1, <2>1, <2>3 DEF AnswersRight
  <2>5. /\ page' \in FormPage
        /\ Transaction!Watched(page') = Transaction!Watched(page)
        /\ page'.hint = page.hint /\ page'.missing = page.missing
        /\ page'.navLoading = page.navLoading
    BY <1>1, <2>2 DEF FormPage, Transaction!Watched
  <2>6. FormLinked(page', Elems(calls'))
    BY <1>1, <2>1, <2>3, <2>5, LinkedKept
  <2>. QED BY <1>1, <2>2, <2>3, <2>4, <2>5, <2>6 DEF FormInv
<1>. QED BY <1>3, <1>4, <1>5, <1>6, <1>7 DEF Transaction!User

LEMMA FormNext ==
  ASSUME FormInv, Transaction!Next
  PROVE  FormInv'
  BY FormServed, FormQuietArrival, FormNavArrival, FormUser
  DEF Transaction!Next, Transaction!Network

FormAlways == view = "transaction" => FormInv

LEMMA FormIsAlways ==
  /\ Init => FormAlways
  /\ FormAlways /\ [Next]_vars => FormAlways'
<1>1. Init => FormAlways
  BY InitForm DEF Init, FormAlways
<1>2. ASSUME FormAlways, Next
      PROVE  FormAlways'
  BY <1>2, FormNext DEF Next, FormAlways
<1>3. ASSUME FormAlways, UNCHANGED vars
      PROVE  FormAlways'
  BY <1>3 DEF vars, FormAlways, FormInv
<1>. QED BY <1>1, <1>2, <1>3

\* A price that the form of a transaction filled in is the NAV of the fund and the
\* date that are in it, once it says so; and it waits for no answer in vain.
THEOREM FilledPriceIsNav == Spec => []FormPriceMatches
<1>1. ASSUME FormInv
      PROVE  Transaction!AutoPriceMatches
  BY <1>1, ElemsNone
  DEF FormInv, FormLinked, HintMatches, FormWaits, Transaction!AutoPriceMatches
<1>2. FormAlways => FormPriceMatches
  BY <1>1 DEF FormAlways, FormPriceMatches
<1>. QED BY <1>2, FormIsAlways, PTL DEF Spec

LEMMA TypedKept ==
  ASSUME FormInv, Transaction!Next
  PROVE  Transaction!TypedPriceKept
<1> SUFFICES ASSUME page.price # 0, ~page.auto, page'.price # page.price
             PROVE  ~page'.auto
  BY DEF Transaction!TypedPriceKept
<1>0. page \in FormPage /\ FormLinked(page, Elems(calls))
  BY DEF FormInv
<1>1. ASSUME NEW pg, NEW cs, Transaction!Render(pg, cs), pg \in FormPage
      PROVE  page'.price = pg.price /\ page'.auto = pg.auto
  BY <1>1 DEF Transaction!Render, Transaction!EffectPage, FormPage
<1>2. ASSUME NEW i \in DOMAIN calls, Transaction!Network(i)
      PROVE  ~page'.auto
  <2>1. CASE Transaction!Serve(i) \/ Transaction!Lose(i)
    BY <2>1 DEF Transaction!Serve, Transaction!Lose
  <2>2. CASE Transaction!ListArrives(i) \/ Transaction!SaveArrives(i)
    BY <1>0, <2>2 DEF Transaction!ListArrives, Transaction!SaveArrives, FormPage
  <2>3. CASE Transaction!NavArrives(i)
    <3>1. calls[i].kind = "nav" /\ calls[i] \in Elems(calls)
      BY <2>3 DEF Transaction!NavArrives, Transaction!Arrives, Elems
    <3>2. calls[i].about.live => ~calls[i].about.fills
      BY <1>0, <3>1 DEF FormLinked, LiveMatches, Live
    <3>3. \/ page' = page
          \/ \E h, m : page' = [page EXCEPT !.navLoading = FALSE, !.hint = h, !.missing = m]
      BY <2>3, <3>2 DEF Transaction!NavArrives
    <3>. QED BY <1>0, <3>3 DEF FormPage
  <2>. QED BY <1>2, <2>1, <2>2, <2>3 DEF Transaction!Network
<1>3. CASE Transaction!User
  <2>1. ASSUME NEW type \in Transaction!Type, Transaction!HandleTypeChange(type)
        PROVE  ~page'.auto
    <3> DEFINE pg == [page EXCEPT !.type = type,
                        !.instrument = IF Transaction!RequiresPosition(type)
                                            /\ page.instrument \notin page.held
                                       THEN None ELSE page.instrument]
    <3>1. pg \in FormPage /\ pg.auto = page.auto
      BY <1>0 DEF FormPage
    <3>. QED BY <1>1, <2>1, <3>1 DEF Transaction!HandleTypeChange
  <2>2. ASSUME NEW x \in Instrument \cup {None}, Transaction!SelectInstrument(x)
        PROVE  ~page'.auto
    <3>1. [page EXCEPT !.instrument = x] \in FormPage
      BY <1>0 DEF FormPage
    <3>. QED BY <1>0, <1>1, <2>2, <3>1 DEF Transaction!SelectInstrument, FormPage
  <2>3. ASSUME NEW d \in Day \cup {0}, Transaction!EnterDate(d)
        PROVE  ~page'.auto
    <3>1. [page EXCEPT !.date = d] \in FormPage
      BY <1>0 DEF FormPage
    <3>. QED BY <1>0, <1>1, <2>3, <3>1 DEF Transaction!EnterDate, FormPage
  <2>4. ASSUME NEW p \in Typed \cup {0}, Transaction!EnterPrice(p)
        PROVE  ~page'.auto
    <3>0. p \in Nat
      BY FrontendAssumption
    <3>1. [page EXCEPT !.price = p, !.auto = FALSE] \in FormPage
      BY <1>0, <3>0 DEF FormPage
    <3>. QED BY <1>0, <1>1, <2>4, <3>1 DEF Transaction!EnterPrice, FormPage
  <2>5. CASE Transaction!HandleSubmit
    BY <1>0, <2>5 DEF Transaction!HandleSubmit, FormPage
  <2>. QED BY <1>3, <2>1, <2>2, <2>3, <2>4, <2>5 DEF Transaction!User
<1>. QED BY <1>2, <1>3 DEF Transaction!Next

\* No step of the form replaces a price that was typed by a NAV: not even the answer
\* of an effect that was started when the field was empty.
THEOREM TypedPriceStays == Spec => FormKeepsTypedPrice
<1>1. ASSUME FormAlways, [Next]_vars
      PROVE  [view = "transaction" => Transaction!TypedPriceKept]_vars
  BY <1>1, TypedKept DEF Next, FormAlways
<1>. QED BY <1>1, FormIsAlways, PTL DEF Spec, FormKeepsTypedPrice

--------------------------------------------------------------------------------
(* The form that buys by a template.  A preview that is still active is of the  *)
(* template and the date that are chosen; when none is loading, the one on the  *)
(* form is of these, or it failed.                                              *)

BuyPreview ==
    [kind : {"preview"}, status : Status, answer : BOOLEAN \cup {None},
     about : [template : Template, date : Day, active : BOOLEAN]]

BuyOther ==
    [kind : {"templates"}, status : Status, answer : (SUBSET Template) \cup {None},
     about : {None}]
    \cup [kind : {"buy"}, status : Status, answer : BOOLEAN \cup {None},
          about : [template : Template, date : Day]]

BuyCall == BuyPreview \cup BuyOther

Preview == [template : Template, date : Day, complete : BOOLEAN]

BuyPage ==
    [templates : SUBSET Template, template : Template \cup {None}, date : Day \cup {0},
     pageDate : Day \cup {0}, preview : Preview \cup {None}, navLoading : BOOLEAN,
     navError : BOOLEAN, saving : BOOLEAN, closed : BOOLEAN]

BuyAnswered(C) ==
    \A c \in C : c.status = "served" =>
        /\ c.kind = "preview" => c.answer \in BOOLEAN
        /\ c.kind = "templates" => c.answer \in SUBSET Template

ActiveMatches(pg, C) ==
    \A c \in C : c.kind = "preview" /\ c.about.active =>
        /\ c.about.template = pg.template /\ c.about.date = pg.date

Previewed(pg) ==
    Buy!Chosen(pg) /\ ~pg.navLoading =>
        \/ pg.navError /\ pg.preview = None
        \/ pg.preview # None /\ pg.preview.template = pg.template /\ pg.preview.date = pg.date

BuyInv ==
    /\ server.templates \subseteq Template /\ page \in BuyPage /\ calls \in Seq(BuyCall)
    /\ BuyAnswered(Elems(calls))
    /\ ActiveMatches(page, Elems(calls))
    /\ Previewed(page)

LEMMA InactiveElems ==
  ASSUME NEW cs \in Seq(BuyCall), BuyAnswered(Elems(cs))
  PROVE  /\ Buy!Inactive(cs) \in Seq(BuyCall)
         /\ BuyAnswered(Elems(Buy!Inactive(cs)))
         /\ \A c \in Elems(Buy!Inactive(cs)) : ~(c.kind = "preview" /\ c.about.active)
         /\ \A c \in Elems(Buy!Inactive(cs)) : c.kind = "buy" => c \in Elems(cs)
<1> DEFINE g == [c \in BuyCall |->
                   IF c.kind = "preview" THEN [c EXCEPT !.about.active = FALSE] ELSE c]
<1>1. ASSUME NEW c \in BuyCall
      PROVE  /\ g[c] \in BuyCall /\ ~(g[c].kind = "preview" /\ g[c].about.active)
             /\ g[c].kind = c.kind /\ g[c].status = c.status /\ g[c].answer = c.answer
             /\ c.kind = "buy" => g[c] = c
  BY DEF BuyCall, BuyPreview, BuyOther
<1>2. g \in [BuyCall -> BuyCall]
  BY <1>1
<1>3. Buy!Inactive(cs) = [k \in DOMAIN cs |-> g[cs[k]]]
  <2>1. \A k \in DOMAIN cs : cs[k] \in BuyCall
    OBVIOUS
  <2>. QED BY <2>1 DEF Buy!Inactive
<1>4. Elems(cs) \subseteq BuyCall
  BY ElemsTyped
<1>. HIDE DEF g
<1>5. /\ Buy!Inactive(cs) \in Seq(BuyCall)
      /\ Elems(Buy!Inactive(cs)) = {g[c] : c \in Elems(cs)}
  BY <1>2, <1>3, ElemsMapped
<1>. QED BY <1>1, <1>4, <1>5 DEF BuyAnswered

\* What a render does to the calls: the purchases under way stay what they are.
Buying(C) == {c.about : c \in {b \in C : b.kind = "buy"}}

LEMMA BuyRender ==
  ASSUME NEW pg \in BuyPage, NEW cs \in Seq(BuyCall), BuyAnswered(Elems(cs)),
         Buy!Render(pg, cs), server' = server, server.templates \subseteq Template,
         <<pg.template, pg.date>> = <<page.template, page.date>> =>
            ActiveMatches(pg, Elems(cs)) /\ Previewed(pg)
  PROVE  BuyInv' /\ Buying(Elems(calls')) \subseteq Buying(Elems(cs))
<1>1. CASE <<pg.template, pg.date>> = <<page.template, page.date>>
  <2>1. page' = pg /\ calls' = cs
    BY <1>1 DEF Buy!Render
  <2>. QED BY <1>1, <2>1 DEF BuyInv
<1> DEFINE ci == Buy!Inactive(cs)
<1>2. /\ ci \in Seq(BuyCall) /\ BuyAnswered(Elems(ci))
      /\ \A c \in Elems(ci) : ~(c.kind = "preview" /\ c.about.active)
      /\ \A c \in Elems(ci) : c.kind = "buy" => c \in Elems(cs)
  BY InactiveElems
<1>. HIDE DEF ci
<1>3. CASE <<pg.template, pg.date>> # <<page.template, page.date>> /\ Buy!Chosen(pg)
  <2> DEFINE c == [kind |-> "preview", status |-> "sent", answer |-> None,
                   about |-> [template |-> pg.template, date |-> pg.date, active |-> TRUE]]
  <2>1. page' = [pg EXCEPT !.navLoading = TRUE, !.navError = FALSE] /\ calls' = Append(ci, c)
    BY <1>3 DEF Buy!Render, Buy!Send, Buy!Call, ci
  <2>2. c \in BuyCall /\ c.status = "sent" /\ c.kind = "preview"
        /\ c.about.template = pg.template /\ c.about.date = pg.date
    BY <1>3 DEF BuyPage, BuyCall, BuyPreview, Status, Buy!Chosen
  <2>. HIDE DEF c
  <2>3. calls' \in Seq(BuyCall) /\ Elems(calls') = Elems(ci) \cup {c}
    BY <1>2, <2>1, <2>2, ElemsAppended
  <2>4. page' \in BuyPage /\ page'.template = pg.template /\ page'.date = pg.date
        /\ page'.navLoading
    BY <2>1 DEF BuyPage
  <2>5. BuyAnswered(Elems(calls')) /\ ActiveMatches(page', Elems(calls')) /\ Previewed(page')
    BY <1>2, <2>2, <2>3, <2>4 DEF BuyAnswered, ActiveMatches, Previewed
  <2>6. Buying(Elems(calls')) \subseteq Buying(Elems(cs))
    BY <1>2, <2>2, <2>3 DEF Buying
  <2>. QED BY <2>3, <2>4, <2>5, <2>6 DEF BuyInv
<1>4. CASE <<pg.template, pg.date>> # <<page.template, page.date>> /\ ~Buy!Chosen(pg)
  <2>1. /\ page' = [pg EXCEPT !.preview = None, !.navLoading = FALSE, !.navError = FALSE]
        /\ calls' = ci
    BY <1>4 DEF Buy!Render, ci
  <2>2. page' \in BuyPage /\ page'.template = pg.template /\ page'.date = pg.date
    BY <2>1 DEF BuyPage
  <2>3. ActiveMatches(page', Elems(calls')) /\ Previewed(page')
    BY <1>2, <1>4, <2>1, <2>2 DEF ActiveMatches, Previewed, Buy!Chosen
  <2>4. Buying(Elems(calls')) \subseteq Buying(Elems(cs))
    BY <1>2, <2>1 DEF Buying
  <2>. QED BY <1>2, <2>1, <2>2, <2>3, <2>4 DEF BuyInv
<1>. QED BY <1>1, <1>3, <1>4

LEMMA InitBuy ==
  ASSUME Buy!Init
  PROVE  BuyInv
<1>1. PICK ts \in SUBSET Template, ps \in SUBSET (Template \X Day), d \in Day \cup {0} :
        /\ server = [templates |-> ts, priced |-> ps] /\ page = Buy!Fresh(d)
        /\ calls = Buy!Send(<<>>, "templates", None)
  <2>1. PICK o \in Buy!Openings : server = o.server /\ page = o.page /\ calls = o.calls
    BY DEF Buy!Init
  <2>2. PICK ts \in SUBSET Template, ps \in SUBSET (Template \X Day), d \in Day \cup {0} :
          o = [server |-> [templates |-> ts, priced |-> ps], page |-> Buy!Fresh(d),
               calls |-> Buy!Send(<<>>, "templates", None)]
    BY <2>1 DEF Buy!Openings
  <2>. QED BY <2>1, <2>2
<1> DEFINE c == [kind |-> "templates", about |-> None, status |-> "sent", answer |-> None]
<1>2. c \in BuyCall /\ c.status = "sent" /\ c.kind = "templates"
  BY DEF BuyCall, BuyOther, Status
<1>3. calls = Append(<<>>, c)
  BY <1>1 DEF Buy!Send, Buy!Call
<1>. HIDE DEF c
<1>4. calls \in Seq(BuyCall) /\ Elems(calls) = {c}
  BY <1>2, <1>3, ElemsOne
<1>5. page \in BuyPage /\ page.template = None
  BY <1>1, FrontendAssumption DEF Buy!Fresh, BuyPage
<1>. QED BY <1>1, <1>2, <1>4, <1>5
     DEF BuyInv, BuyAnswered, ActiveMatches, Previewed, Buy!Chosen

LEMMA BuyServed ==
  ASSUME BuyInv, NEW i \in DOMAIN calls, Buy!Serve(i) \/ Buy!Lose(i)
  PROVE  BuyInv' /\ Buying(Elems(calls')) \subseteq Buying(Elems(calls))
<1> DEFINE old == calls[i]
<1>0. calls \in Seq(BuyCall) /\ old \in BuyCall /\ old \in Elems(calls)
  BY DEF BuyInv, Elems
<1>s. PICK status \in Status : \E answer :
        /\ calls' = [calls EXCEPT ![i].status = status, ![i].answer = answer]
        /\ \/ status = "failed" /\ answer = None
           \/ /\ status = "served"
              /\ old.kind = "templates" => answer \in SUBSET Template
              /\ old.kind # "templates" => answer \in BOOLEAN
  <2>1. CASE Buy!Serve(i)
    <3> DEFINE priced == <<old.about.template, old.about.date>> \in server.priced
    <3>1. \/ calls' = [calls EXCEPT ![i].status = "failed", ![i].answer = None]
          \/ /\ old.kind = "templates"
             /\ calls' = [calls EXCEPT ![i].status = "served", ![i].answer = server.templates]
          \/ /\ old.kind # "templates"
             /\ calls' = [calls EXCEPT ![i].status = "served", ![i].answer = priced]
      BY <2>1 DEF Buy!Serve, Buy!Served, Buy!Lost
    <3>2. priced \in BOOLEAN /\ server.templates \in SUBSET Template
      BY DEF BuyInv
    <3>. HIDE DEF priced, old
    <3>. QED BY <3>1, <3>2 DEF Status
  <2>2. CASE Buy!Lose(i)
    BY <2>2 DEF Buy!Lose, Buy!Lost, Status
  <2>. QED BY <2>1, <2>2
<1>1. PICK answer :
        /\ calls' = [calls EXCEPT ![i].status = status, ![i].answer = answer]
        /\ \/ status = "failed" /\ answer = None
           \/ /\ status = "served"
              /\ old.kind = "templates" => answer \in SUBSET Template
              /\ old.kind # "templates" => answer \in BOOLEAN
  BY <1>s
<1> DEFINE new == [old EXCEPT !.status = status, !.answer = answer]
<1>2. new \in BuyCall
  <2>. HIDE DEF old
  <2>. QED BY <1>0, <1>1 DEF BuyCall, BuyPreview, BuyOther
<1>3. /\ new.kind = old.kind /\ new.about = old.about
      /\ new.status = status /\ new.answer = answer
  BY <1>0 DEF BuyCall, BuyPreview, BuyOther
<1>4. calls' \in Seq(BuyCall) /\ Elems(calls') \subseteq Elems(calls) \cup {new}
  BY <1>0, <1>1, <1>2, ElemsAnswered
<1>5. server' = server /\ page' = page
  BY DEF Buy!Serve, Buy!Lose
<1>. HIDE DEF old, new
<1>6. BuyAnswered(Elems(calls')) /\ ActiveMatches(page', Elems(calls')) /\ Previewed(page')
  BY <1>0, <1>1, <1>3, <1>4, <1>5 DEF BuyInv, BuyAnswered, ActiveMatches, Previewed
<1>7. Buying(Elems(calls')) \subseteq Buying(Elems(calls))
  BY <1>0, <1>3, <1>4 DEF Buying
<1>. QED BY <1>4, <1>5, <1>6, <1>7 DEF BuyInv

LEMMA BuyArrived ==
  ASSUME BuyInv, NEW i \in DOMAIN calls,
         Buy!TemplatesArrive(i) \/ Buy!PreviewArrives(i) \/ Buy!BuyArrives(i)
  PROVE  BuyInv' /\ Buying(Elems(calls')) \subseteq Buying(Elems(calls))
<1> DEFINE rest == Buy!Rest(i)
           c == calls[i]
<1>1. rest = Dropped(calls, i)
  BY DEF Buy!Rest, Buy!RemoveAt, Dropped
<1>. HIDE DEF rest
<1>2. rest \in Seq(BuyCall) /\ Elems(rest) \subseteq Elems(calls)
  BY <1>1, ElemsDropped DEF BuyInv
<1>3. /\ BuyAnswered(Elems(rest)) /\ ActiveMatches(page, Elems(rest))
      /\ Buying(Elems(rest)) \subseteq Buying(Elems(calls))
  BY <1>2 DEF BuyInv, BuyAnswered, ActiveMatches, Buying
<1>4. /\ c \in Elems(calls) /\ c \in BuyCall /\ page \in BuyPage
      /\ server' = server /\ server.templates \subseteq Template
  <2>1. server' = server
    BY DEF Buy!TemplatesArrive, Buy!PreviewArrives, Buy!BuyArrives, Buy!Arrives
  <2>. QED BY <2>1 DEF BuyInv, Elems
<1>5. CASE Buy!TemplatesArrive(i)
  <2>1. CASE Buy!Succeeds(c) /\ c.answer # {}
    <3>1. PICK first \in c.answer :
            Buy!Render([page EXCEPT !.templates = c.answer, !.template = first], rest)
      BY <1>5, <2>1 DEF Buy!TemplatesArrive, rest
    <3> DEFINE pg == [page EXCEPT !.templates = c.answer, !.template = first]
    <3>2. c.answer \in SUBSET Template
      BY <1>4, <1>5, <2>1
      DEF BuyInv, BuyAnswered, Buy!TemplatesArrive, Buy!Arrives, Buy!Succeeds
    <3>. HIDE DEF c
    <3>3. /\ pg \in BuyPage /\ pg.date = page.date /\ pg.navLoading = page.navLoading
          /\ pg.navError = page.navError /\ pg.preview = page.preview
      BY <1>4, <3>1, <3>2 DEF BuyPage
    <3>. HIDE DEF pg
    <3>4. pg.template = page.template => ActiveMatches(pg, Elems(rest)) /\ Previewed(pg)
      BY <1>3, <3>3 DEF BuyInv, ActiveMatches, Previewed, Buy!Chosen
    <3>5. Buy!Render(pg, rest)
      BY <3>1 DEF pg
    <3>6. BuyInv' /\ Buying(Elems(calls')) \subseteq Buying(Elems(rest))
      BY <1>2, <1>3, <1>4, <3>3, <3>4, <3>5, BuyRender
    <3>. QED BY <1>3, <3>6
  <2>2. CASE ~(Buy!Succeeds(c) /\ c.answer # {})
    <3>1. page' = page /\ calls' = rest
      BY <1>5, <2>2 DEF Buy!TemplatesArrive, rest
    <3>. QED BY <1>2, <1>3, <1>4, <3>1 DEF BuyInv
  <2>. QED BY <2>1, <2>2
<1>6. CASE Buy!PreviewArrives(i)
  <2>1. c \in BuyPreview /\ calls' = rest
    BY <1>4, <1>6 DEF Buy!PreviewArrives, Buy!Arrives, BuyCall, BuyOther, rest
  <2>2. CASE ~c.about.active
    <3>1. page' = page
      BY <1>6, <2>2 DEF Buy!PreviewArrives
    <3>. QED BY <1>2, <1>3, <1>4, <2>1, <3>1 DEF BuyInv
  <2>3. CASE c.about.active
    <3>1. c.about.template = page.template /\ c.about.date = page.date
      BY <1>4, <2>1, <2>3 DEF BuyInv, ActiveMatches, BuyPreview
    <3> DEFINE shown == [template |-> c.about.template, date |-> c.about.date,
                         complete |-> c.answer]
               pn == IF Buy!Succeeds(c) THEN shown ELSE None
    <3>2. page' = [page EXCEPT !.navLoading = FALSE, !.navError = ~Buy!Succeeds(c),
                               !.preview = pn]
      BY <1>6, <2>3 DEF Buy!PreviewArrives
    <3>3. Buy!Succeeds(c) => shown \in Preview
      BY <1>4, <2>1 DEF BuyInv, BuyAnswered, BuyPreview, Preview, Buy!Succeeds
    <3>4. shown \in Preview => shown # None
      BY FrontendAssumption DEF Preview
    <3>5. shown.template = page.template /\ shown.date = page.date
      BY <3>1
    <3>. HIDE DEF shown
    <3>6. pn \in Preview \cup {None} /\ (Buy!Succeeds(c) \in BOOLEAN)
      BY <3>3 DEF Buy!Succeeds
    <3>. HIDE DEF pn
    <3>7. /\ page' \in BuyPage /\ page'.template = page.template /\ page'.date = page.date
          /\ page'.preview = pn /\ page'.navError = ~Buy!Succeeds(c)
      BY <1>4, <3>2, <3>6 DEF BuyPage
    <3>8. Previewed(page')
      BY <3>3, <3>4, <3>5, <3>7 DEF Previewed, pn
    <3>9. ActiveMatches(page', Elems(rest))
      BY <1>3, <3>7 DEF ActiveMatches
    <3>. QED BY <1>2, <1>3, <1>4, <2>1, <3>7, <3>8, <3>9 DEF BuyInv
  <2>. QED BY <2>2, <2>3
<1>7. CASE Buy!BuyArrives(i)
  <2>1. calls' = rest
    BY <1>7 DEF Buy!BuyArrives, rest
  <2>2. page' = [page EXCEPT !.closed = TRUE] \/ page' = [page EXCEPT !.saving = FALSE]
    BY <1>7 DEF Buy!BuyArrives
  <2>3. /\ page' \in BuyPage /\ page'.template = page.template /\ page'.date = page.date
        /\ page'.preview = page.preview /\ page'.navError = page.navError
        /\ page'.navLoading = page.navLoading
    BY <1>4, <2>2 DEF BuyPage
  <2>4. ActiveMatches(page', Elems(rest)) /\ Previewed(page')
    BY <1>3, <2>3 DEF BuyInv, ActiveMatches, Previewed, Buy!Chosen
  <2>. QED BY <1>2, <1>3, <1>4, <2>1, <2>3, <2>4 DEF BuyInv
<1>. QED BY <1>5, <1>6, <1>7

\* The user chooses another template or another date.
LEMMA BuyChosen ==
  ASSUME BuyInv, NEW pg \in BuyPage, Buy!Render(pg, calls), server' = server,
         pg.preview = page.preview, pg.navError = page.navError, pg.navLoading = page.navLoading
  PROVE  BuyInv' /\ Buying(Elems(calls')) \subseteq Buying(Elems(calls))
<1>1. <<pg.template, pg.date>> = <<page.template, page.date>> =>
         ActiveMatches(pg, Elems(calls)) /\ Previewed(pg)
  BY DEF BuyInv, ActiveMatches, Previewed, Buy!Chosen
<1>. QED BY <1>1, BuyRender DEF BuyInv

\* The form is sent: what is bought is what the preview on it is of.
LEMMA BuySubmitted ==
  ASSUME BuyInv, Buy!HandleSubmit
  PROVE  /\ BuyInv'
         /\ \A b \in Buying(Elems(calls')) \ Buying(Elems(calls)) :
              \/ page.navError /\ page.preview = None
              \/ page.preview = [template |-> b.template, date |-> b.date, complete |-> TRUE]
<1> DEFINE b == [template |-> page.template, date |-> page.date]
           c == [kind |-> "buy", about |-> b, status |-> "sent", answer |-> None]
<1>1. /\ Buy!Chosen(page) /\ ~page.navLoading /\ ~Buy!HasMissingNav(page)
      /\ page' = [page EXCEPT !.saving = TRUE] /\ calls' = Append(calls, c)
      /\ server' = server
  BY DEF Buy!HandleSubmit, Buy!Send, Buy!Call, Buy!Chosen
<1>2. page \in BuyPage /\ calls \in Seq(BuyCall)
  BY DEF BuyInv
<1>3. c \in BuyCall /\ c.kind = "buy" /\ c.status = "sent" /\ c.about = b
  BY <1>1, <1>2 DEF BuyCall, BuyOther, BuyPage, Status, Buy!Chosen
<1>4. b.template = page.template /\ b.date = page.date
  OBVIOUS
<1>. HIDE DEF b, c
<1>5. calls' \in Seq(BuyCall) /\ Elems(calls') = Elems(calls) \cup {c}
  BY <1>1, <1>2, <1>3, ElemsAppended
<1>6. /\ page' \in BuyPage /\ page'.template = page.template /\ page'.date = page.date
      /\ page'.preview = page.preview /\ page'.navError = page.navError
      /\ page'.navLoading = page.navLoading
  BY <1>1, <1>2 DEF BuyPage
<1>7. BuyInv'
  BY <1>1, <1>3, <1>5, <1>6
  DEF BuyInv, BuyAnswered, ActiveMatches, Previewed, Buy!Chosen
<1>8. Buying(Elems(calls')) \subseteq Buying(Elems(calls)) \cup {b}
  BY <1>3, <1>5 DEF Buying
<1>9. \/ page.navError /\ page.preview = None
      \/ page.preview = [template |-> b.template, date |-> b.date, complete |-> TRUE]
  <2>1. CASE page.preview = None
    BY <1>1, <2>1 DEF BuyInv, Previewed
  <2>2. CASE page.preview # None
    <3>1. /\ page.preview \in Preview
          /\ page.preview.template = b.template /\ page.preview.date = b.date
      BY <1>1, <1>2, <1>4, <2>2 DEF BuyInv, Previewed, BuyPage
    <3>2. page.preview.complete = TRUE
      BY <1>1, <2>2, <3>1 DEF Buy!HasMissingNav, Preview
    <3>3. page.preview = [template |-> page.preview.template, date |-> page.preview.date,
                          complete |-> page.preview.complete]
      BY <3>1 DEF Preview
    <3>. QED BY <3>1, <3>2, <3>3
  <2>. QED BY <2>1, <2>2
<1>. QED BY <1>7, <1>8, <1>9

LEMMA BuyNext ==
  ASSUME BuyInv, Buy!Next
  PROVE  BuyInv' /\ Buy!BuysArePreviewed
<1>0. page \in BuyPage
  BY DEF BuyInv
<1>1. \A cs : {cs[i].about : i \in {j \in DOMAIN cs : cs[j].kind = "buy"}} = Buying(Elems(cs))
  BY DEF Buying, Elems
<1>2. Buying(Elems(calls')) \subseteq Buying(Elems(calls)) => Buy!BuysArePreviewed
  BY <1>1 DEF Buy!BuysArePreviewed
<1>3. ASSUME NEW i \in DOMAIN calls, Buy!Network(i)
      PROVE  BuyInv' /\ Buy!BuysArePreviewed
  BY <1>2, <1>3, BuyServed, BuyArrived DEF Buy!Network
<1>4. ASSUME NEW t \in Template, Buy!DeleteTemplate(t)
      PROVE  BuyInv' /\ Buy!BuysArePreviewed
  <2>1. server'.templates \subseteq Template /\ UNCHANGED <<page, calls>>
    <3>1. server' = [server EXCEPT !.templates = server.templates \ {t}]
      BY <1>4 DEF Buy!DeleteTemplate
    <3>. QED BY <1>4, <3>1 DEF Buy!DeleteTemplate, BuyInv
  <2>. QED BY <1>2, <2>1 DEF BuyInv
<1>5. ASSUME NEW t \in Template \cup {None}, Buy!SelectTemplate(t)
      PROVE  BuyInv' /\ Buy!BuysArePreviewed
  <2> DEFINE pg == [page EXCEPT !.template = t]
  <2>1. /\ pg \in BuyPage /\ pg.preview = page.preview /\ pg.navError = page.navError
        /\ pg.navLoading = page.navLoading
    BY <1>0 DEF BuyPage
  <2>2. Buy!Render(pg, calls) /\ server' = server
    BY <1>5 DEF Buy!SelectTemplate, Buy!UserChooses
  <2>. HIDE DEF pg
  <2>. QED BY <1>2, <2>1, <2>2, BuyChosen
<1>6. ASSUME NEW d \in Day \cup {0}, Buy!EnterDate(d)
      PROVE  BuyInv' /\ Buy!BuysArePreviewed
  <2> DEFINE pg == [page EXCEPT !.date = d]
  <2>1. /\ pg \in BuyPage /\ pg.preview = page.preview /\ pg.navError = page.navError
        /\ pg.navLoading = page.navLoading
    BY <1>0 DEF BuyPage
  <2>2. Buy!Render(pg, calls) /\ server' = server
    BY <1>6 DEF Buy!EnterDate, Buy!UserChooses
  <2>. HIDE DEF pg
  <2>. QED BY <1>2, <2>1, <2>2, BuyChosen
<1>7. ASSUME NEW d \in Day \cup {0}, Buy!ChangePageDate(d)
      PROVE  BuyInv' /\ Buy!BuysArePreviewed
  <2> DEFINE pg == [page EXCEPT !.pageDate = d, !.date = IF d = 0 THEN Today ELSE d]
  <2>1. /\ pg \in BuyPage /\ pg.preview = page.preview /\ pg.navError = page.navError
        /\ pg.navLoading = page.navLoading
    BY <1>0, FrontendAssumption DEF BuyPage
  <2>2. Buy!Render(pg, calls) /\ server' = server
    BY <1>7 DEF Buy!ChangePageDate, Buy!UserChooses
  <2>. HIDE DEF pg
  <2>. QED BY <1>2, <2>1, <2>2, BuyChosen
<1>8. CASE Buy!HandleSubmit
  BY <1>1, <1>8, BuySubmitted DEF Buy!BuysArePreviewed
<1>. QED BY <1>3, <1>4, <1>5, <1>6, <1>7, <1>8 DEF Buy!Next, Buy!User

BuyAlways == view = "buy" => BuyInv

\* Nothing is bought that was not previewed: whatever was chosen before and in whatever
\* order the previews came, the preview on the form that is sent is of the template and
\* the date that are sent and has all prices, or the form says that it failed.
THEOREM BoughtAsPreviewed == Spec => TemplateBuysPreviewed
<1>1. Init => BuyAlways
  BY InitBuy DEF Init, BuyAlways
<1>2. ASSUME BuyAlways, Next
      PROVE  BuyAlways' /\ (view = "buy" => Buy!BuysArePreviewed)
  BY <1>2, BuyNext DEF Next, BuyAlways
<1>3. ASSUME BuyAlways, UNCHANGED vars
      PROVE  BuyAlways'
  BY <1>3 DEF vars, BuyAlways, BuyInv
<1>4. BuyAlways /\ [Next]_vars => BuyAlways'
  BY <1>2, <1>3
<1>5. BuyAlways /\ [Next]_vars => [view = "buy" => Buy!BuysArePreviewed]_vars
  BY <1>2
<1>. QED BY <1>1, <1>4, <1>5, PTL DEF Spec, TemplateBuysPreviewed

--------------------------------------------------------------------------------
(* The buttons that synchronise all instruments.  As long as the user waits     *)
(* there is one loop: the call it waits for, the row that is running, and what  *)
(* is left to do; all other rows say how their sync ended.                      *)

SyncCall ==
    [kind : {"list"}, status : Status, answer : (SUBSET Instrument) \cup {None},
     about : SyncButton!Mode]
    \cup [kind : {"sync"}, status : Status, answer : SyncButton!Outcome \cup {None},
          about : [instrument : Instrument, mode : SyncButton!Mode, todo : Seq(Instrument)]]
    \cup [kind : {"complete"}, status : Status, answer : (SUBSET Instrument) \cup {None},
          about : {None}]

Rows(D) == [D -> SyncButton!Outcome \cup {"pending", "running"}]

SyncPage ==
    [open : BOOLEAN, loading : BOOLEAN, rows : UNION {Rows(D) : D \in SUBSET Instrument},
     fetchError : BOOLEAN, mode : SyncButton!Mode, confirmForce : BOOLEAN,
     listed : (SUBSET Instrument) \cup {None}]

Looping(c) == c.kind \in {"list", "sync"}

OneLoop(cs) == \A j, k \in DOMAIN cs : Looping(cs[j]) /\ Looping(cs[k]) => j = k

Distinct(s) == \A j, k \in DOMAIN s : s[j] = s[k] => j = k

\* Without failures, the row of an instrument that is still there says how its sync
\* ended, and in the mode that was chosen.
Reported(hb, sv, x, outcome, mode) ==
    /\ outcome \in SyncButton!Outcome
    /\ "fail" \notin hb /\ x \in sv.instruments =>
          sv.synced[x] = [outcome |-> outcome, mode |-> mode]

SyncTurn(hb, pg, sv, c) ==
    LET x == c.about.instrument  todo == Elems(c.about.todo) IN
    /\ c.about.mode = pg.mode /\ Distinct(c.about.todo) /\ x \notin todo
    /\ {x} \cup todo \subseteq DOMAIN pg.rows
    /\ pg.rows[x] = "running" /\ \A y \in todo : pg.rows[y] = "pending"
    /\ \A y \in DOMAIN pg.rows \ ({x} \cup todo) : Reported(hb, sv, y, pg.rows[y], pg.mode)
    /\ c.status = "served" => Reported(hb, sv, x, c.answer, pg.mode)
    /\ c.status = "failed" /\ "fail" \notin hb => x \notin sv.instruments

ListTurn(pg, c) ==
    c.about = pg.mode /\ DOMAIN pg.rows = {} /\ (c.status = "served" => c.answer \in SUBSET Instrument)

SyncLinked(hb, pg, sv, C) ==
    /\ pg.loading <=> \E c \in C : Looping(c)
    /\ pg.confirmForce => ~pg.loading
    /\ \A c \in C : c.kind = "list" => ListTurn(pg, c)
    /\ \A c \in C : c.kind = "sync" => SyncTurn(hb, pg, sv, c)
    /\ \A c \in C : c.kind = "complete" /\ c.status = "served" => c.answer \in SUBSET Instrument
    /\ ~pg.loading => \A x \in DOMAIN pg.rows : Reported(hb, sv, x, pg.rows[x], pg.mode)

SyncInv ==
    /\ server.instruments \subseteq Instrument /\ DOMAIN server = {"instruments", "synced"}
    /\ DOMAIN server.synced = Instrument
    /\ page \in SyncPage /\ calls \in Seq(SyncCall) /\ OneLoop(calls)
    /\ SyncLinked(habits, page, server, Elems(calls))

LEMMA OneLoopDropped ==
  ASSUME NEW cs \in Seq(SyncCall), OneLoop(cs), NEW i \in DOMAIN cs
  PROVE  /\ OneLoop(Dropped(cs, i))
         /\ Looping(cs[i]) => \A c \in Elems(Dropped(cs, i)) : ~Looping(c)
<1> DEFINE d == Dropped(cs, i)
           at(j) == IF j < i THEN j ELSE j + 1
<1>1. /\ d \in Seq(SyncCall) /\ Len(d) = Len(cs) - 1
      /\ \A j \in 1..(Len(cs) - 1) : d[j] = cs[at(j)]
  BY DroppedAt
<1>. HIDE DEF d
<1>2. DOMAIN d = 1..(Len(cs) - 1) /\ DOMAIN cs = 1..Len(cs) /\ Len(cs) \in Nat
  BY <1>1
<1>3. /\ \A j \in DOMAIN d : at(j) \in DOMAIN cs /\ at(j) # i /\ d[j] = cs[at(j)]
      /\ \A j, k \in DOMAIN d : at(j) = at(k) => j = k
  BY <1>1, <1>2
<1>. HIDE DEF at
<1>. QED BY <1>3 DEF OneLoop, Elems, d

LEMMA OneLoopAppended ==
  ASSUME NEW cs \in Seq(SyncCall), OneLoop(cs), NEW c \in SyncCall,
         Looping(c) => \A b \in Elems(cs) : ~Looping(b)
  PROVE  OneLoop(Append(cs, c))
<1>1. /\ DOMAIN Append(cs, c) = 1..(Len(cs) + 1) /\ DOMAIN cs = 1..Len(cs) /\ Len(cs) \in Nat
      /\ \A j \in 1..Len(cs) : Append(cs, c)[j] = cs[j]
      /\ Append(cs, c)[Len(cs) + 1] = c
  OBVIOUS
<1>. QED BY <1>1 DEF OneLoop, Elems

LEMMA FirstOfTodo ==
  ASSUME NEW s \in Seq(Instrument), Distinct(s), s # <<>>
  PROVE  /\ Head(s) \in Instrument /\ Tail(s) \in Seq(Instrument) /\ Distinct(Tail(s))
         /\ Head(s) \notin Elems(Tail(s)) /\ Elems(s) = Elems(Tail(s)) \cup {Head(s)}
<1>1. /\ Len(s) \in Nat \ {0} /\ DOMAIN s = 1..Len(s) /\ Head(s) = s[1]
      /\ Tail(s) \in Seq(Instrument) /\ DOMAIN Tail(s) = 1..(Len(s) - 1)
      /\ \A j \in 1..(Len(s) - 1) : Tail(s)[j] = s[j + 1]
  OBVIOUS
<1>2. Distinct(Tail(s)) /\ Head(s) \notin Elems(Tail(s)) /\ Head(s) \in Instrument
  BY <1>1 DEF Distinct, Elems
<1>3. Elems(s) \subseteq Elems(Tail(s)) \cup {Head(s)}
  <2>1. ASSUME NEW j \in DOMAIN s, j # 1
        PROVE  s[j] \in Elems(Tail(s))
    <3>1. j - 1 \in DOMAIN Tail(s) /\ Tail(s)[j - 1] = s[j]
      BY <1>1, <2>1
    <3>. QED BY <3>1 DEF Elems
  <2>. QED BY <1>1, <2>1 DEF Elems
<1>4. Elems(Tail(s)) \cup {Head(s)} \subseteq Elems(s)
  BY <1>1 DEF Elems
<1>. QED BY <1>1, <1>2, <1>3, <1>4

\* A finite set as a sequence has each element once.
LEMMA TodoOfSet ==
  ASSUME NEW S \in SUBSET Instrument
  PROVE  /\ SyncButton!Ordered(S) \in Seq(Instrument)
         /\ Distinct(SyncButton!Ordered(S)) /\ Elems(SyncButton!Ordered(S)) = S
<1>1. IsFiniteSet(S)
  BY FrontendAssumption, FS_Subset
<1>2. Cardinality(S) \in Nat /\ ExistsBijection(1..Cardinality(S), S)
  BY <1>1, FS_CardinalityType
<1>3. \E f \in [1..Cardinality(S) -> S] : IsInjective(f)
  BY <1>2 DEF ExistsBijection, Bijection, Injection
<1> DEFINE s == CHOOSE f \in [1..Cardinality(S) -> S] : IsInjective(f)
<1>4. s \in [1..Cardinality(S) -> S] /\ IsInjective(s)
  BY <1>3
<1>5. SyncButton!Ordered(S) = s
  <2>1. SyncButton!Cardinality(S) = Cardinality(S)
    BY DEF SyncButton!Cardinality, Cardinality
  <2>2. \A f : SyncButton!IsInjective(f) <=> IsInjective(f)
    BY DEF SyncButton!IsInjective, IsInjective
  <2>. QED BY <2>1, <2>2 DEF SyncButton!Ordered
<1>. HIDE DEF s
<1>6. s \in Surjection(1..Cardinality(S), S)
  <2>1. s \in Injection(1..Cardinality(S), S)
    BY <1>4 DEF Injection
  <2>2. IsFiniteSet(1..Cardinality(S)) /\ Cardinality(1..Cardinality(S)) = Cardinality(S)
    BY <1>2, FS_Interval
  <2>. QED BY <1>1, <2>1, <2>2, FS_Injection
<1>7. s \in Seq(Instrument) /\ Distinct(s)
  BY <1>2, <1>4 DEF Distinct, IsInjective
<1>8. Elems(s) = S
  BY <1>4, <1>6 DEF Elems, Surjection
<1>. QED BY <1>5, <1>7, <1>8

LEMMA PatchedRows ==
  ASSUME NEW D \in SUBSET Instrument, NEW rows \in Rows(D), NEW x,
         NEW status \in SyncButton!Outcome \cup {"pending", "running"}
  PROVE  /\ SyncButton!Patched(rows, x, status) \in Rows(D)
         /\ \A y \in D : SyncButton!Patched(rows, x, status)[y]
                            = IF y = x THEN status ELSE rows[y]
  BY DEF SyncButton!Patched, Rows

\* The next turn of the loop, or its end.
LEMMA LoopContinues ==
  ASSUME SyncInv, page.loading, UNCHANGED <<habits, server>>,
         NEW D \in SUBSET Instrument, NEW rows \in Rows(D), NEW cs \in Seq(SyncCall), OneLoop(cs),
         \A c \in Elems(cs) : ~Looping(c) /\ c \in Elems(calls),
         NEW todo \in Seq(Instrument), Distinct(todo), Elems(todo) \subseteq D,
         \A y \in Elems(todo) : rows[y] = "pending",
         \A y \in D \ Elems(todo) : Reported(habits, server, y, rows[y], page.mode),
         SyncButton!Continue(rows, page.mode, todo, cs)
  PROVE  SyncInv'
<1>0. /\ page \in SyncPage /\ ~page.confirmForce /\ page.mode \in SyncButton!Mode
      /\ DOMAIN rows = D
  BY DEF SyncInv, SyncLinked, SyncPage, Rows
<1>1. \A c \in Elems(cs) : /\ c.kind # "list" /\ c.kind # "sync"
                           /\ c.kind = "complete" /\ c.status = "served" =>
                                c.answer \in SUBSET Instrument
  BY DEF SyncInv, SyncLinked, Looping
<1>2. SUFFICES /\ page' \in SyncPage /\ calls' \in Seq(SyncCall) /\ OneLoop(calls')
               /\ SyncLinked(habits, page', server, Elems(calls'))
  BY DEF SyncInv
<1>3. CASE todo = <<>>
  <2> DEFINE c == [kind |-> "complete", about |-> None, status |-> "sent", answer |-> None]
  <2>1. c \in SyncCall /\ ~Looping(c) /\ c.status = "sent" /\ c.kind = "complete"
    BY DEF SyncCall, Status, Looping
  <2>2. page' = [page EXCEPT !.rows = rows, !.loading = FALSE] /\ calls' = Append(cs, c)
    BY <1>3 DEF SyncButton!Continue, SyncButton!Send, SyncButton!Call
  <2>. HIDE DEF c
  <2>3. calls' \in Seq(SyncCall) /\ Elems(calls') = Elems(cs) \cup {c} /\ OneLoop(calls')
    BY <2>1, <2>2, ElemsAppended, OneLoopAppended
  <2>4. /\ page' \in SyncPage /\ ~page'.loading /\ page'.rows = rows /\ page'.mode = page.mode
        /\ ~page'.confirmForce
    BY <1>0, <2>2 DEF SyncPage
  <2>5. Elems(todo) = {}
    BY <1>3, ElemsNone
  <2>6. SyncLinked(habits, page', server, Elems(calls'))
    BY <1>0, <1>1, <2>1, <2>3, <2>4, <2>5 DEF SyncLinked, Looping
  <2>. QED BY <2>3, <2>4, <2>6
<1>4. CASE todo # <<>>
  <2> DEFINE x == Head(todo)
             rest == Tail(todo)
             patched == SyncButton!Patched(rows, x, "running")
             about == [instrument |-> x, mode |-> page.mode, todo |-> rest]
             c == [kind |-> "sync", about |-> about, status |-> "sent", answer |-> None]
  <2>1. /\ x \in Instrument /\ rest \in Seq(Instrument) /\ Distinct(rest)
        /\ x \notin Elems(rest) /\ Elems(todo) = Elems(rest) \cup {x}
    BY <1>4, FirstOfTodo
  <2>2. page' = [page EXCEPT !.rows = patched] /\ calls' = Append(cs, c)
    BY <1>4 DEF SyncButton!Continue, SyncButton!Send, SyncButton!Call
  <2>3. /\ patched \in Rows(D)
        /\ \A y \in D : patched[y] = IF y = x THEN "running" ELSE rows[y]
    BY PatchedRows
  <2>. HIDE DEF x, rest, patched
  <2>4. /\ c \in SyncCall /\ Looping(c) /\ c.status = "sent" /\ c.kind = "sync"
        /\ c.about.instrument = x /\ c.about.mode = page.mode /\ c.about.todo = rest
    BY <1>0, <2>1 DEF SyncCall, Status, Looping
  <2>. HIDE DEF c
  <2>5. calls' \in Seq(SyncCall) /\ Elems(calls') = Elems(cs) \cup {c} /\ OneLoop(calls')
    BY <2>2, <2>4, ElemsAppended, OneLoopAppended
  <2>6. /\ page' \in SyncPage /\ page'.loading /\ page'.rows = patched /\ page'.mode = page.mode
        /\ ~page'.confirmForce
    BY <1>0, <2>2, <2>3 DEF SyncPage
  <2>7. DOMAIN patched = D
    BY <2>3 DEF Rows
  <2>8. SyncTurn(habits, page', server, c)
    <3>1. {x} \cup Elems(rest) \subseteq D /\ patched[x] = "running"
      BY <2>1, <2>3
    <3>2. \A y \in Elems(rest) : patched[y] = "pending"
      BY <2>1, <2>3
    <3>3. ASSUME NEW y \in D \ ({x} \cup Elems(rest))
          PROVE  Reported(habits, server, y, patched[y], page.mode)
      BY <2>1, <2>3
    <3>. QED BY <2>1, <2>4, <2>6, <2>7, <3>1, <3>2, <3>3 DEF SyncTurn
  <2>9. SyncLinked(habits, page', server, Elems(calls'))
    BY <1>1, <2>4, <2>5, <2>6, <2>8 DEF SyncLinked, Looping
  <2>. QED BY <2>5, <2>6, <2>9
<1>. QED BY <1>3, <1>4

LEMMA InitSync ==
  ASSUME SyncButton!Init
  PROVE  SyncInv
<1>1. PICK db \in SUBSET Instrument :
        /\ server = [instruments |-> db, synced |-> [i \in Instrument |-> None]]
        /\ page = SyncButton!Fresh /\ calls = <<>>
  <2>1. PICK o \in SyncButton!Openings : server = o.server /\ page = o.page /\ calls = o.calls
    BY DEF SyncButton!Init
  <2>2. PICK db \in SUBSET Instrument :
          o = [server |-> [instruments |-> db, synced |-> [i \in Instrument |-> None]],
               page |-> SyncButton!Fresh, calls |-> <<>>]
    BY <2>1 DEF SyncButton!Openings
  <2>. QED BY <2>1, <2>2
<1>2. SyncButton!NoRows \in Rows({}) /\ DOMAIN SyncButton!NoRows = {}
  BY DEF SyncButton!NoRows, Rows
<1>3. page \in SyncPage /\ ~page.loading /\ ~page.confirmForce /\ DOMAIN page.rows = {}
  BY <1>1, <1>2 DEF SyncButton!Fresh, SyncPage, SyncButton!Mode
<1>4. Elems(calls) = {} /\ calls \in Seq(SyncCall) /\ OneLoop(calls)
  BY <1>1, ElemsNone DEF OneLoop
<1>. QED BY <1>1, <1>3, <1>4 DEF SyncInv, SyncLinked

\* The backend syncs the instrument of the loop, or does not find it; other calls are
\* answered with the instruments.
LEMMA SyncServed ==
  ASSUME SyncInv, NEW i \in DOMAIN calls, SyncButton!Serve(i) \/ SyncButton!Lose(i),
         UNCHANGED habits
  PROVE  SyncInv'
<1> DEFINE old == calls[i]
           x == old.about.instrument
<1>0. /\ calls \in Seq(SyncCall) /\ old \in SyncCall /\ old \in Elems(calls)
      /\ server.instruments \subseteq Instrument /\ DOMAIN server = {"instruments", "synced"}
      /\ DOMAIN server.synced = Instrument /\ page \in SyncPage
  BY DEF SyncInv, Elems
<1>s. PICK status \in Status : \E answer :
        /\ calls' = [calls EXCEPT ![i].status = status, ![i].answer = answer]
        /\ page' = page /\ DOMAIN server' = {"instruments", "synced"}
        /\ server'.instruments = server.instruments /\ DOMAIN server'.synced = Instrument
        /\ \/ /\ status = "failed" /\ answer = None /\ server' = server
              /\ "fail" \notin habits => old.kind = "sync" /\ x \notin server.instruments
           \/ /\ status = "served" /\ old.kind # "sync" /\ answer = server.instruments
              /\ server' = server
           \/ /\ status = "served" /\ old.kind = "sync" /\ answer \in SyncButton!Outcome
              /\ server'.synced = [server.synced EXCEPT
                    ![x] = [outcome |-> answer, mode |-> old.about.mode]]
  <2>1. CASE SyncButton!Lose(i)
    BY <1>0, <2>1 DEF SyncButton!Lose, SyncButton!Lost, Status
  <2>2. CASE SyncButton!Serve(i) /\ old.kind # "sync"
    BY <1>0, <2>2 DEF SyncButton!Serve, SyncButton!Served, Status
  <2>3. CASE SyncButton!Serve(i) /\ old.kind = "sync" /\ x \notin server.instruments
    BY <1>0, <2>3 DEF SyncButton!Serve, SyncButton!Lost, Status
  <2>4. CASE SyncButton!Serve(i) /\ old.kind = "sync" /\ x \in server.instruments
    <3>1. PICK outcome \in SyncButton!Outcome :
            /\ server' = [server EXCEPT !.synced[x] =
                            [outcome |-> outcome, mode |-> old.about.mode]]
            /\ calls' = [calls EXCEPT ![i].status = "served", ![i].answer = outcome]
      BY <2>4 DEF SyncButton!Serve, SyncButton!Served
    <3>2. page' = page
      BY <2>4 DEF SyncButton!Serve
    <3>. HIDE DEF old, x
    <3>3. /\ DOMAIN server' = {"instruments", "synced"}
          /\ server'.instruments = server.instruments /\ DOMAIN server'.synced = Instrument
          /\ server'.synced = [server.synced EXCEPT
                ![x] = [outcome |-> outcome, mode |-> old.about.mode]]
      BY <1>0, <3>1
    <3>. QED BY <2>4, <3>1, <3>2, <3>3 DEF Status, old
  <2>. QED BY <2>1, <2>2, <2>3, <2>4
<1>1. PICK answer :
        /\ calls' = [calls EXCEPT ![i].status = status, ![i].answer = answer]
        /\ page' = page /\ DOMAIN server' = {"instruments", "synced"}
        /\ server'.instruments = server.instruments /\ DOMAIN server'.synced = Instrument
        /\ \/ /\ status = "failed" /\ answer = None /\ server' = server
              /\ "fail" \notin habits => old.kind = "sync" /\ x \notin server.instruments
           \/ /\ status = "served" /\ old.kind # "sync" /\ answer = server.instruments
              /\ server' = server
           \/ /\ status = "served" /\ old.kind = "sync" /\ answer \in SyncButton!Outcome
              /\ server'.synced = [server.synced EXCEPT
                    ![x] = [outcome |-> answer, mode |-> old.about.mode]]
  BY <1>s
<1> DEFINE new == [old EXCEPT !.status = status, !.answer = answer]
<1>2. new \in SyncCall
  <2>. HIDE DEF old
  <2>. QED BY <1>0, <1>1 DEF SyncCall
<1>3. /\ new.kind = old.kind /\ new.about = old.about
      /\ new.status = status /\ new.answer = answer
  BY <1>0 DEF SyncCall
<1>4. /\ calls' \in Seq(SyncCall) /\ new \in Elems(calls')
      /\ Elems(calls') \subseteq Elems(calls) \cup {new}
      /\ Elems(calls) \subseteq Elems(calls') \cup {old}
  BY <1>0, <1>1, <1>2, ElemsAnswered
<1>5. OneLoop(calls')
  <2>1. DOMAIN calls' = DOMAIN calls /\ \A j \in DOMAIN calls : calls'[j].kind = calls[j].kind
    <3>1. \A j \in DOMAIN calls : calls[j] \in SyncCall
      BY <1>0
    <3>. QED BY <1>0, <1>1, <3>1 DEF SyncCall
  <2>. QED BY <2>1 DEF SyncInv, OneLoop, Looping
<1>6. /\ Looping(old) => \A c \in Elems(calls) : Looping(c) => c = old
      /\ \A c \in Elems(calls') : Looping(c) /\ Looping(old) => c = new
  <2>1. \A j \in DOMAIN calls' : Looping(calls'[j]) /\ Looping(old) => j = i
    BY <1>0, <1>1, <1>3, <1>5 DEF OneLoop, Looping, SyncCall
  <2>2. calls'[i] = new
    BY <1>0, <1>1
  <2>. QED BY <2>1, <2>2 DEF SyncInv, OneLoop, Elems
<1>. HIDE DEF new
<1>7. SyncLinked(habits, page, server', Elems(calls'))
  <2>1. /\ page.loading <=> \E c \in Elems(calls) : Looping(c)
        /\ page.confirmForce => ~page.loading
        /\ ~page.loading => \A y \in DOMAIN page.rows :
              Reported(habits, server, y, page.rows[y], page.mode)
    BY DEF SyncInv, SyncLinked
  <2>2. page.loading <=> \E c \in Elems(calls') : Looping(c)
    BY <1>0, <1>3, <1>4, <2>1 DEF Looping
  <2>3. ASSUME NEW c \in Elems(calls'), c.kind = "list"
        PROVE  ListTurn(page, c)
    BY <1>0, <1>1, <1>3, <1>4, <2>3 DEF SyncInv, SyncLinked, ListTurn
  <2>4. ASSUME NEW c \in Elems(calls'), c.kind = "complete", c.status = "served"
        PROVE  c.answer \in SUBSET Instrument
    BY <1>0, <1>1, <1>3, <1>4, <2>4 DEF SyncInv, SyncLinked
  <2>5. CASE old.kind # "sync"
    <3>1. server' = server
      BY <1>1, <2>5
    <3>2. ASSUME NEW c \in Elems(calls'), c.kind = "sync"
          PROVE  SyncTurn(habits, page, server, c)
      BY <1>3, <1>4, <2>5, <3>2 DEF SyncInv, SyncLinked
    <3>. QED BY <2>1, <2>2, <2>3, <2>4, <3>1, <3>2 DEF SyncLinked
  <2>6. CASE old.kind = "sync"
    <3>1. page.loading
      BY <1>0, <2>1, <2>6 DEF Looping
    <3>2. SyncTurn(habits, page, server, old)
      BY <1>0, <2>6 DEF SyncInv, SyncLinked
    <3>3. x \in Instrument
      BY <1>0, <2>6 DEF SyncCall
    <3>4. \A y \in Instrument \ {x} : server'.synced[y] = server.synced[y]
      BY <1>0, <1>1, <3>3
    <3>5. DOMAIN page.rows \subseteq Instrument
      BY <1>0 DEF SyncPage, Rows
    <3>6. SyncTurn(habits, page, server', new)
      <4>1. \A y \in DOMAIN page.rows \ ({x} \cup Elems(old.about.todo)) :
               Reported(habits, server', y, page.rows[y], page.mode)
        BY <1>1, <3>2, <3>4, <3>5 DEF SyncTurn, Reported
      <4>2. new.status = "served" => Reported(habits, server', x, new.answer, page.mode)
        <5>1. old.about.mode = page.mode
          BY <3>2 DEF SyncTurn
        <5>. QED BY <1>0, <1>1, <1>3, <2>6, <3>3, <5>1 DEF Reported
      <4>3. new.status = "failed" /\ "fail" \notin habits => x \notin server'.instruments
        BY <1>1, <1>3
      <4>. QED BY <1>3, <3>2, <4>1, <4>2, <4>3 DEF SyncTurn
    <3>7. \A c \in Elems(calls') : c.kind = "sync" => c = new
      BY <1>6, <2>6 DEF Looping
    <3>. QED BY <2>1, <2>2, <2>3, <2>4, <3>1, <3>6, <3>7 DEF SyncLinked
  <2>. QED BY <2>5, <2>6
<1>. QED BY <1>0, <1>1, <1>4, <1>5, <1>7 DEF SyncInv

LEMMA SyncForgets ==
  ASSUME SyncInv, NEW x \in Instrument, SyncButton!DeleteInstrument(x)
  PROVE  SyncInv'
<1>1. /\ server' = [server EXCEPT !.instruments = server.instruments \ {x}, !.synced[x] = None]
      /\ UNCHANGED <<habits, page, calls>>
  BY DEF SyncButton!DeleteInstrument
<1>2. /\ DOMAIN server' = {"instruments", "synced"} /\ DOMAIN server'.synced = Instrument
      /\ server'.instruments = server.instruments \ {x}
      /\ \A y \in Instrument \ {x} : server'.synced[y] = server.synced[y]
  BY <1>1 DEF SyncInv
<1>3. \A y, outcome, mode : y \in Instrument /\ Reported(habits, server, y, outcome, mode) =>
         Reported(habits, server', y, outcome, mode)
  BY <1>2 DEF Reported
<1>4. DOMAIN page.rows \subseteq Instrument
  BY DEF SyncInv, SyncPage, Rows
<1>5. ASSUME NEW c \in Elems(calls), c.kind = "sync"
      PROVE  SyncTurn(habits, page, server', c)
  <2>1. SyncTurn(habits, page, server, c)
    BY <1>5 DEF SyncInv, SyncLinked
  <2>2. c.about.instrument \in Instrument
    BY <1>4, <2>1 DEF SyncTurn
  <2>. QED BY <1>2, <1>3, <1>4, <2>1, <2>2 DEF SyncTurn
<1>6. SyncLinked(habits, page, server', Elems(calls))
  BY <1>3, <1>4, <1>5 DEF SyncInv, SyncLinked
<1>. QED BY <1>1, <1>2, <1>6 DEF SyncInv

LEMMA SyncArrived ==
  ASSUME SyncInv, NEW i \in DOMAIN calls,
         SyncButton!ListArrives(i) \/ SyncButton!SyncArrives(i) \/ SyncButton!CompleteArrives(i)
  PROVE  SyncInv'
<1> DEFINE rest == SyncButton!Rest(i)
           c == calls[i]
<1>1. rest = Dropped(calls, i)
  BY DEF SyncButton!Rest, SyncButton!RemoveAt, Dropped
<1>. HIDE DEF rest
<1>2. /\ rest \in Seq(SyncCall) /\ Elems(rest) \subseteq Elems(calls)
      /\ Elems(calls) \subseteq Elems(rest) \cup {c} /\ OneLoop(rest)
      /\ Looping(c) => \A b \in Elems(rest) : ~Looping(b)
  BY <1>1, ElemsDropped, OneLoopDropped DEF SyncInv
<1>3. c \in SyncCall /\ c \in Elems(calls) /\ page \in SyncPage /\ c.status # "sent"
  <2>1. c.status # "sent"
    BY DEF SyncButton!ListArrives, SyncButton!SyncArrives, SyncButton!CompleteArrives,
           SyncButton!Arrives, SyncButton!Arriving
  <2>. QED BY <2>1 DEF SyncInv, Elems
<1>4. UNCHANGED <<habits, server>>
  BY DEF SyncButton!ListArrives, SyncButton!SyncArrives, SyncButton!CompleteArrives,
         SyncButton!Arrives
<1>5. CASE SyncButton!ListArrives(i)
  <2>1. c.kind = "list" /\ Looping(c) /\ page.loading /\ ListTurn(page, c)
    BY <1>3, <1>5 DEF SyncButton!ListArrives, SyncButton!Arrives, Looping, SyncInv, SyncLinked
  <2>2. CASE SyncButton!Succeeds(c) /\ c.answer # {}
    <3> DEFINE D == c.answer
               rows == [x \in D |-> "pending"]
               todo == SyncButton!Ordered(D)
    <3>1. D \in SUBSET Instrument /\ c.about = page.mode
      BY <2>1, <2>2 DEF ListTurn, SyncButton!Succeeds
    <3>2. todo \in Seq(Instrument) /\ Distinct(todo) /\ Elems(todo) = D
      BY <3>1, TodoOfSet
    <3>3. rows \in Rows(D) /\ \A y \in D : rows[y] = "pending"
      BY DEF Rows
    <3>4. SyncButton!Continue(rows, page.mode, todo, rest)
      BY <1>5, <2>2, <3>1 DEF SyncButton!ListArrives, rest
    <3>. HIDE DEF rows, todo, D
    <3>. QED BY <1>2, <1>4, <2>1, <3>1, <3>2, <3>3, <3>4, LoopContinues
  <2>3. CASE ~(SyncButton!Succeeds(c) /\ c.answer # {})
    <3>1. page' = [page EXCEPT !.fetchError = TRUE, !.loading = FALSE] /\ calls' = rest
      BY <1>5, <2>3 DEF SyncButton!ListArrives, rest
    <3>2. /\ page' \in SyncPage /\ ~page'.loading /\ DOMAIN page'.rows = {}
      BY <1>3, <2>1, <3>1 DEF SyncPage, ListTurn
    <3>3. SyncLinked(habits, page', server, Elems(rest))
      BY <1>2, <2>1, <3>2 DEF SyncInv, SyncLinked, Looping
    <3>. QED BY <1>2, <1>4, <3>1, <3>2, <3>3 DEF SyncInv
  <2>. QED BY <2>2, <2>3
<1>6. CASE SyncButton!SyncArrives(i)
  <2> DEFINE x == c.about.instrument
             outcome == IF SyncButton!Succeeds(c) THEN c.answer ELSE "failed"
             D == DOMAIN page.rows
             rows == SyncButton!Patched(page.rows, x, outcome)
             todo == c.about.todo
  <2>1. c.kind = "sync" /\ Looping(c) /\ page.loading /\ SyncTurn(habits, page, server, c)
    BY <1>3, <1>6 DEF SyncButton!SyncArrives, SyncButton!Arrives, Looping, SyncInv, SyncLinked
  <2>2. SyncButton!Continue(rows, page.mode, todo, rest)
    BY <1>6, <2>1 DEF SyncButton!SyncArrives, SyncButton!Left, SyncTurn, rest
  <2>3. todo \in Seq(Instrument) /\ c.status \in Status
    BY <1>3, <2>1 DEF SyncCall
  <2>4. Reported(habits, server, x, outcome, page.mode)
    BY <1>3, <2>1, <2>3 DEF SyncTurn, Reported, SyncButton!Succeeds, SyncButton!Outcome, Status
  <2>5. D \in SUBSET Instrument /\ page.rows \in Rows(D)
    BY <1>3 DEF SyncPage, Rows
  <2>6. outcome \in SyncButton!Outcome
    BY <2>4 DEF Reported
  <2>. HIDE DEF outcome
  <2>7. rows \in Rows(D) /\ \A y \in D : rows[y] = IF y = x THEN outcome ELSE page.rows[y]
    BY <2>5, <2>6, PatchedRows
  <2>. HIDE DEF rows
  <2>8. /\ Distinct(todo) /\ Elems(todo) \subseteq D
        /\ \A y \in Elems(todo) : rows[y] = "pending"
        /\ \A y \in D \ Elems(todo) : Reported(habits, server, y, rows[y], page.mode)
    BY <2>1, <2>4, <2>7 DEF SyncTurn
  <2>. HIDE DEF D, todo
  <2>. QED BY <1>2, <1>4, <2>1, <2>2, <2>3, <2>5, <2>7, <2>8, LoopContinues
<1>7. CASE SyncButton!CompleteArrives(i)
  <2>1. c.kind = "complete" /\ ~Looping(c) /\ calls' = rest
    BY <1>7 DEF SyncButton!CompleteArrives, SyncButton!Arrives, Looping, rest
  <2>2. c.status = "served" => c.answer \in SUBSET Instrument
    BY <1>3, <2>1 DEF SyncInv, SyncLinked
  <2>3. \/ page' = page
        \/ c.answer \in SUBSET Instrument /\ page' = [page EXCEPT !.listed = c.answer]
    BY <1>7, <2>2 DEF SyncButton!CompleteArrives, SyncButton!Succeeds
  <2>. HIDE DEF c
  <2>4. /\ page' \in SyncPage /\ page'.loading = page.loading /\ page'.rows = page.rows
        /\ page'.mode = page.mode /\ page'.confirmForce = page.confirmForce
    BY <1>3, <2>3 DEF SyncPage
  <2>5. \A b \in Elems(rest) : /\ b.kind = "sync" => SyncTurn(habits, page', server, b)
                               /\ b.kind = "list" => ListTurn(page', b)
    BY <1>2, <2>4 DEF SyncInv, SyncLinked, SyncTurn, ListTurn
  <2>6. SyncLinked(habits, page', server, Elems(rest))
    BY <1>2, <2>1, <2>4, <2>5 DEF SyncInv, SyncLinked
  <2>. QED BY <1>2, <1>4, <2>1, <2>4, <2>6 DEF SyncInv
<1>. QED BY <1>5, <1>6, <1>7

\* A run is started when no other one is under way.
LEMMA RunStarts ==
  ASSUME SyncInv, ~page.loading, NEW mode \in SyncButton!Mode, SyncButton!RunSync(mode, FALSE)
  PROVE  SyncInv'
<1> DEFINE c == [kind |-> "list", about |-> mode, status |-> "sent", answer |-> None]
<1>1. c \in SyncCall /\ Looping(c) /\ c.status = "sent" /\ c.kind = "list" /\ c.about = mode
  BY DEF SyncCall, Status, Looping
<1>2. /\ page' = [page EXCEPT !.mode = mode, !.fetchError = FALSE, !.rows = SyncButton!NoRows,
                              !.open = TRUE, !.loading = TRUE, !.confirmForce = FALSE]
      /\ calls' = Append(calls, c) /\ UNCHANGED <<habits, server>>
  BY DEF SyncButton!RunSync, SyncButton!Send, SyncButton!Call
<1>. HIDE DEF c
<1>3. \A b \in Elems(calls) : ~Looping(b)
  BY DEF SyncInv, SyncLinked
<1>4. calls' \in Seq(SyncCall) /\ Elems(calls') = Elems(calls) \cup {c} /\ OneLoop(calls')
  BY <1>1, <1>2, <1>3, ElemsAppended, OneLoopAppended DEF SyncInv
<1>5. SyncButton!NoRows \in Rows({}) /\ DOMAIN SyncButton!NoRows = {}
  BY DEF SyncButton!NoRows, Rows
<1>6. /\ page' \in SyncPage /\ page'.loading /\ ~page'.confirmForce /\ page'.mode = mode
      /\ DOMAIN page'.rows = {}
  BY <1>2, <1>5 DEF SyncInv, SyncPage
<1>7. SyncLinked(habits, page', server, Elems(calls'))
  BY <1>1, <1>3, <1>4, <1>6 DEF SyncInv, SyncLinked, ListTurn, Looping
<1>. QED BY <1>2, <1>4, <1>6, <1>7 DEF SyncInv

LEMMA SyncUser ==
  ASSUME SyncInv, "hasty" \notin habits, SyncButton!User
  PROVE  SyncInv' /\ UNCHANGED habits
<1>1. CASE SyncButton!Start
  BY <1>1, RunStarts DEF SyncButton!Start, SyncButton!MayStart, SyncButton!RunSync,
         SyncButton!Mode, SyncInv, SyncPage
<1>2. CASE SyncButton!ConfirmForce
  BY <1>2, RunStarts DEF SyncButton!ConfirmForce, SyncButton!RunSync, SyncButton!Mode,
         SyncInv, SyncLinked
<1>3. ASSUME NEW b \in BOOLEAN, UNCHANGED <<habits, server, calls>>,
             \/ page' = [page EXCEPT !.confirmForce = b] /\ (b => ~page.loading)
             \/ page' = [page EXCEPT !.open = b]
      PROVE  SyncInv'
  <2>1. /\ page' \in SyncPage /\ page'.loading = page.loading /\ page'.rows = page.rows
        /\ page'.mode = page.mode /\ (page'.confirmForce => ~page.loading)
    BY <1>3 DEF SyncInv, SyncLinked, SyncPage
  <2>2. \A c \in Elems(calls) : /\ c.kind = "sync" => SyncTurn(habits, page', server, c)
                                /\ c.kind = "list" => ListTurn(page', c)
    BY <2>1 DEF SyncInv, SyncLinked, SyncTurn, ListTurn
  <2>3. SyncLinked(habits, page', server, Elems(calls))
    BY <2>1, <2>2 DEF SyncInv, SyncLinked
  <2>. QED BY <1>3, <2>1, <2>3 DEF SyncInv
<1>4. CASE SyncButton!AskForce
  BY <1>3, <1>4 DEF SyncButton!AskForce, SyncButton!MayStart
<1>5. CASE SyncButton!CancelForce
  BY <1>3, <1>5 DEF SyncButton!CancelForce
<1>6. CASE SyncButton!Close
  BY <1>3, <1>6 DEF SyncButton!Close
<1>. QED BY <1>1, <1>2, <1>4, <1>5, <1>6 DEF SyncButton!User

LEMMA SyncNext ==
  ASSUME SyncInv, "hasty" \notin habits, SyncButton!Next
  PROVE  SyncInv' /\ UNCHANGED habits
<1>1. ASSUME NEW i \in DOMAIN calls, SyncButton!Network(i)
      PROVE  SyncInv' /\ UNCHANGED habits
  <2>1. UNCHANGED habits
    BY <1>1 DEF SyncButton!Network, SyncButton!Serve, SyncButton!Lose, SyncButton!ListArrives,
           SyncButton!SyncArrives, SyncButton!CompleteArrives, SyncButton!Arrives
  <2>. QED BY <1>1, <2>1, SyncServed, SyncArrived DEF SyncButton!Network
<1>2. ASSUME NEW x \in Instrument, SyncButton!DeleteInstrument(x)
      PROVE  SyncInv' /\ UNCHANGED habits
  BY <1>2, SyncForgets DEF SyncButton!DeleteInstrument
<1>. QED BY <1>1, <1>2, SyncUser DEF SyncButton!Next

SyncAlways == view = "syncAll" /\ "hasty" \notin habits => SyncInv

LEMMA ReportsOfLoop ==
  ASSUME SyncInv
  PROVE  SyncButton!SyncReportsAll
<1> DEFINE syncs == {i \in DOMAIN calls : calls[i].kind = "sync"}
<1>1. page \in SyncPage /\ SyncLinked(habits, page, server, Elems(calls))
  BY DEF SyncInv
<1>2. SyncButton!Cardinality(syncs) <= 1
  <2>1. SyncButton!Cardinality(syncs) = Cardinality(syncs)
    BY DEF SyncButton!Cardinality, Cardinality
  <2>2. syncs = {} \/ \E i \in syncs : syncs = {i}
    BY DEF SyncInv, OneLoop, Looping
  <2>. HIDE DEF syncs
  <2>3. CASE syncs = {}
    <3>1. Cardinality({}) = 0
      BY FS_EmptySet
    <3>. QED BY <2>1, <2>3, <3>1
  <2>4. ASSUME NEW i, syncs = {i}
        PROVE  SyncButton!Cardinality(syncs) <= 1
    <3>1. Cardinality({i}) = 1
      BY FS_Singleton
    <3>. QED BY <2>1, <2>4, <3>1
  <2>. QED BY <2>2, <2>3, <2>4
<1>3. ASSUME NEW i \in syncs
      PROVE  SyncTurn(habits, page, server, calls[i])
  BY <1>1 DEF SyncLinked, Elems
<1>4. ASSUME NEW x \in DOMAIN page.rows, page.rows[x] = "running"
      PROVE  \E i \in syncs : x = calls[i].about.instrument
  <2>1. page.loading
    BY <1>1, <1>4 DEF SyncLinked, Reported, SyncButton!Outcome
  <2>2. PICK i \in DOMAIN calls : Looping(calls[i])
    BY <1>1, <2>1 DEF SyncLinked, Elems
  <2>3. calls[i].kind # "list"
    BY <1>1, <1>4 DEF SyncLinked, ListTurn, Elems
  <2>4. i \in syncs /\ SyncTurn(habits, page, server, calls[i])
    BY <1>3, <2>2, <2>3 DEF Looping
  <2>5. x = calls[i].about.instrument
    BY <1>4, <2>4 DEF SyncTurn, Reported, SyncButton!Outcome
  <2>. QED BY <2>4, <2>5
<1>5. {x \in DOMAIN page.rows : page.rows[x] = "running"}
         = {calls[i].about.instrument : i \in syncs}
  BY <1>3, <1>4 DEF SyncTurn
<1>6. ~page.loading => \A x \in DOMAIN page.rows :
         /\ page.rows[x] \in SyncButton!Outcome
         /\ "fail" \notin habits /\ x \in server.instruments =>
               server.synced[x] = [outcome |-> page.rows[x], mode |-> page.mode]
  BY <1>1 DEF SyncLinked, Reported
<1>. HIDE DEF syncs
<1>. QED BY <1>2, <1>5, <1>6 DEF SyncButton!SyncReportsAll, syncs

\* When a run of the buttons that synchronise all instruments is over, each of its rows
\* says how its sync ended, whatever failed and whatever was deleted on the way, as long
\* as the user waits; while it goes on, one sync is under way and its row is running.
THEOREM EveryRowReported == Spec => []SyncAllReports
<1>1. Init => SyncAlways
  BY InitSync DEF Init, SyncAlways
<1>2. ASSUME SyncAlways, Next
      PROVE  SyncAlways'
  <2>1. CASE view = "syncAll" /\ "hasty" \notin habits
    BY <1>2, <2>1, SyncNext DEF Next, SyncAlways
  <2>2. CASE view = "syncAll" /\ "hasty" \in habits
    <3>1. UNCHANGED habits
      BY <1>2, <2>2 DEF Next, SyncButton!Next, SyncButton!User, SyncButton!Network,
         SyncButton!Serve, SyncButton!Lose, SyncButton!ListArrives, SyncButton!SyncArrives,
         SyncButton!CompleteArrives, SyncButton!Arrives, SyncButton!DeleteInstrument,
         SyncButton!Start, SyncButton!AskForce, SyncButton!ConfirmForce,
         SyncButton!CancelForce, SyncButton!Close, SyncButton!RunSync
    <3>. QED BY <2>2, <3>1 DEF SyncAlways
  <2>3. CASE view # "syncAll"
    BY <1>2, <2>3 DEF Next, SyncAlways
  <2>. QED BY <2>1, <2>2, <2>3
<1>3. ASSUME SyncAlways, UNCHANGED vars
      PROVE  SyncAlways'
  BY <1>3 DEF vars, SyncAlways, SyncInv
<1>4. SyncAlways => SyncAllReports
  BY ReportsOfLoop DEF SyncAlways, SyncAllReports, SyncButton!SyncReportsAll
<1>5. SyncAlways /\ [Next]_vars => SyncAlways'
  BY <1>2, <1>3
<1>. QED BY <1>1, <1>4, <1>5, PTL DEF Spec

--------------------------------------------------------------------------------
(* The page of an instrument.  While nothing fails and the calls of one kind are *)
(* answered in turn, whatever is not shown yet is still on its way: a change of  *)
(* the prices is followed by a history that will be read after it, a new job by  *)
(* a list of jobs.                                                               *)

FundSync == [after : {"sync"}, history : Fund!Prices \cup {None}]

FundCall ==
    [kind : {"load"}, about : {None}, status : Status, answer : Fund!Prices \cup {None}]
    \cup [kind : {"history"}, about : FundSync \cup [after : {"add"}], status : Status,
          answer : Fund!Prices \cup {None}]
    \cup [kind : {"jobs"}, about : {None}, status : Status, answer : Nat \cup {None}]
    \cup [kind : {"add"}, about : Day, status : Status, answer : {None}]
    \cup [kind : {"sync"}, about : FundSync, status : Status,
          answer : {"SUCCESS", "FAILED", None}]

FundPage ==
    [loading : BOOLEAN, error : {FALSE}, history : Fund!Prices \cup {None}, saving : BOOLEAN,
     sync : {"idle", "loading", "done", "error"}, jobs : Nat \cup {None}, jobsLoading : BOOLEAN]

FundTables == [prices : Fund!Prices, jobs : Nat]

\* Of the calls of one kind only the oldest is answered.
Turns(cs) ==
    \A i, j \in DOMAIN cs : cs[i].status = "served" /\ cs[j].kind = cs[i].kind => i <= j

HistoryComes(c) ==
    \/ c.kind = "history" /\ c.status = "sent"
    \/ c.kind = "add" /\ c.status = "served"
    \/ c.kind = "sync" /\ c.status = "served" /\ c.answer = "SUCCESS"

HistoryFollows(pg, db, C) ==
    \/ \E c \in C : HistoryComes(c)
    \/ /\ \A c \in C : c.kind = "history" => c.answer = db.prices
       /\ pg.history = db.prices \/ \E c \in C : c.kind = "history"

JobsCome(c) ==
    \/ c.kind = "jobs" /\ c.status = "sent"
    \/ c.kind = "sync"
    \/ c.kind = "history" /\ c.about.after = "sync"

JobsFollow(pg, db, C) ==
    \/ pg.sync = "error"
    \/ \E c \in C : JobsCome(c)
    \/ /\ \A c \in C : c.kind = "jobs" => c.answer = db.jobs
       /\ pg.jobs = db.jobs \/ \E c \in C : c.kind = "jobs"

FundLoads(pg, db, C) ==
    /\ pg.loading => pg.jobs = db.jobs
    /\ \A c \in C : c.kind = "load" => pg.loading /\ (c.status = "served" => c.answer = db.prices)

FundWaits(pg, C) ==
    /\ pg.saving => \E c \in C : \/ c.kind = "add"
                                 \/ c.kind = "history" /\ c.about.after = "add"
    /\ pg.jobsLoading => \E c \in C : c.kind = "jobs"

FundLinked(pg, db, C) ==
    /\ \A c \in C : c.status # "failed"
    /\ FundLoads(pg, db, C) /\ FundWaits(pg, C)
    /\ ~pg.loading => HistoryFollows(pg, db, C) /\ JobsFollow(pg, db, C)

FundInv ==
    /\ server \in FundTables /\ page \in FundPage
    /\ calls \in Seq(FundCall) /\ Turns(calls)
    /\ page.loading => Len(calls) = 1 /\ calls[1].kind = "load"
    /\ FundLinked(page, server, Elems(calls))

LEMMA TurnsAppended ==
  ASSUME NEW S, NEW cs \in Seq(S), NEW c \in S, Turns(cs), c.status = "sent"
  PROVE  Turns(Append(cs, c))
<1>1. /\ DOMAIN Append(cs, c) = 1..(Len(cs) + 1) /\ DOMAIN cs = 1..Len(cs) /\ Len(cs) \in Nat
      /\ \A j \in 1..Len(cs) : Append(cs, c)[j] = cs[j]
      /\ Append(cs, c)[Len(cs) + 1] = c
  OBVIOUS
<1> DEFINE d == Append(cs, c)
<1>. HIDE DEF d
<1>2. ASSUME NEW i \in DOMAIN d, NEW j \in DOMAIN d, d[i].status = "served", d[j].kind = d[i].kind
      PROVE  i <= j
  <2>1. i \in DOMAIN cs /\ d[i] = cs[i]
    BY <1>1, <1>2 DEF d
  <2>2. CASE j \in DOMAIN cs
    BY <1>1, <1>2, <2>1, <2>2 DEF d, Turns
  <2>3. CASE j = Len(cs) + 1
    BY <1>1, <2>1, <2>3
  <2>. QED BY <1>1, <2>2, <2>3 DEF d
<1>. QED BY <1>2 DEF Turns, d

LEMMA TurnsDropped ==
  ASSUME NEW S, NEW cs \in Seq(S), NEW k \in DOMAIN cs, Turns(cs)
  PROVE  Turns(Dropped(cs, k))
<1> DEFINE d == Dropped(cs, k)
<1>1. /\ d \in Seq(S) /\ Len(d) = Len(cs) - 1
      /\ \A j \in 1..(Len(cs) - 1) : d[j] = cs[IF j < k THEN j ELSE j + 1]
  BY DroppedAt
<1>. HIDE DEF d
<1>2. DOMAIN d = 1..(Len(cs) - 1) /\ DOMAIN cs = 1..Len(cs) /\ Len(cs) \in Nat
  BY <1>1
<1>3. ASSUME NEW i \in DOMAIN d, NEW j \in DOMAIN d, d[i].status = "served", d[j].kind = d[i].kind
      PROVE  i <= j
  <2> DEFINE a == IF i < k THEN i ELSE i + 1
             b == IF j < k THEN j ELSE j + 1
  <2>1. a \in DOMAIN cs /\ b \in DOMAIN cs
    BY <1>2
  <2>2. d[i] = cs[a] /\ d[j] = cs[b]
    BY <1>1, <1>2
  <2>3. a <= b
    <3>. HIDE DEF a, b
    <3>. QED BY <1>3, <2>1, <2>2 DEF Turns
  <2>. QED BY <1>2, <2>3
<1>. QED BY <1>3 DEF Turns, d

\* A call that is handled in its turn is the only one of its kind that is answered.
LEMMA TurnsServed ==
  ASSUME NEW cs \in Seq(FundCall), NEW k \in DOMAIN cs, Turns(cs),
         \A j \in 1..(k - 1) : cs[j].kind # cs[k].kind,
         NEW answer
  PROVE  /\ Turns([cs EXCEPT ![k].status = "served", ![k].answer = answer])
         /\ \A j \in DOMAIN cs : j # k /\ cs[j].kind = cs[k].kind => cs[j].status # "served"
<1> DEFINE d == [cs EXCEPT ![k].status = "served", ![k].answer = answer]
<1>1. DOMAIN cs = 1..Len(cs) /\ Len(cs) \in Nat
  OBVIOUS
<1>2. \A j \in DOMAIN cs : cs[j].kind = cs[k].kind => k <= j
  BY <1>1
<1>3. \A j \in DOMAIN cs : j # k /\ cs[j].kind = cs[k].kind => cs[j].status # "served"
  BY <1>1, <1>2 DEF Turns
<1>4. /\ DOMAIN d = DOMAIN cs /\ \A j \in DOMAIN cs : d[j].kind = cs[j].kind
      /\ \A j \in DOMAIN cs : j # k => d[j] = cs[j]
  <2>1. \A j \in DOMAIN cs : cs[j] \in FundCall
    OBVIOUS
  <2>. QED BY <2>1 DEF FundCall
<1>. HIDE DEF d
<1>5. ASSUME NEW i \in DOMAIN d, NEW j \in DOMAIN d, d[i].status = "served", d[j].kind = d[i].kind
      PROVE  i <= j
  <2>1. CASE i = k
    BY <1>2, <1>4, <1>5, <2>1
  <2>2. CASE i # k
    BY <1>3, <1>4, <1>5, <2>2 DEF Turns
  <2>. QED BY <2>1, <2>2
<1>. QED BY <1>3, <1>5 DEF Turns, d

LEMMA InitFund ==
  ASSUME Fund!Init
  PROVE  FundInv
<1>1. PICK ps \in Fund!Prices :
        /\ server = [prices |-> ps, jobs |-> 0] /\ page = Fund!Fresh
        /\ calls = Fund!Send(<<>>, "load", None)
  <2>1. PICK o \in Fund!Openings : server = o.server /\ page = o.page /\ calls = o.calls
    BY DEF Fund!Init
  <2>2. PICK ps \in Fund!Prices :
          o = [server |-> [prices |-> ps, jobs |-> 0], page |-> Fund!Fresh,
               calls |-> Fund!Send(<<>>, "load", None)]
    BY <2>1 DEF Fund!Openings
  <2>. QED BY <2>1, <2>2
<1> DEFINE c == [kind |-> "load", about |-> None, status |-> "sent", answer |-> None]
<1>2. c \in FundCall /\ c.kind = "load" /\ c.status = "sent"
  BY DEF FundCall, Status
<1>3. calls = Append(<<>>, c) /\ calls = <<c>>
  BY <1>1 DEF Fund!Send, Fund!Call
<1>4. server \in FundTables /\ server.prices = ps /\ server.jobs = 0
  BY <1>1 DEF FundTables
<1>5. page \in FundPage /\ page.loading /\ ~page.saving /\ ~page.jobsLoading /\ page.jobs = 0
  BY <1>1 DEF Fund!Fresh, FundPage
<1>. HIDE DEF c
<1>6. calls \in Seq(FundCall) /\ Elems(calls) = {c}
  BY <1>2, <1>3, ElemsOne
<1>7. Len(calls) = 1 /\ calls[1] = c
  BY <1>3
<1>8. Turns(calls)
  BY <1>2, <1>6, <1>7 DEF Turns
<1>9. FundLinked(page, server, Elems(calls))
  BY <1>2, <1>4, <1>5, <1>6 DEF FundLinked, FundLoads, FundWaits
<1>. QED BY <1>2, <1>4, <1>5, <1>6, <1>7, <1>8, <1>9 DEF FundInv

\* The backend handles a call.
LEMMA FundServed ==
  ASSUME FundInv, "reorder" \notin habits, NEW i \in DOMAIN calls, Fund!Serve(i)
  PROVE  FundInv' /\ UNCHANGED habits
<1> DEFINE old == calls[i]
<1>0. /\ calls \in Seq(FundCall) /\ old \in FundCall /\ old \in Elems(calls)
      /\ server \in FundTables /\ page \in FundPage /\ UNCHANGED <<habits, page>>
      /\ old.status = "sent" /\ \A j \in 1..(i - 1) : calls[j].kind # old.kind
  BY DEF FundInv, Elems, Fund!Serve, Fund!Waiting, Fund!InTurn
<1>1. PICK answer :
        /\ calls' = [calls EXCEPT ![i].status = "served", ![i].answer = answer]
        /\ server' \in FundTables
        /\ \/ /\ old.kind \in {"load", "history"} /\ answer = server.prices /\ server' = server
           \/ /\ old.kind = "jobs" /\ answer = server.jobs /\ server' = server
           \/ /\ old.kind = "add" /\ answer = None /\ server'.jobs = server.jobs
           \/ /\ old.kind = "sync" /\ answer \in {"SUCCESS", "FAILED"}
              /\ answer = "FAILED" => server'.prices = server.prices
  <2>1. CASE old.kind \in {"load", "history", "jobs"}
    BY <1>0, <2>1 DEF Fund!Serve, Fund!Served
  <2>2. CASE old.kind = "add"
    <3>1. /\ server' = [server EXCEPT !.prices[old.about] = "manual"]
          /\ calls' = [calls EXCEPT ![i].status = "served", ![i].answer = None]
      BY <2>2 DEF Fund!Serve, Fund!Served
    <3>2. server' \in FundTables /\ server'.jobs = server.jobs
      <4>. HIDE DEF old
      <4>. QED BY <1>0, <3>1 DEF FundTables, Fund!Prices
    <3>. QED BY <2>2, <3>1, <3>2
  <2>3. CASE old.kind = "sync"
    <3>1. PICK fetched \in SUBSET Day, status \in {"SUCCESS", "FAILED"} :
            /\ status = "FAILED" => fetched = {}
            /\ server' = [prices |-> [d \in Day |-> IF d \in fetched THEN "yahoo"
                                                    ELSE server.prices[d]],
                          jobs |-> server.jobs + 1]
            /\ calls' = [calls EXCEPT ![i].status = "served", ![i].answer = status]
      BY <2>3 DEF Fund!Serve, Fund!Served
    <3>2. server' \in FundTables /\ (fetched = {} => server'.prices = server.prices)
      BY <1>0, <3>1 DEF FundTables, Fund!Prices
    <3>. QED BY <2>3, <3>1, <3>2
  <2>. QED BY <2>1, <2>2, <2>3 DEF Fund!Serve
<1> DEFINE new == [old EXCEPT !.status = "served", !.answer = answer]
<1>2. new \in FundCall
  <2>1. server.prices \in Fund!Prices /\ server.jobs \in Nat
    BY <1>0 DEF FundTables
  <2>. HIDE DEF old
  <2>. QED BY <1>0, <1>1, <2>1 DEF FundCall, Status
<1>3. /\ new.kind = old.kind /\ new.about = old.about
      /\ new.status = "served" /\ new.answer = answer
  BY <1>0 DEF FundCall
<1>4. /\ calls' \in Seq(FundCall) /\ new \in Elems(calls')
      /\ Elems(calls') \subseteq Elems(calls) \cup {new}
      /\ Elems(calls) \subseteq Elems(calls') \cup {old}
  BY <1>0, <1>1, <1>2, ElemsAnswered
<1>5. /\ Turns(calls')
      /\ \A j \in DOMAIN calls : j # i /\ calls[j].kind = old.kind => calls[j].status # "served"
  BY <1>0, <1>1, TurnsServed DEF FundInv
<1>6. \A c \in Elems(calls') : c.kind = old.kind => c = new \/ c.status # "served"
  <2>1. DOMAIN calls' = DOMAIN calls /\ calls'[i] = new
        /\ \A j \in DOMAIN calls : j # i => calls'[j] = calls[j]
    BY <1>0, <1>1
  <2>. QED BY <1>5, <2>1 DEF Elems
<1>7. page.loading => Len(calls') = 1 /\ calls'[1].kind = "load"
  <2>1. Len(calls') = Len(calls) /\ \A j \in DOMAIN calls : calls'[j].kind = calls[j].kind
    BY <1>0, <1>1, <1>3
  <2>. QED BY <2>1 DEF FundInv
<1>. HIDE DEF new, old
<1>8. \A c \in Elems(calls') : c.status \in {"sent", "served"}
  <2>1. Elems(calls') \subseteq FundCall
    BY <1>4, ElemsTyped
  <2>2. \A c \in Elems(calls') : c.status # "failed"
    BY <1>3, <1>4 DEF FundInv, FundLinked
  <2>. QED BY <2>1, <2>2 DEF FundCall, Status
<1>9. page.loading => old.kind = "load"
  BY <1>0 DEF FundInv, FundLinked, old
<1>10. FundLoads(page, server', Elems(calls'))
  <2>1. FundLoads(page, server, Elems(calls))
    BY DEF FundInv, FundLinked
  <2>2. page.loading => server' = server
    BY <1>1, <1>9
  <2>. QED BY <1>0, <1>1, <1>3, <1>4, <2>1, <2>2 DEF FundLoads
<1>11. FundWaits(page, Elems(calls'))
  BY <1>3, <1>4 DEF FundInv, FundLinked, FundWaits
<1>12. ASSUME ~page.loading
       PROVE  HistoryFollows(page, server', Elems(calls'))
  <2>1. HistoryFollows(page, server, Elems(calls)) /\ old.kind # "load"
    BY <1>0, <1>12 DEF FundInv, FundLinked, FundLoads
  <2>2. CASE old.kind = "history"
    BY <1>1, <1>3, <1>4, <1>6, <1>8, <2>2 DEF HistoryFollows, HistoryComes
  <2>3. CASE old.kind = "add"
    BY <1>3, <1>4, <2>3 DEF HistoryFollows, HistoryComes
  <2>4. CASE old.kind = "sync" /\ answer = "SUCCESS"
    BY <1>3, <1>4, <2>4 DEF HistoryFollows, HistoryComes
  <2>5. CASE old.kind = "jobs" \/ (old.kind = "sync" /\ answer # "SUCCESS")
    <3>1. server'.prices = server.prices
      BY <1>1, <2>5
    <3>. QED BY <1>0, <1>3, <1>4, <2>1, <2>5, <3>1 DEF HistoryFollows, HistoryComes
  <2>6. old.kind \in {"load", "history", "jobs", "add", "sync"}
    BY <1>1
  <2>. QED BY <2>1, <2>2, <2>3, <2>4, <2>5, <2>6
<1>13. ASSUME ~page.loading
       PROVE  JobsFollow(page, server', Elems(calls'))
  <2>1. JobsFollow(page, server, Elems(calls)) /\ old.kind # "load"
    BY <1>0, <1>13 DEF FundInv, FundLinked, FundLoads
  <2>2. CASE old.kind = "jobs"
    BY <1>1, <1>3, <1>4, <1>6, <1>8, <2>2 DEF JobsFollow, JobsCome
  <2>3. CASE old.kind = "sync"
    BY <1>3, <1>4, <2>3 DEF JobsFollow, JobsCome
  <2>4. CASE old.kind \in {"add", "history"}
    <3>1. server'.jobs = server.jobs
      BY <1>1, <2>4
    <3>. QED BY <1>3, <1>4, <2>1, <2>4, <3>1 DEF JobsFollow, JobsCome
  <2>. QED BY <1>1, <2>1, <2>2, <2>3, <2>4
<1>14. FundLinked(page, server', Elems(calls'))
  BY <1>8, <1>10, <1>11, <1>12, <1>13 DEF FundLinked
<1>. QED BY <1>0, <1>1, <1>4, <1>5, <1>7, <1>14 DEF FundInv

\* Whatever the page asks next, it comes after what is on its way.
LEMMA FundAsks ==
  ASSUME NEW cs \in Seq(FundCall), Turns(cs), NEW c \in FundCall, c.status = "sent"
  PROVE  /\ Append(cs, c) \in Seq(FundCall) /\ Turns(Append(cs, c))
         /\ Elems(Append(cs, c)) = Elems(cs) \cup {c}
  BY ElemsAppended, TurnsAppended

LEMMA FundArrived ==
  ASSUME FundInv, "fail" \notin habits, NEW i \in DOMAIN calls,
         \/ Fund!LoadArrives(i) \/ Fund!JobsArrive(i) \/ Fund!AddArrives(i)
         \/ Fund!SyncArrives(i) \/ Fund!HistoryArrives(i)
  PROVE  FundInv' /\ UNCHANGED habits
<1> DEFINE rest == Fund!Rest(i)
           c == calls[i]
<1>1. rest = Dropped(calls, i)
  BY DEF Fund!Rest, Fund!RemoveAt, Dropped
<1>. HIDE DEF rest
<1>2. /\ rest \in Seq(FundCall) /\ Turns(rest) /\ Elems(rest) \subseteq Elems(calls)
      /\ Elems(calls) \subseteq Elems(rest) \cup {c}
  BY <1>1, ElemsDropped, TurnsDropped DEF FundInv
<1>3. c \in FundCall /\ c \in Elems(calls) /\ c.status = "served" /\ Fund!Succeeds(c)
  <2>1. c.status # "sent"
    BY DEF Fund!LoadArrives, Fund!JobsArrive, Fund!AddArrives, Fund!SyncArrives,
           Fund!HistoryArrives, Fund!Arrives, Fund!Arriving
  <2>2. c \in FundCall /\ c \in Elems(calls)
    BY DEF FundInv, Elems
  <2>3. c.status \in Status /\ c.status # "failed"
    BY <2>2 DEF FundInv, FundLinked, FundCall
  <2>. QED BY <2>1, <2>2, <2>3 DEF Status, Fund!Succeeds
<1>4. UNCHANGED <<habits, server>>
  BY DEF Fund!LoadArrives, Fund!JobsArrive, Fund!AddArrives, Fund!SyncArrives,
         Fund!HistoryArrives, Fund!Arrives
<1>5. /\ page \in FundPage /\ server \in FundTables /\ FundLinked(page, server, Elems(calls))
      /\ page.loading <=> c.kind = "load"
  <2>1. page.loading => c.kind = "load"
    <3>1. ASSUME page.loading
          PROVE  i = 1
      BY <3>1 DEF FundInv
    <3>. QED BY <3>1 DEF FundInv
  <2>. QED BY <1>3, <2>1 DEF FundInv, FundLinked, FundLoads
<1>6. /\ page.loading => Elems(rest) = {}
      /\ \A b \in Elems(rest) : b.status # "failed" /\ b.kind # "load"
  <2>1. ASSUME page.loading
        PROVE  Elems(rest) = {}
    <3>1. Len(calls) = 1
      BY <2>1 DEF FundInv
    <3>2. Len(rest) = 0
      BY <1>1, <3>1, DroppedAt DEF FundInv
    <3>3. rest = <<>>
      BY <1>2, <3>2
    <3>. QED BY <3>3, ElemsNone
  <2>2. CASE ~page.loading
    BY <1>2, <1>5, <2>2 DEF FundLinked, FundLoads
  <2>. QED BY <2>1, <2>2
<1>. SUFFICES /\ page' \in FundPage /\ ~page'.loading /\ calls' \in Seq(FundCall) /\ Turns(calls')
              /\ \A b \in Elems(calls') : b.status # "failed" /\ b.kind # "load"
              /\ FundWaits(page', Elems(calls'))
              /\ HistoryFollows(page', server, Elems(calls'))
              /\ JobsFollow(page', server, Elems(calls'))
  BY <1>4, <1>5 DEF FundInv, FundLinked, FundLoads
<1> DEFINE jobs == [kind |-> "jobs", about |-> None, status |-> "sent", answer |-> None]
<1>7. jobs \in FundCall /\ jobs.kind = "jobs" /\ jobs.status = "sent"
  BY DEF FundCall, Status
<1>8. CASE Fund!LoadArrives(i)
  <2>1. c.kind = "load"
    BY <1>8 DEF Fund!LoadArrives, Fund!Arrives
  <2>2. /\ page' = [page EXCEPT !.loading = FALSE, !.history = c.answer, !.jobsLoading = TRUE]
        /\ calls' = Append(rest, jobs)
    BY <1>3, <1>8 DEF Fund!LoadArrives, Fund!Send, Fund!Call, rest
  <2>3. c.answer \in Fund!Prices \cup {None}
    BY <1>3, <2>1 DEF FundCall
  <2>4. c.answer = server.prices /\ page.jobs = server.jobs
    BY <1>3, <1>5, <2>1 DEF FundLinked, FundLoads
  <2>. HIDE DEF c, jobs
  <2>5. /\ page' \in FundPage /\ ~page'.loading /\ page'.history = server.prices
        /\ page'.saving = page.saving
    BY <1>5, <2>2, <2>3, <2>4 DEF FundPage
  <2>6. /\ calls' \in Seq(FundCall) /\ Turns(calls') /\ Elems(calls') = Elems(rest) \cup {jobs}
    BY <1>2, <1>7, <2>2, FundAsks
  <2>7. JobsFollow(page', server, Elems(calls'))
    BY <1>7, <2>6 DEF JobsFollow, JobsCome
  <2>8. Elems(rest) = {} /\ ~page.saving
    BY <1>5, <1>2, <1>6, <2>1 DEF FundLinked, FundWaits
  <2>9. /\ HistoryFollows(page', server, Elems(calls')) /\ FundWaits(page', Elems(calls'))
        /\ \A b \in Elems(calls') : b.status # "failed" /\ b.kind # "load"
    BY <1>7, <2>5, <2>6, <2>8 DEF HistoryFollows, FundWaits
  <2>. QED BY <2>5, <2>6, <2>7, <2>9
<1>9. CASE c.kind # "load"
  <2>0. /\ ~page.loading /\ FundWaits(page, Elems(calls))
        /\ HistoryFollows(page, server, Elems(calls)) /\ JobsFollow(page, server, Elems(calls))
    BY <1>5, <1>9 DEF FundLinked
  <2>1. CASE Fund!JobsArrive(i)
    <3>1. c.kind = "jobs" /\ calls' = rest
      BY <2>1 DEF Fund!JobsArrive, Fund!Arrives, rest
    <3>2. page' = [page EXCEPT !.jobsLoading = FALSE, !.jobs = c.answer]
      BY <1>3, <2>1 DEF Fund!JobsArrive
    <3>3. c.answer \in Nat \cup {None}
      BY <1>3, <3>1 DEF FundCall
    <3>. HIDE DEF c
    <3>4. /\ page' \in FundPage /\ ~page'.loading /\ page'.history = page.history
          /\ page'.saving = page.saving /\ ~page'.jobsLoading /\ page'.jobs = c.answer
          /\ page'.sync = page.sync
      BY <1>5, <2>0, <3>2, <3>3 DEF FundPage
    <3>5. HistoryFollows(page', server, Elems(rest))
      BY <1>2, <2>0, <3>1, <3>4 DEF HistoryFollows, HistoryComes
    <3>6. JobsFollow(page', server, Elems(rest))
      BY <1>2, <1>3, <2>0, <3>1, <3>4 DEF JobsFollow, JobsCome
    <3>7. FundWaits(page', Elems(rest))
      BY <1>2, <2>0, <3>1, <3>4 DEF FundWaits
    <3>. QED BY <1>2, <1>6, <3>1, <3>4, <3>5, <3>6, <3>7
  <2>2. CASE Fund!AddArrives(i)
    <3> DEFINE h == [kind |-> "history", about |-> [after |-> "add"], status |-> "sent",
                     answer |-> None]
    <3>1. c.kind = "add" /\ calls' = Append(rest, h) /\ page' = page
      BY <1>3, <2>2 DEF Fund!AddArrives, Fund!Arrives, Fund!Send, Fund!Call, rest
    <3>2. h \in FundCall /\ h.kind = "history" /\ h.status = "sent" /\ h.about.after = "add"
      BY DEF FundCall, Status
    <3>. HIDE DEF h, c
    <3>3. calls' \in Seq(FundCall) /\ Turns(calls') /\ Elems(calls') = Elems(rest) \cup {h}
      BY <1>2, <3>1, <3>2, FundAsks
    <3>4. HistoryFollows(page', server, Elems(calls'))
      BY <3>2, <3>3 DEF HistoryFollows, HistoryComes
    <3>5. JobsFollow(page', server, Elems(calls'))
      BY <1>2, <2>0, <3>1, <3>2, <3>3 DEF JobsFollow, JobsCome
    <3>6. FundWaits(page', Elems(calls'))
      BY <1>2, <2>0, <3>1, <3>2, <3>3 DEF FundWaits
    <3>. QED BY <1>5, <1>6, <2>0, <3>1, <3>2, <3>3, <3>4, <3>5, <3>6
  <2>3. CASE Fund!SyncArrives(i) /\ c.answer = "SUCCESS"
    <3> DEFINE h == [kind |-> "history", about |-> c.about, status |-> "sent", answer |-> None]
    <3>1. c.kind = "sync" /\ calls' = Append(rest, h) /\ page' = [page EXCEPT !.sync = "done"]
      BY <1>3, <2>3 DEF Fund!SyncArrives, Fund!Arrives, Fund!Send, Fund!Call, rest
    <3>2. h \in FundCall /\ h.kind = "history" /\ h.status = "sent" /\ h.about.after = "sync"
      BY <1>3, <3>1 DEF FundCall, Status, FundSync
    <3>. HIDE DEF h, c
    <3>3. calls' \in Seq(FundCall) /\ Turns(calls') /\ Elems(calls') = Elems(rest) \cup {h}
      BY <1>2, <3>1, <3>2, FundAsks
    <3>4. /\ page' \in FundPage /\ ~page'.loading /\ page'.saving = page.saving
          /\ page'.jobsLoading = page.jobsLoading
      BY <1>5, <2>0, <3>1 DEF FundPage
    <3>5. /\ HistoryFollows(page', server, Elems(calls'))
          /\ JobsFollow(page', server, Elems(calls'))
      BY <3>2, <3>3 DEF HistoryFollows, HistoryComes, JobsFollow, JobsCome
    <3>6. FundWaits(page', Elems(calls'))
      BY <1>2, <2>0, <3>1, <3>2, <3>3, <3>4 DEF FundWaits
    <3>. QED BY <1>6, <3>2, <3>3, <3>4, <3>5, <3>6
  <2>4. CASE Fund!SyncArrives(i) /\ c.answer # "SUCCESS"
    <3>1. c.kind = "sync" /\ calls' = rest /\ page' = [page EXCEPT !.sync = "error"]
      BY <2>4 DEF Fund!SyncArrives, Fund!Arrives, rest
    <3>2. ~HistoryComes(c)
      BY <1>3, <2>4, <3>1 DEF HistoryComes
    <3>. HIDE DEF c
    <3>3. /\ page' \in FundPage /\ ~page'.loading /\ page'.saving = page.saving
          /\ page'.jobsLoading = page.jobsLoading /\ page'.sync = "error"
          /\ page'.history = page.history
      BY <1>5, <2>0, <3>1 DEF FundPage
    <3>4. HistoryFollows(page', server, Elems(rest))
      BY <1>2, <2>0, <3>1, <3>2, <3>3 DEF HistoryFollows
    <3>5. JobsFollow(page', server, Elems(rest)) /\ FundWaits(page', Elems(rest))
      BY <1>2, <2>0, <3>1, <3>3 DEF JobsFollow, FundWaits
    <3>. QED BY <1>2, <1>6, <3>1, <3>3, <3>4, <3>5
  <2>5. CASE Fund!HistoryArrives(i)
    <3>1. c.kind = "history" /\ calls' = Fund!AfterHistory(c, rest)
      BY <2>5 DEF Fund!HistoryArrives, Fund!Arrives, rest
    <3>2. page' = [page EXCEPT !.history = c.answer,
                               !.saving = @ /\ c.about.after # "add",
                               !.jobsLoading = @ \/ c.about.after # "add"]
      BY <1>3, <2>5 DEF Fund!HistoryArrives
    <3>3. c.answer \in Fund!Prices \cup {None} /\ c.about.after \in {"add", "sync"}
      BY <1>3, <3>1 DEF FundCall, FundSync
    <3>. HIDE DEF c, jobs
    <3>4. /\ page' \in FundPage /\ ~page'.loading /\ page'.history = c.answer
          /\ page'.saving <=> page.saving /\ c.about.after # "add"
          /\ page'.jobsLoading <=> page.jobsLoading \/ c.about.after # "add"
          /\ page'.jobs = page.jobs /\ page'.sync = page.sync
      BY <1>5, <2>0, <3>2, <3>3 DEF FundPage
    <3>5. HistoryFollows(page', server, Elems(rest))
      BY <1>2, <1>3, <2>0, <3>1, <3>4 DEF HistoryFollows, HistoryComes
    <3>6. CASE c.about.after = "add"
      <4>1. calls' = rest
        BY <3>1, <3>6 DEF Fund!AfterHistory
      <4>2. JobsFollow(page', server, Elems(rest)) /\ FundWaits(page', Elems(rest))
        BY <1>2, <2>0, <3>1, <3>4, <3>6 DEF JobsFollow, JobsCome, FundWaits
      <4>. QED BY <1>2, <1>6, <3>4, <3>5, <4>1, <4>2
    <3>7. CASE c.about.after = "sync"
      <4>1. calls' = Append(rest, jobs)
        BY <3>1, <3>7 DEF Fund!AfterHistory, Fund!Send, Fund!Call, jobs
      <4>2. calls' \in Seq(FundCall) /\ Turns(calls') /\ Elems(calls') = Elems(rest) \cup {jobs}
        BY <1>2, <1>7, <4>1, FundAsks
      <4>3. HistoryFollows(page', server, Elems(calls'))
        BY <1>7, <3>5, <4>2 DEF HistoryFollows
      <4>4. JobsFollow(page', server, Elems(calls')) /\ FundWaits(page', Elems(calls'))
        BY <1>2, <1>7, <2>0, <3>1, <3>4, <3>7, <4>2 DEF JobsFollow, JobsCome, FundWaits
      <4>. QED BY <1>6, <1>7, <3>4, <4>2, <4>3, <4>4
    <3>. QED BY <3>3, <3>6, <3>7
  <2>6. ~Fund!LoadArrives(i)
    BY <1>9 DEF Fund!LoadArrives, Fund!Arrives
  <2>. QED BY <2>1, <2>2, <2>3, <2>4, <2>5, <2>6
<1>. QED BY <1>8, <1>9 DEF Fund!JobsArrive, Fund!AddArrives, Fund!SyncArrives,
                          Fund!HistoryArrives, Fund!Arrives

LEMMA FundUser ==
  ASSUME FundInv, Fund!User
  PROVE  FundInv' /\ UNCHANGED habits
<1>0. /\ page \in FundPage /\ server \in FundTables /\ calls \in Seq(FundCall) /\ Turns(calls)
      /\ FundLinked(page, server, Elems(calls))
  BY DEF FundInv
<1>1. UNCHANGED <<habits, server>> /\ ~page.loading
  BY DEF Fund!User, Fund!AddNav, Fund!Sync, Fund!UserChanges, Fund!Usable
<1>2. ASSUME NEW d \in Day, Fund!AddNav(d)
      PROVE  FundInv'
  <2> DEFINE c == [kind |-> "add", about |-> d, status |-> "sent", answer |-> None]
  <2>1. page' = [page EXCEPT !.saving = TRUE] /\ calls' = Append(calls, c)
    BY <1>2 DEF Fund!AddNav, Fund!Send, Fund!Call
  <2>2. c \in FundCall /\ c.kind = "add" /\ c.status = "sent"
    BY DEF FundCall, Status
  <2>. HIDE DEF c
  <2>3. calls' \in Seq(FundCall) /\ Turns(calls') /\ Elems(calls') = Elems(calls) \cup {c}
    BY <1>0, <2>1, <2>2, FundAsks
  <2>4. /\ page' \in FundPage /\ ~page'.loading /\ page'.history = page.history
        /\ page'.jobs = page.jobs /\ page'.sync = page.sync
        /\ page'.jobsLoading = page.jobsLoading
    BY <1>0, <1>1, <2>1 DEF FundPage
  <2>5. FundLinked(page', server, Elems(calls'))
    BY <1>0, <1>1, <2>2, <2>3, <2>4
    DEF FundLinked, FundLoads, FundWaits, HistoryFollows, JobsFollow
  <2>. QED BY <1>0, <1>1, <2>3, <2>4, <2>5 DEF FundInv
<1>3. CASE Fund!Sync
  <2> DEFINE c == [kind |-> "sync", about |-> [after |-> "sync", history |-> page.history],
                   status |-> "sent", answer |-> None]
  <2>1. page' = [page EXCEPT !.sync = "loading"] /\ calls' = Append(calls, c)
    BY <1>3 DEF Fund!Sync, Fund!Send, Fund!Call
  <2>2. c \in FundCall /\ c.kind = "sync" /\ c.status = "sent"
    BY <1>0 DEF FundCall, Status, FundSync, FundPage
  <2>. HIDE DEF c
  <2>3. calls' \in Seq(FundCall) /\ Turns(calls') /\ Elems(calls') = Elems(calls) \cup {c}
    BY <1>0, <2>1, <2>2, FundAsks
  <2>4. /\ page' \in FundPage /\ ~page'.loading /\ page'.history = page.history
        /\ page'.saving = page.saving /\ page'.jobsLoading = page.jobsLoading
    BY <1>0, <1>1, <2>1 DEF FundPage
  <2>5. JobsFollow(page', server, Elems(calls'))
    BY <2>2, <2>3 DEF JobsFollow, JobsCome
  <2>6. FundLinked(page', server, Elems(calls'))
    BY <1>0, <1>1, <2>2, <2>3, <2>4, <2>5 DEF FundLinked, FundLoads, FundWaits, HistoryFollows
  <2>. QED BY <1>0, <1>1, <2>3, <2>4, <2>6 DEF FundInv
<1>. QED BY <1>1, <1>2, <1>3 DEF Fund!User

Calm == habits \cap {"reorder", "fail"} = {}

FundAlways == view = "fund" /\ Calm => FundInv

\* When all is answered, the page of an instrument shows all its prices and, unless
\* the last sync failed, all its jobs, whatever the user added and synced meanwhile,
\* as long as calls neither fail nor overtake each other.
THEOREM FundPageAtRest == Spec => []FundHistoryAtRest
<1>1. Init => FundAlways
  BY InitFund DEF Init, FundAlways
<1>2. ASSUME FundAlways, Next
      PROVE  FundAlways'
  <2>1. CASE view = "fund"
    <3>1. Fund!Next
      BY <1>2, <2>1 DEF Next
    <3>2. UNCHANGED habits
      BY <3>1 DEF Fund!Next, Fund!User, Fund!Network, Fund!AddNav, Fund!Sync, Fund!UserChanges,
         Fund!Serve, Fund!Lose, Fund!LoadArrives, Fund!JobsArrive, Fund!AddArrives,
         Fund!SyncArrives, Fund!HistoryArrives, Fund!Arrives
    <3>3. ASSUME Calm, FundInv
          PROVE  FundInv'
      BY <3>1, <3>3, FundServed, FundArrived, FundUser
      DEF Fund!Next, Fund!Network, Fund!Lose, Calm
    <3>. QED BY <1>2, <2>1, <3>2, <3>3 DEF Next, FundAlways, Calm
  <2>2. CASE view # "fund"
    BY <1>2, <2>2 DEF Next, FundAlways
  <2>. QED BY <2>1, <2>2
<1>3. ASSUME FundAlways, UNCHANGED vars
      PROVE  FundAlways'
  BY <1>3 DEF vars, FundAlways, Calm, FundInv, FundLinked, FundLoads, FundWaits,
     HistoryFollows, JobsFollow, Turns, Elems
<1>4. FundAlways => FundHistoryAtRest
  <2>1. ASSUME FundInv, ~page.loading, calls = <<>>
        PROVE  /\ page.history = server.prices /\ ~page.saving /\ ~page.jobsLoading
               /\ page.jobs = server.jobs \/ page.sync = "error"
    <3>1. Elems(calls) = {}
      BY <2>1, ElemsNone
    <3>. QED BY <2>1, <3>1 DEF FundInv, FundLinked, FundWaits, HistoryFollows, JobsFollow
  <2>. QED BY <2>1 DEF FundAlways, FundHistoryAtRest, Fund!HistoryAtRest, Fund!Usable, Calm
<1>. QED BY <1>1, <1>2, <1>3, <1>4, PTL DEF Spec

--------------------------------------------------------------------------------
(* The latest call of a kind is the one that counts when calls of a kind are    *)
(* answered in turn.                                                            *)

IsLatest(cs, kind, i) ==
    /\ i \in DOMAIN cs /\ cs[i].kind = kind
    /\ \A j \in DOMAIN cs : j > i => cs[j].kind # kind

Latest(cs, kind) == {cs[i] : i \in {j \in DOMAIN cs : IsLatest(cs, kind, j)}}

LEMMA LatestAppended ==
  ASSUME NEW S, NEW cs \in Seq(S), NEW c \in S, NEW kind
  PROVE  /\ c.kind = kind => Latest(Append(cs, c), kind) \subseteq {c}
         /\ c.kind # kind => Latest(Append(cs, c), kind) \subseteq Latest(cs, kind)
<1> DEFINE d == Append(cs, c)
<1>1. /\ DOMAIN d = 1..(Len(cs) + 1) /\ DOMAIN cs = 1..Len(cs) /\ Len(cs) \in Nat
      /\ \A j \in 1..Len(cs) : d[j] = cs[j]
      /\ d[Len(cs) + 1] = c
  OBVIOUS
<1>. HIDE DEF d
<1>2. ASSUME NEW i \in DOMAIN d, IsLatest(d, kind, i), i # Len(cs) + 1
      PROVE  c.kind # kind /\ IsLatest(cs, kind, i) /\ d[i] = cs[i]
  <2>1. i \in DOMAIN cs /\ d[i] = cs[i] /\ Len(cs) + 1 > i /\ Len(cs) + 1 \in DOMAIN d
    BY <1>1, <1>2
  <2>2. c.kind # kind
    BY <1>1, <1>2, <2>1 DEF IsLatest
  <2>3. \A j \in DOMAIN cs : j \in DOMAIN d /\ d[j] = cs[j]
    BY <1>1
  <2>. QED BY <1>2, <2>1, <2>2, <2>3 DEF IsLatest
<1>3. IsLatest(d, kind, Len(cs) + 1) => c.kind = kind /\ d[Len(cs) + 1] = c
  BY <1>1 DEF IsLatest
<1>. QED BY <1>2, <1>3 DEF Latest, d

LEMMA LatestDropped ==
  ASSUME NEW S, NEW cs \in Seq(S), NEW k \in DOMAIN cs, NEW kind,
         \A j \in 1..(k - 1) : cs[j].kind # cs[k].kind
  PROVE  /\ Latest(Dropped(cs, k), kind) \subseteq Latest(cs, kind)
         /\ cs[k].kind = kind /\ (\A c \in Elems(Dropped(cs, k)) : c.kind # kind) =>
               cs[k] \in Latest(cs, kind)
<1> DEFINE d == Dropped(cs, k)
           at(j) == IF j < k THEN j ELSE j + 1
<1>1. /\ d \in Seq(S) /\ Len(d) = Len(cs) - 1
      /\ \A j \in 1..(Len(cs) - 1) : d[j] = cs[at(j)]
  BY DroppedAt
<1>. HIDE DEF d
<1>2. DOMAIN d = 1..(Len(cs) - 1) /\ DOMAIN cs = 1..Len(cs) /\ Len(cs) \in Nat
  BY <1>1
<1>3. ASSUME NEW j \in DOMAIN cs, j # k
      PROVE  \E m \in DOMAIN d : at(m) = j /\ d[m] = cs[j]
  <2>1. CASE j < k
    BY <1>1, <1>2, <2>1
  <2>2. CASE ~(j < k)
    <3>1. j - 1 \in DOMAIN d /\ ~(j - 1 < k) /\ (j - 1) + 1 = j
      BY <1>2, <1>3, <2>2
    <3>. QED BY <1>1, <1>2, <3>1
  <2>. QED BY <2>1, <2>2
<1>4. ASSUME NEW i \in DOMAIN d, IsLatest(d, kind, i)
      PROVE  IsLatest(cs, kind, at(i)) /\ d[i] = cs[at(i)]
  <2>1. at(i) \in DOMAIN cs /\ d[i] = cs[at(i)] /\ cs[at(i)].kind = kind
    BY <1>1, <1>2, <1>4 DEF IsLatest
  <2>2. ASSUME NEW j \in DOMAIN cs, j > at(i), cs[j].kind = kind
        PROVE  FALSE
    <3>1. CASE j = k
      <4>1. at(i) \in 1..(k - 1)
        BY <1>2, <2>1, <2>2, <3>1
      <4>. QED BY <2>1, <2>2, <3>1, <4>1
    <3>2. CASE j # k
      <4>1. PICK m \in DOMAIN d : at(m) = j /\ d[m] = cs[j]
        BY <1>3, <3>2
      <4>2. m > i
        BY <1>2, <2>2, <4>1
      <4>. QED BY <1>4, <2>2, <4>1, <4>2 DEF IsLatest
    <3>. QED BY <3>1, <3>2
  <2>. QED BY <2>1, <2>2 DEF IsLatest
<1>5. Latest(d, kind) \subseteq Latest(cs, kind)
  <2>1. \A i \in DOMAIN d : IsLatest(d, kind, i) => d[i] \in Latest(cs, kind)
    <3>. HIDE DEF at
    <3>. QED BY <1>4 DEF Latest, IsLatest
  <2>. QED BY <2>1 DEF Latest
<1>6. ASSUME cs[k].kind = kind, \A c \in Elems(d) : c.kind # kind
      PROVE  cs[k] \in Latest(cs, kind)
  <2>1. \A j \in DOMAIN cs : j # k => cs[j].kind # kind
    <3>. HIDE DEF at
    <3>. QED BY <1>3, <1>6 DEF Elems
  <2>2. IsLatest(cs, kind, k)
    BY <1>2, <1>6, <2>1 DEF IsLatest
  <2>. QED BY <2>2 DEF Latest
<1>. QED BY <1>5, <1>6 DEF d

LEMMA LatestAnswered ==
  ASSUME NEW S, NEW cs \in Seq(S), NEW k \in DOMAIN cs, NEW status, NEW answer, NEW kind
  PROVE  LET c == [cs[k] EXCEPT !.status = status, !.answer = answer]
             t == [cs EXCEPT ![k].status = status, ![k].answer = answer]
         IN c.kind = cs[k].kind =>
               \A b \in Latest(t, kind) :
                  \/ b \in Latest(cs, kind)
                  \/ b = c /\ cs[k] \in Latest(cs, kind)
<1> DEFINE c == [cs[k] EXCEPT !.status = status, !.answer = answer]
           t == [cs EXCEPT ![k].status = status, ![k].answer = answer]
<1>. SUFFICES ASSUME c.kind = cs[k].kind
              PROVE  \A b \in Latest(t, kind) :
                        \/ b \in Latest(cs, kind)
                        \/ b = c /\ cs[k] \in Latest(cs, kind)
  OBVIOUS
<1>1. DOMAIN t = DOMAIN cs /\ t[k] = c /\ \A j \in DOMAIN cs : j # k => t[j] = cs[j]
  OBVIOUS
<1>. HIDE DEF c, t
<1>2. \A j \in DOMAIN cs : t[j].kind = cs[j].kind
  BY <1>1
<1>3. \A j \in DOMAIN t : IsLatest(t, kind, j) => IsLatest(cs, kind, j)
  BY <1>1, <1>2 DEF IsLatest
<1>. QED BY <1>1, <1>3 DEF Latest

\* Of the calls of these kinds one is under way at most.
OneOf(cs, kinds) ==
    \A i, j \in DOMAIN cs : cs[i].kind \in kinds /\ cs[j].kind \in kinds => i = j

LEMMA OneOfAppended ==
  ASSUME NEW S, NEW cs \in Seq(S), NEW c \in S, NEW kinds, OneOf(cs, kinds),
         c.kind \in kinds => \A b \in Elems(cs) : b.kind \notin kinds
  PROVE  OneOf(Append(cs, c), kinds)
<1>1. /\ DOMAIN Append(cs, c) = 1..(Len(cs) + 1) /\ DOMAIN cs = 1..Len(cs) /\ Len(cs) \in Nat
      /\ \A j \in 1..Len(cs) : Append(cs, c)[j] = cs[j]
      /\ Append(cs, c)[Len(cs) + 1] = c
  OBVIOUS
<1>. QED BY <1>1 DEF OneOf, Elems

LEMMA OneOfDropped ==
  ASSUME NEW S, NEW cs \in Seq(S), NEW i \in DOMAIN cs, NEW kinds, OneOf(cs, kinds)
  PROVE  /\ OneOf(Dropped(cs, i), kinds)
         /\ cs[i].kind \in kinds => \A c \in Elems(Dropped(cs, i)) : c.kind \notin kinds
<1> DEFINE d == Dropped(cs, i)
           at(j) == IF j < i THEN j ELSE j + 1
<1>1. /\ d \in Seq(S) /\ Len(d) = Len(cs) - 1
      /\ \A j \in 1..(Len(cs) - 1) : d[j] = cs[at(j)]
  BY DroppedAt
<1>. HIDE DEF d
<1>2. DOMAIN d = 1..(Len(cs) - 1) /\ DOMAIN cs = 1..Len(cs) /\ Len(cs) \in Nat
  BY <1>1
<1>3. /\ \A j \in DOMAIN d : at(j) \in DOMAIN cs /\ at(j) # i /\ d[j] = cs[at(j)]
      /\ \A j, k \in DOMAIN d : at(j) = at(k) => j = k
  BY <1>1, <1>2
<1>. HIDE DEF at
<1>. QED BY <1>3 DEF OneOf, Elems, d

LEMMA OneOfAnswered ==
  ASSUME NEW S, NEW cs \in Seq(S), NEW k \in DOMAIN cs, NEW status, NEW answer, NEW kinds,
         OneOf(cs, kinds),
         [cs[k] EXCEPT !.status = status, !.answer = answer].kind = cs[k].kind
  PROVE  OneOf([cs EXCEPT ![k].status = status, ![k].answer = answer], kinds)
<1> DEFINE t == [cs EXCEPT ![k].status = status, ![k].answer = answer]
<1>1. DOMAIN t = DOMAIN cs /\ \A j \in DOMAIN cs : t[j].kind = cs[j].kind
  OBVIOUS
<1>. HIDE DEF t
<1>. QED BY <1>1 DEF OneOf, t

--------------------------------------------------------------------------------
(* The chart of a template.  A template changes only while its form is open, and *)
(* when the form closes the series is loaded again; so the latest series is of   *)
(* the range that is chosen and of the template as it is, and when none is under *)
(* way the chart shows the last one.                                             *)

ChartRange == FixedRange \cup {"3M", "CUSTOM"}
ChartDay   == Day \cup {0, Available.from, Available.to}
ChartChoice == [range : ChartRange, from : ChartDay, to : ChartDay]

ChartCall ==
    [kind : {"available"}, about : {None}, status : Status, answer : Nat \cup {None}]
    \cup [kind : {"series"}, about : ChartChoice, status : Status, answer : Nat \cup {None}]
    \cup [kind : {"save"}, about : {"open"}, status : Status, answer : Nat \cup {None}]

ChartPage ==
    [range : ChartRange, from : ChartDay, to : ChartDay, available : BOOLEAN,
     showCustom : BOOLEAN, data : [choice : ChartChoice, version : Nat \cup {None}] \cup {None},
     loading : BOOLEAN, error : BOOLEAN, paused : BOOLEAN, saving : BOOLEAN]

SavePaused(pg, C) == \A c \in C : c.kind = "save" => pg.paused /\ pg.saving

\* D is the latest series, C all calls.
ChartFollows(pg, db, D, C) ==
    ~pg.paused /\ Chart!ValidChoice(pg) =>
        /\ \A c \in D : c.about = Chart!Choice(pg) /\ (c.status = "served" => c.answer = db)
        /\ (\A c \in C : c.kind # "series") =>
              pg.error \/ pg.data = [choice |-> Chart!Choice(pg), version |-> db]

ChartLoads(pg, C) == pg.loading => \E c \in C : c.kind = "series"

ChartInv ==
    /\ server \in Nat /\ page \in ChartPage /\ calls \in Seq(ChartCall)
    /\ OneOf(calls, {"save"}) /\ SavePaused(page, Elems(calls)) /\ ChartLoads(page, Elems(calls))
    /\ ChartFollows(page, server, Latest(calls, "series"), Elems(calls))

LEMMA ChartChosen ==
  ASSUME NEW pg \in ChartPage
  PROVE  Chart!Choice(pg) \in ChartChoice
  BY DEF Chart!Choice, ChartPage, ChartChoice, ChartRange, ChartDay

\* What the page asks next.
LEMMA ChartAsks ==
  ASSUME NEW cs \in Seq(ChartCall), NEW c \in ChartCall, c.kind # "save",
         OneOf(cs, {"save"})
  PROVE  /\ Append(cs, c) \in Seq(ChartCall) /\ OneOf(Append(cs, c), {"save"})
         /\ Elems(Append(cs, c)) = Elems(cs) \cup {c}
         /\ c.kind = "series" => Latest(Append(cs, c), "series") \subseteq {c}
         /\ c.kind # "series" =>
               Latest(Append(cs, c), "series") \subseteq Latest(cs, "series")
  BY ElemsAppended, OneOfAppended, LatestAppended

LEMMA ChartRendered ==
  ASSUME NEW pg \in ChartPage, NEW cs \in Seq(ChartCall), Chart!Render(pg, cs),
         page \in ChartPage, server \in Nat, UNCHANGED server,
         OneOf(cs, {"save"}), SavePaused(pg, Elems(cs)), ChartLoads(pg, Elems(cs)),
         ~Chart!LoadDue(pg) => ChartFollows(pg, server, Latest(cs, "series"), Elems(cs))
  PROVE  ChartInv'
<1> DEFINE rc == Chart!RangeCalls(pg, cs)
<1>1. /\ rc \in Seq(ChartCall) /\ OneOf(rc, {"save"})
      /\ Latest(rc, "series") \subseteq Latest(cs, "series")
      /\ Elems(cs) \subseteq Elems(rc)
      /\ \A b \in Elems(rc) : b \in Elems(cs) \/ b.kind = "available"
  <2> DEFINE c == [kind |-> "available", about |-> None, status |-> "sent", answer |-> None]
  <2>1. c \in ChartCall /\ c.kind = "available"
    BY DEF ChartCall, Status
  <2>2. rc = cs \/ rc = Append(cs, c)
    BY DEF Chart!RangeCalls, Chart!Send, Chart!Call
  <2>. HIDE DEF c, rc
  <2>3. CASE rc = cs
    BY <2>3
  <2>4. CASE rc = Append(cs, c)
    BY <2>1, <2>4, ChartAsks
  <2>. QED BY <2>2, <2>3, <2>4
<1>. HIDE DEF rc
<1>2. SavePaused(pg, Elems(rc)) /\ ChartLoads(pg, Elems(rc))
  BY <1>1 DEF SavePaused, ChartLoads
<1>3. CASE ~Chart!LoadDue(pg)
  <2>1. page' = pg /\ calls' = rc
    BY <1>3 DEF Chart!Render, rc
  <2>2. ChartFollows(pg, server, Latest(rc, "series"), Elems(rc))
    BY <1>1, <1>3 DEF ChartFollows
  <2>. QED BY <1>1, <1>2, <2>1, <2>2 DEF ChartInv
<1>4. CASE Chart!LoadDue(pg) /\ ~Chart!Loads(pg)
  <2>1. page' = pg /\ calls' = rc
    BY <1>4 DEF Chart!Render, Chart!LoadPage, Chart!LoadCalls, rc
  <2>2. ChartFollows(pg, server, Latest(rc, "series"), Elems(rc))
    BY <1>4 DEF ChartFollows, Chart!Loads
  <2>. QED BY <1>1, <1>2, <2>1, <2>2 DEF ChartInv
<1>5. CASE Chart!LoadDue(pg) /\ Chart!Loads(pg)
  <2> DEFINE c == [kind |-> "series", about |-> Chart!Choice(pg), status |-> "sent",
                   answer |-> None]
  <2>1. c \in ChartCall /\ c.kind = "series" /\ c.about = Chart!Choice(pg) /\ c.status = "sent"
    BY ChartChosen DEF ChartCall, Status
  <2>2. page' = [pg EXCEPT !.loading = TRUE, !.error = FALSE] /\ calls' = Append(rc, c)
    BY <1>5 DEF Chart!Render, Chart!LoadPage, Chart!LoadCalls, Chart!Send, Chart!Call, rc
  <2>. HIDE DEF c
  <2>3. /\ page' \in ChartPage /\ page'.paused = pg.paused /\ page'.saving = pg.saving
        /\ Chart!Choice(page') = Chart!Choice(pg)
    BY <2>2 DEF ChartPage, Chart!Choice
  <2>4. /\ calls' \in Seq(ChartCall) /\ OneOf(calls', {"save"}) /\ Elems(calls') = Elems(rc) \cup {c}
        /\ Latest(calls', "series") \subseteq {c}
    BY <1>1, <2>1, <2>2, ChartAsks
  <2>5. /\ SavePaused(page', Elems(calls')) /\ ChartLoads(page', Elems(calls'))
        /\ ChartFollows(page', server, Latest(calls', "series"), Elems(calls'))
    BY <1>2, <2>1, <2>3, <2>4 DEF SavePaused, ChartLoads, ChartFollows
  <2>. QED BY <2>3, <2>4, <2>5 DEF ChartInv
<1>. QED BY <1>3, <1>4, <1>5

LEMMA InitChart ==
  ASSUME Chart!Init
  PROVE  ChartInv
<1> DEFINE a == [kind |-> "available", about |-> None, status |-> "sent", answer |-> None]
           b == [kind |-> "series", about |-> Chart!Choice(Chart!Fresh), status |-> "sent",
                 answer |-> None]
<1>1. server = 0 /\ page = Chart!Fresh /\ calls = Append(Append(<<>>, a), b)
  BY DEF Chart!Init, Chart!Openings, Chart!FirstCalls, Chart!Send, Chart!Call
<1>2. page \in ChartPage
  BY <1>1 DEF Chart!Fresh, ChartPage, ChartRange, ChartDay
<1>3. a \in ChartCall /\ a.kind = "available"
  BY DEF ChartCall, Status
<1>4. b \in ChartCall /\ b.kind = "series" /\ b.status = "sent" /\ b.about = Chart!Choice(page)
  BY <1>1, <1>2, ChartChosen DEF ChartCall, Status
<1>. HIDE DEF a, b
<1>5. Append(<<>>, a) \in Seq(ChartCall) /\ Elems(Append(<<>>, a)) = {a}
  BY <1>3, ElemsOne
<1>6. OneOf(Append(<<>>, a), {"save"})
  BY <1>3, <1>5 DEF OneOf, Elems
<1>7. /\ calls \in Seq(ChartCall) /\ OneOf(calls, {"save"}) /\ Elems(calls) = {a, b}
      /\ Latest(calls, "series") \subseteq {b}
  BY <1>1, <1>4, <1>5, <1>6, ChartAsks
<1>8. /\ SavePaused(page, Elems(calls)) /\ ChartLoads(page, Elems(calls))
      /\ ChartFollows(page, server, Latest(calls, "series"), Elems(calls))
  BY <1>3, <1>4, <1>7 DEF SavePaused, ChartLoads, ChartFollows
<1>. QED BY <1>1, <1>2, <1>7, <1>8 DEF ChartInv

\* The backend handles a call, or it is lost.
LEMMA ChartServed ==
  ASSUME ChartInv, NEW i \in DOMAIN calls, Chart!Serve(i) \/ Chart!Lose(i)
  PROVE  ChartInv' /\ UNCHANGED habits
<1> DEFINE old == calls[i]
<1>0. /\ calls \in Seq(ChartCall) /\ old \in ChartCall /\ old \in Elems(calls)
      /\ server \in Nat /\ page \in ChartPage /\ UNCHANGED <<habits, page>>
  BY DEF ChartInv, Elems, Chart!Serve, Chart!Lose
<1>1. PICK status \in Status, answer \in Nat \cup {None} :
        /\ calls' = [calls EXCEPT ![i].status = status, ![i].answer = answer]
        /\ server' \in Nat /\ (old.kind # "save" => server' = server)
        /\ status = "served" => answer = server'
  <2>1. CASE Chart!Serve(i)
    <3>1. server' \in Nat /\ (old.kind # "save" => server' = server)
      BY <1>0, <2>1 DEF Chart!Serve
    <3>. QED BY <2>1, <3>1 DEF Chart!Serve, Chart!Served, Status
  <2>2. CASE Chart!Lose(i)
    BY <1>0, <2>2 DEF Chart!Lose, Chart!Lost, Status
  <2>. QED BY <2>1, <2>2
<1> DEFINE new == [old EXCEPT !.status = status, !.answer = answer]
<1>2. new \in ChartCall
  <2>. HIDE DEF old
  <2>. QED BY <1>0, <1>1 DEF ChartCall
<1>3. /\ new.kind = old.kind /\ new.about = old.about
      /\ new.status = status /\ new.answer = answer
  BY <1>0 DEF ChartCall
<1>4. /\ calls' \in Seq(ChartCall) /\ new \in Elems(calls')
      /\ Elems(calls') \subseteq Elems(calls) \cup {new}
      /\ Elems(calls) \subseteq Elems(calls') \cup {old}
  BY <1>0, <1>1, <1>2, ElemsAnswered
<1>5. OneOf(calls', {"save"})
  BY <1>0, <1>1, <1>3, OneOfAnswered DEF ChartInv
<1>6. \A b \in Latest(calls', "series") :
         b \in Latest(calls, "series") \/ (b = new /\ old \in Latest(calls, "series"))
  BY <1>0, <1>1, <1>3, LatestAnswered
<1>. HIDE DEF old, new
<1>7. SavePaused(page, Elems(calls')) /\ ChartLoads(page, Elems(calls'))
  BY <1>0, <1>3, <1>4 DEF ChartInv, SavePaused, ChartLoads
<1>8. ChartFollows(page, server', Latest(calls', "series"), Elems(calls'))
  <2>1. CASE old.kind = "save"
    BY <1>0, <2>1 DEF ChartInv, SavePaused, ChartFollows
  <2>2. CASE old.kind # "save"
    <3>1. server' = server
      BY <1>1, <2>2
    <3>2. \A b \in Latest(calls, "series") : b.kind = "series"
      BY DEF Latest, IsLatest
    <3>. QED BY <1>1, <1>3, <1>4, <1>6, <1>0, <3>1, <3>2 DEF ChartInv, ChartFollows
  <2>. QED BY <2>1, <2>2
<1>. QED BY <1>0, <1>1, <1>4, <1>5, <1>7, <1>8 DEF ChartInv

\* No call has a form to lose: a form is not closed while it is saved.
LEMMA NothingOrphaned ==
  ASSUME NEW cs \in Seq(ChartCall), \A c \in Elems(cs) : c.kind # "save"
  PROVE  Chart!Orphaned(cs) = cs
  BY DEF Chart!Orphaned, Elems

LEMMA ChartArrived ==
  ASSUME ChartInv, "reorder" \notin habits, NEW i \in DOMAIN calls,
         Chart!AvailableArrives(i) \/ Chart!SeriesArrives(i) \/ Chart!SaveArrives(i)
  PROVE  ChartInv' /\ UNCHANGED habits
<1> DEFINE rest == Chart!Rest(i)
           c == calls[i]
<1>1. rest = Dropped(calls, i)
  BY DEF Chart!Rest, Chart!RemoveAt, Dropped
<1>. HIDE DEF rest
<1>2. /\ c \in ChartCall /\ c \in Elems(calls) /\ page \in ChartPage /\ server \in Nat
      /\ calls \in Seq(ChartCall)
  BY DEF ChartInv, Elems
<1>3. /\ UNCHANGED <<habits, server>> /\ c.status # "sent"
      /\ \A j \in 1..(i - 1) : calls[j].kind # c.kind
  BY DEF Chart!AvailableArrives, Chart!SeriesArrives, Chart!SaveArrives, Chart!Arrives,
         Chart!Arriving, Chart!InTurn
<1>4. /\ rest \in Seq(ChartCall) /\ OneOf(rest, {"save"}) /\ Elems(rest) \subseteq Elems(calls)
      /\ Elems(calls) \subseteq Elems(rest) \cup {c}
      /\ c.kind = "save" => \A b \in Elems(rest) : b.kind # "save"
  BY <1>1, ElemsDropped, OneOfDropped DEF ChartInv
<1>5. /\ Latest(rest, "series") \subseteq Latest(calls, "series")
      /\ c.kind = "series" /\ (\A b \in Elems(rest) : b.kind # "series") =>
            c \in Latest(calls, "series")
  BY <1>1, <1>2, <1>3, LatestDropped
<1>6. SavePaused(page, Elems(rest))
  BY <1>4 DEF ChartInv, SavePaused
<1>7. CASE Chart!AvailableArrives(i)
  <2>1. c.kind = "available"
    BY <1>7 DEF Chart!AvailableArrives, Chart!Arrives
  <2>2. /\ ChartLoads(page, Elems(rest))
        /\ ChartFollows(page, server, Latest(rest, "series"), Elems(rest))
    BY <1>4, <1>5, <2>1 DEF ChartInv, ChartLoads, ChartFollows
  <2>3. CASE Chart!Succeeds(c)
    <3> DEFINE pg == [page EXCEPT !.available = TRUE, !.from = Available.from,
                                  !.to = Available.to]
    <3>1. Chart!Render(pg, rest)
      BY <1>7, <2>3 DEF Chart!AvailableArrives, rest
    <3>2. /\ pg \in ChartPage /\ pg.paused = page.paused /\ pg.saving = page.saving
          /\ pg.loading = page.loading /\ pg.range = page.range /\ pg.error = page.error
          /\ pg.data = page.data
      BY <1>2 DEF ChartPage, ChartDay
    <3>. HIDE DEF pg
    <3>3. SavePaused(pg, Elems(rest)) /\ ChartLoads(pg, Elems(rest))
      BY <1>6, <2>2, <3>2 DEF SavePaused, ChartLoads
    <3>4. ASSUME ~Chart!LoadDue(pg)
          PROVE  ChartFollows(pg, server, Latest(rest, "series"), Elems(rest))
      <4>1. pg.from = page.from /\ pg.to = page.to
        BY <3>4 DEF Chart!LoadDue
      <4>. QED BY <2>2, <3>2, <4>1
           DEF ChartFollows, Chart!Choice, Chart!ValidChoice, Chart!ValidDates
    <3>. QED BY <1>2, <1>3, <1>4, <3>1, <3>2, <3>3, <3>4, ChartRendered
  <2>4. CASE ~Chart!Succeeds(c)
    <3>1. calls' = rest /\ page' = page
      BY <1>7, <2>4 DEF Chart!AvailableArrives, rest
    <3>. QED BY <1>2, <1>3, <1>4, <1>6, <2>2, <3>1 DEF ChartInv
  <2>. QED BY <1>3, <2>3, <2>4
<1>8. CASE Chart!SeriesArrives(i)
  <2>1. c.kind = "series" /\ calls' = rest
    BY <1>8 DEF Chart!SeriesArrives, Chart!Arrives, rest
  <2>2. c.about \in ChartChoice /\ c.answer \in Nat \cup {None} /\ c.status \in Status
    BY <1>2, <2>1 DEF ChartCall
  <2>3. \/ /\ c.status = "served"
           /\ page' = [page EXCEPT !.loading = FALSE,
                          !.data = [choice |-> c.about, version |-> c.answer]]
        \/ page' = [page EXCEPT !.loading = FALSE, !.error = TRUE]
    BY <1>8 DEF Chart!SeriesArrives, Chart!Succeeds
  <2>. HIDE DEF c
  <2>4. /\ page' \in ChartPage /\ ~page'.loading /\ page'.paused = page.paused
        /\ page'.saving = page.saving /\ Chart!Choice(page') = Chart!Choice(page)
        /\ Chart!ValidChoice(page') <=> Chart!ValidChoice(page)
        /\ \/ c.status = "served" /\ page'.data = [choice |-> c.about, version |-> c.answer]
           \/ page'.error
    <3>1. /\ page' \in ChartPage /\ ~page'.loading /\ page'.paused = page.paused
          /\ page'.saving = page.saving /\ page'.range = page.range /\ page'.from = page.from
          /\ page'.to = page.to
      <4>1. CASE page' = [page EXCEPT !.loading = FALSE, !.error = TRUE]
        BY <1>2, <4>1 DEF ChartPage
      <4>2. CASE page' = [page EXCEPT !.loading = FALSE,
                             !.data = [choice |-> c.about, version |-> c.answer]]
        BY <1>2, <2>2, <4>2 DEF ChartPage
      <4>. QED BY <2>3, <4>1, <4>2
    <3>2. \/ c.status = "served" /\ page'.data = [choice |-> c.about, version |-> c.answer]
          \/ page'.error
      BY <1>2, <2>3 DEF ChartPage
    <3>. QED BY <3>1, <3>2 DEF Chart!Choice, Chart!ValidChoice, Chart!ValidDates
  <2>5. SavePaused(page', Elems(rest)) /\ ChartLoads(page', Elems(rest))
    BY <1>6, <2>4 DEF SavePaused, ChartLoads
  <2>6. ChartFollows(page', server, Latest(rest, "series"), Elems(rest))
    BY <1>5, <2>1, <2>4 DEF ChartInv, ChartFollows
  <2>. QED BY <1>2, <1>3, <1>4, <2>1, <2>4, <2>5, <2>6 DEF ChartInv
<1>9. CASE Chart!SaveArrives(i)
  <2>1. /\ c.kind = "save" /\ page.paused
        /\ \A b \in Elems(rest) : b.kind # "save"
    BY <1>2, <1>4, <1>9 DEF Chart!SaveArrives, Chart!Arrives, ChartInv, SavePaused
  <2>2. ChartLoads(page, Elems(rest))
    BY <1>4, <2>1 DEF ChartInv, ChartLoads
  <2>3. CASE Chart!Succeeds(c)
    <3> DEFINE pg == [page EXCEPT !.paused = FALSE, !.saving = FALSE]
    <3>1. Chart!Render(pg, rest)
      <4>1. Chart!Render(pg, Chart!Orphaned(rest))
        BY <1>9, <2>3 DEF Chart!SaveArrives, rest
      <4>. QED BY <1>4, <2>1, <4>1, NothingOrphaned
    <3>2. pg \in ChartPage /\ ~pg.paused /\ pg.loading = page.loading /\ Chart!LoadDue(pg)
      BY <1>2, <2>1 DEF ChartPage, Chart!LoadDue
    <3>. HIDE DEF pg
    <3>3. SavePaused(pg, Elems(rest)) /\ ChartLoads(pg, Elems(rest))
      BY <2>1, <2>2, <3>2 DEF SavePaused, ChartLoads
    <3>. QED BY <1>2, <1>3, <1>4, <3>1, <3>2, <3>3, ChartRendered
  <2>4. CASE ~Chart!Succeeds(c)
    <3>1. calls' = rest /\ \E b \in BOOLEAN : page' = [page EXCEPT !.saving = b]
      <4>1. (page.saving /\ c.about # "open") \in BOOLEAN
        OBVIOUS
      <4>. QED BY <1>9, <2>4, <4>1 DEF Chart!SaveArrives, rest
    <3>2. /\ page' \in ChartPage /\ page'.paused /\ page'.loading = page.loading
      BY <1>2, <2>1, <3>1 DEF ChartPage
    <3>3. /\ SavePaused(page', Elems(rest)) /\ ChartLoads(page', Elems(rest))
          /\ ChartFollows(page', server, Latest(rest, "series"), Elems(rest))
      BY <2>1, <2>2, <3>2 DEF SavePaused, ChartLoads, ChartFollows
    <3>. QED BY <1>2, <1>3, <1>4, <3>1, <3>2, <3>3 DEF ChartInv
  <2>. QED BY <1>3, <2>3, <2>4
<1>. QED BY <1>7, <1>8, <1>9

\* Whatever the user changes in the page, its effects ask for the series anew.
LEMMA ChartEdited ==
  ASSUME ChartInv, NEW pg \in ChartPage, Chart!Render(pg, calls), UNCHANGED server,
         SavePaused(pg, Elems(calls)), pg.loading = page.loading, pg.error = page.error,
         pg.data = page.data
  PROVE  ChartInv'
<1>1. ASSUME ~Chart!LoadDue(pg)
      PROVE  ChartFollows(pg, server, Latest(calls, "series"), Elems(calls))
  <2>1. /\ pg.range = page.range /\ pg.from = page.from /\ pg.to = page.to
        /\ pg.paused = page.paused
    BY <1>1 DEF Chart!LoadDue
  <2>. QED BY <2>1 DEF ChartInv, ChartFollows, Chart!Choice, Chart!ValidChoice, Chart!ValidDates
<1>2. ChartLoads(pg, Elems(calls))
  BY DEF ChartInv, ChartLoads
<1>. QED BY <1>1, <1>2, ChartRendered DEF ChartInv

\* Of the page only the range that is chosen differs.
ChartSame(pg) ==
    /\ pg.loading = page.loading /\ pg.error = page.error /\ pg.data = page.data
    /\ pg.paused = page.paused /\ pg.saving = page.saving

LEMMA ChartUser ==
  ASSUME ChartInv, "close" \notin habits, Chart!User
  PROVE  ChartInv' /\ UNCHANGED habits
<1>0. UNCHANGED <<habits, server>> /\ page \in ChartPage /\ SavePaused(page, Elems(calls))
  BY DEF Chart!User, Chart!SelectFixed, Chart!OpenCustom, Chart!EnterDates, Chart!ApplyCustom,
         Chart!CancelCustom, Chart!OpenEditor, Chart!CloseEditor, Chart!SaveEdit,
         Chart!UserChooses, ChartInv
\* The range is changed, which the form does not see.
<1>1. ASSUME NEW pg \in ChartPage, Chart!Render(pg, calls), ChartSame(pg)
      PROVE  ChartInv'
  <2>1. SavePaused(pg, Elems(calls))
    BY <1>0, <1>1 DEF SavePaused, ChartSame
  <2>. QED BY <1>0, <1>1, <2>1, ChartEdited DEF ChartSame
<1>2. /\ "3M" \in ChartRange /\ "CUSTOM" \in ChartRange /\ FixedRange \subseteq ChartRange
      /\ Day \cup {0} \subseteq ChartDay
  BY DEF ChartRange, ChartDay
<1>4. ASSUME NEW r \in FixedRange, Chart!SelectFixed(r)
      PROVE  ChartInv'
  <2> DEFINE pg == [page EXCEPT !.showCustom = FALSE, !.range = r]
  <2>1. Chart!Render(pg, calls)
    BY <1>4 DEF Chart!SelectFixed
  <2>2. pg \in ChartPage /\ ChartSame(pg)
    BY <1>0, <1>2 DEF ChartPage, ChartSame
  <2>. HIDE DEF pg
  <2>. QED BY <1>0, <1>1, <2>1, <2>2
<1>5. CASE Chart!OpenCustom
  <2> DEFINE pg == [page EXCEPT !.showCustom = TRUE, !.range = "CUSTOM"]
  <2>1. Chart!Render(pg, calls)
    BY <1>5 DEF Chart!OpenCustom
  <2>2. pg \in ChartPage /\ ChartSame(pg)
    BY <1>0, <1>2 DEF ChartPage, ChartSame
  <2>. HIDE DEF pg
  <2>. QED BY <1>0, <1>1, <2>1, <2>2
<1>6. ASSUME NEW from \in Day \cup {0}, NEW to \in Day \cup {0}, Chart!EnterDates(from, to)
      PROVE  ChartInv'
  <2> DEFINE pg == [page EXCEPT !.from = from, !.to = to]
  <2>1. Chart!Render(pg, calls)
    BY <1>6 DEF Chart!EnterDates
  <2>2. pg \in ChartPage /\ ChartSame(pg)
    BY <1>0, <1>2 DEF ChartPage, ChartSame
  <2>. HIDE DEF pg
  <2>. QED BY <1>0, <1>1, <2>1, <2>2
<1>7. CASE Chart!CancelCustom
  <2> DEFINE pg == [page EXCEPT !.showCustom = FALSE,
                        !.range = IF page.range = "CUSTOM" THEN "3M" ELSE page.range]
  <2>1. Chart!Render(pg, calls)
    BY <1>7 DEF Chart!CancelCustom
  <2>2. pg \in ChartPage /\ ChartSame(pg)
    BY <1>0, <1>2 DEF ChartPage, ChartSame
  <2>. HIDE DEF pg
  <2>. QED BY <1>0, <1>1, <2>1, <2>2
<1>8. CASE Chart!ApplyCustom
  <2> DEFINE applied == [page EXCEPT !.showCustom = FALSE, !.range = "CUSTOM"]
  <2>1. CASE page.range # "CUSTOM"
    <3>1. Chart!Render(applied, calls)
      BY <1>8, <2>1 DEF Chart!ApplyCustom
    <3>2. applied \in ChartPage /\ ChartSame(applied)
      BY <1>0, <1>2 DEF ChartPage, ChartSame
    <3>. HIDE DEF applied
    <3>. QED BY <1>0, <1>1, <3>1, <3>2
  <2>2. CASE page.range = "CUSTOM"
    <3>1. page' = Chart!LoadPage(applied) /\ calls' = Chart!LoadCalls(applied, calls)
      BY <1>8, <2>2 DEF Chart!ApplyCustom
    <3>2. /\ applied \in ChartPage /\ applied.paused = page.paused
          /\ applied.saving = page.saving /\ applied.loading = page.loading
          /\ applied.range = page.range /\ applied.from = page.from /\ applied.to = page.to
          /\ Chart!ValidDates(applied)
      BY <1>0, <1>8, <2>2 DEF ChartPage, Chart!ApplyCustom, Chart!ValidDates, ChartRange
    <3>. HIDE DEF applied
    <3>3. Chart!ValidChoice(applied)
      BY <3>2 DEF Chart!ValidChoice
    <3>4. CASE page.paused
      <4>1. page' = applied /\ calls' = calls
        BY <3>1, <3>2, <3>4 DEF Chart!LoadPage, Chart!LoadCalls, Chart!Loads
      <4>2. /\ SavePaused(page', Elems(calls')) /\ ChartLoads(page', Elems(calls'))
            /\ ChartFollows(page', server, Latest(calls', "series"), Elems(calls'))
        BY <3>2, <3>4, <4>1 DEF ChartInv, SavePaused, ChartLoads, ChartFollows
      <4>. QED BY <1>0, <3>2, <4>1, <4>2 DEF ChartInv
    <3>5. CASE ~page.paused
      <4> DEFINE c == [kind |-> "series", about |-> Chart!Choice(applied), status |-> "sent",
                       answer |-> None]
      <4>1. /\ c \in ChartCall /\ c.kind = "series" /\ c.about = Chart!Choice(applied)
            /\ c.status = "sent"
        BY <3>2, ChartChosen DEF ChartCall, Status
      <4>2. page' = [applied EXCEPT !.loading = TRUE, !.error = FALSE] /\ calls' = Append(calls, c)
        BY <3>1, <3>2, <3>3, <3>5
        DEF Chart!LoadPage, Chart!LoadCalls, Chart!Loads, Chart!Send, Chart!Call
      <4>. HIDE DEF c
      <4>3. /\ page' \in ChartPage /\ page'.paused = page.paused /\ page'.saving = page.saving
            /\ Chart!Choice(page') = Chart!Choice(applied)
        BY <3>2, <4>2 DEF ChartPage, Chart!Choice
      <4>4. /\ calls' \in Seq(ChartCall) /\ OneOf(calls', {"save"})
            /\ Elems(calls') = Elems(calls) \cup {c} /\ Latest(calls', "series") \subseteq {c}
        BY <4>1, <4>2, ChartAsks DEF ChartInv
      <4>5. /\ SavePaused(page', Elems(calls')) /\ ChartLoads(page', Elems(calls'))
            /\ ChartFollows(page', server, Latest(calls', "series"), Elems(calls'))
        BY <1>0, <4>1, <4>3, <4>4 DEF SavePaused, ChartLoads, ChartFollows
      <4>. QED BY <1>0, <4>3, <4>4, <4>5 DEF ChartInv
    <3>. QED BY <3>4, <3>5
  <2>. QED BY <2>1, <2>2
<1>9. CASE Chart!OpenEditor
  <2> DEFINE pg == [page EXCEPT !.paused = TRUE]
  <2>1. Chart!Render(pg, calls) /\ ~page.paused
    BY <1>9 DEF Chart!OpenEditor
  <2>2. /\ pg \in ChartPage /\ pg.loading = page.loading /\ pg.error = page.error
        /\ pg.data = page.data
    BY <1>0 DEF ChartPage
  <2>3. SavePaused(pg, Elems(calls))
    BY <1>0, <2>1 DEF SavePaused
  <2>. HIDE DEF pg
  <2>. QED BY <1>0, <2>1, <2>2, <2>3, ChartEdited
<1>10. CASE Chart!CloseEditor
  <2> DEFINE pg == [page EXCEPT !.paused = FALSE, !.saving = FALSE]
  <2>1. Chart!Render(pg, Chart!Orphaned(calls)) /\ ~page.saving
    BY <1>10 DEF Chart!CloseEditor
  <2>2. \A c \in Elems(calls) : c.kind # "save"
    BY <1>0, <2>1 DEF SavePaused
  <2>3. Chart!Render(pg, calls)
    BY <2>1, <2>2, NothingOrphaned DEF ChartInv
  <2>4. /\ pg \in ChartPage /\ pg.loading = page.loading /\ pg.error = page.error
        /\ pg.data = page.data
    BY <1>0 DEF ChartPage
  <2>5. SavePaused(pg, Elems(calls))
    BY <2>2 DEF SavePaused
  <2>. HIDE DEF pg
  <2>. QED BY <1>0, <2>3, <2>4, <2>5, ChartEdited
<1>11. CASE Chart!SaveEdit
  <2> DEFINE c == [kind |-> "save", about |-> "open", status |-> "sent", answer |-> None]
  <2>1. /\ page' = [page EXCEPT !.saving = TRUE] /\ calls' = Append(calls, c)
        /\ page.paused /\ ~page.saving
    BY <1>11 DEF Chart!SaveEdit, Chart!Send, Chart!Call
  <2>2. c \in ChartCall /\ c.kind = "save"
    BY DEF ChartCall, Status
  <2>. HIDE DEF c
  <2>3. \A b \in Elems(calls) : b.kind # "save"
    BY <1>0, <2>1 DEF SavePaused
  <2>4. /\ calls' \in Seq(ChartCall) /\ Elems(calls') = Elems(calls) \cup {c}
        /\ OneOf(calls', {"save"})
    BY <2>1, <2>2, <2>3, ElemsAppended, OneOfAppended DEF ChartInv
  <2>5. page' \in ChartPage /\ page'.paused /\ page'.saving /\ page'.loading = page.loading
    BY <1>0, <2>1 DEF ChartPage
  <2>6. /\ SavePaused(page', Elems(calls')) /\ ChartLoads(page', Elems(calls'))
        /\ ChartFollows(page', server, Latest(calls', "series"), Elems(calls'))
    BY <2>4, <2>5 DEF ChartInv, SavePaused, ChartLoads, ChartFollows
  <2>. QED BY <1>0, <2>4, <2>5, <2>6 DEF ChartInv
<1>. QED BY <1>0, <1>4, <1>5, <1>6, <1>7, <1>8, <1>9, <1>10, <1>11 DEF Chart!User

ChartAlways == view = "chart" /\ habits \cap {"close", "reorder"} = {} => ChartInv

\* When every answer is in, the chart of a template shows the range that is selected and
\* the template as it was last saved, or says that it failed: whatever dates were typed,
\* forms opened and saves made meanwhile, and whichever calls failed.
THEOREM TemplateChartAtRest == Spec => []TemplateChartShowsChoice
<1>1. Init => ChartAlways
  BY InitChart DEF Init, ChartAlways
<1>2. ASSUME ChartAlways, Next
      PROVE  ChartAlways'
  <2>1. CASE view = "chart"
    <3>1. Chart!Next
      BY <1>2, <2>1 DEF Next
    <3>2. UNCHANGED habits
      BY <3>1 DEF Chart!Next, Chart!Network, Chart!User, Chart!Serve, Chart!Lose,
         Chart!AvailableArrives, Chart!SeriesArrives, Chart!SaveArrives, Chart!Arrives,
         Chart!SelectFixed, Chart!OpenCustom, Chart!EnterDates, Chart!ApplyCustom,
         Chart!CancelCustom, Chart!OpenEditor, Chart!CloseEditor, Chart!SaveEdit,
         Chart!UserChooses
    <3>3. ASSUME habits \cap {"close", "reorder"} = {}, ChartInv
          PROVE  ChartInv'
      BY <3>1, <3>3, ChartServed, ChartArrived, ChartUser DEF Chart!Next, Chart!Network
    <3>. QED BY <1>2, <2>1, <3>2, <3>3 DEF Next, ChartAlways
  <2>2. CASE view # "chart"
    BY <1>2, <2>2 DEF Next, ChartAlways
  <2>. QED BY <2>1, <2>2
<1>3. ASSUME ChartAlways, UNCHANGED vars
      PROVE  ChartAlways'
  BY <1>3 DEF vars, ChartAlways, ChartInv, SavePaused, ChartLoads, ChartFollows, OneOf,
     Latest, IsLatest, Elems, Chart!Choice, Chart!ValidChoice, Chart!ValidDates
<1>4. ChartAlways => TemplateChartShowsChoice
  <2>1. ASSUME ChartInv, calls = <<>>, ~page.paused, Chart!ValidChoice(page)
        PROVE  /\ ~page.loading
               /\ page.error \/ page.data = [choice |-> Chart!Choice(page), version |-> server]
    <3>1. Elems(calls) = {}
      BY <2>1, ElemsNone
    <3>. QED BY <2>1, <3>1 DEF ChartInv, ChartLoads, ChartFollows
  <2>. QED BY <2>1 DEF ChartAlways, TemplateChartShowsChoice, Chart!ChartShowsChoice
<1>. QED BY <1>1, <1>2, <1>3, <1>4, PTL DEF Spec

--------------------------------------------------------------------------------
(* The page of strategies.  While the page loads, the database stays as it is;  *)
(* then one call is under way at most.  Whatever a table does not show yet, the *)
(* answer of that call brings, or asks for.                                     *)

TemplateTable == UNION {[S -> Content \cup {None}] : S \in SUBSET Template}

StrategyRow == [id : Template, content : Content \cup {None}]

StrategyForm == [id : Template \cup {None}, content : Content \cup {None}, form : BOOLEAN]

StrategyCall ==
    [kind : {"templates"}, about : {None}, status : Status, answer : TemplateTable \cup {None}]
    \cup [kind : {"instruments"}, about : {None}, status : Status,
          answer : (SUBSET Instrument) \cup {None}]
    \cup [kind : {"create", "edit"}, about : [id : Template \cup {None}, content : Content \ {None},
                                              form : BOOLEAN],
          status : Status, answer : StrategyRow \cup {None}]
    \cup [kind : {"delete"}, about : StrategyForm, status : Status, answer : StrategyRow \cup {None}]
    \cup [kind : {"import", "export"}, about : Strategies!Table, status : Status, answer : {None}]

StrategyModal ==
    [type : {"create", "edit", "delete"}, id : Template \cup {None}, working : BOOLEAN]

StrategyPage ==
    [templates : TemplateTable, instruments : SUBSET Instrument,
     loading : SUBSET Strategies!Table, error : SUBSET Strategies!Table,
     modal : StrategyModal \cup {None},
     dialog : [Strategies!Table -> {"closed", "open", "working"}]]

StrategyTables ==
    [templates : [Template -> Content \cup {None, "deleted"}], instruments : SUBSET Instrument]

\* The templates as the backend lists them.
Listed(db) == [t \in Strategies!Stored(db.templates) |-> db.templates[t]]

TemplatesCome(c) ==
    \/ c.kind = "templates"
    \/ c.kind \in {"create", "edit", "delete"} /\ c.status = "served"
    \/ c.kind = "import" /\ c.about = "templates" /\ c.status = "served"

InstrumentsCome(c) ==
    \/ c.kind = "instruments"
    \/ c.kind = "import" /\ c.about = "instruments" /\ c.status = "served"

\* What the page does with an answer makes its table what the database has.
StrategyAnswered(pg, db, c) ==
    /\ c.status = "failed" => c.kind \in {"edit", "delete"}
    /\ c.status = "served" =>
          /\ c.kind = "templates" => c.answer = Listed(db)
          /\ c.kind = "instruments" => c.answer = db.instruments
          /\ c.kind \in {"create", "edit"} =>
                Strategies!WithSaved(pg.templates, c.answer) = Listed(db)
          /\ c.kind = "delete" =>
                Strategies!Restrict(pg.templates, DOMAIN pg.templates \ {c.about.id}) = Listed(db)
    /\ c.kind \in {"create", "edit"} /\ c.about.form => pg.modal \in StrategyModal

StrategyFollows(pg, db, C) ==
    /\ \A c \in C : StrategyAnswered(pg, db, c)
    /\ pg.templates = Listed(db) \/ \E c \in C : TemplatesCome(c)
    /\ pg.instruments = db.instruments \/ \E c \in C : InstrumentsCome(c)

StrategyLoads(pg, cs) ==
    /\ pg.loading = {} => Len(cs) <= 1
    /\ pg.loading # {} => \A i, j \in DOMAIN cs : /\ cs[i].kind \in pg.loading
                                                  /\ cs[i].kind = cs[j].kind => i = j

StrategyInv ==
    /\ server \in StrategyTables /\ page \in StrategyPage /\ calls \in Seq(StrategyCall)
    /\ StrategyLoads(page, calls)
    /\ StrategyFollows(page, server, Elems(calls))

LEMMA ListedTyped == ASSUME NEW db \in StrategyTables PROVE Listed(db) \in TemplateTable
<1>1. /\ Strategies!Stored(db.templates) \in SUBSET Template
      /\ \A t \in Strategies!Stored(db.templates) : db.templates[t] \in Content
  BY DEF StrategyTables, Strategies!Stored, Strategies!Deleted
<1>. QED BY <1>1 DEF Listed, TemplateTable

\* A template that is stored, in the table of the page and in the database.
LEMMA SavedIsListed ==
  ASSUME NEW db \in StrategyTables, NEW t \in Template, NEW content \in Content \ {None}
  PROVE  LET new == [db EXCEPT !.templates[t] = content]
         IN /\ new \in StrategyTables /\ new.instruments = db.instruments
            /\ Strategies!WithSaved(Listed(db), [id |-> t, content |-> content]) = Listed(new)
<1> DEFINE new == [db EXCEPT !.templates[t] = content]
<1>0. content # "deleted"
  BY FrontendAssumption
<1>1. /\ new \in StrategyTables /\ new.instruments = db.instruments
      /\ new.templates = [db.templates EXCEPT ![t] = content]
  BY DEF StrategyTables
<1>. HIDE DEF new
<1>2. db.templates \in [Template -> Content \cup {None, "deleted"}]
  BY DEF StrategyTables
<1>3. \A x \in Template : new.templates[x] = IF x = t THEN content ELSE db.templates[x]
  BY <1>1, <1>2
<1>4. Strategies!Stored(new.templates) = Strategies!Stored(db.templates) \cup {t}
  BY <1>0, <1>3 DEF Strategies!Stored, Strategies!Deleted
<1>5. \A x \in Strategies!Stored(db.templates) : x \in Template
  BY DEF Strategies!Stored
<1>6. Strategies!WithSaved(Listed(db), [id |-> t, content |-> content])
        = [x \in Strategies!Stored(db.templates) \cup {t} |->
              IF x = t THEN content ELSE db.templates[x]]
  BY DEF Strategies!WithSaved, Listed
<1>. QED BY <1>1, <1>3, <1>4, <1>5, <1>6 DEF Listed, new

LEMMA DeletedIsNotListed ==
  ASSUME NEW db \in StrategyTables, NEW t \in Template
  PROVE  LET new == [db EXCEPT !.templates[t] = "deleted"]
         IN /\ new \in StrategyTables /\ new.instruments = db.instruments
            /\ Strategies!Restrict(Listed(db), DOMAIN Listed(db) \ {t}) = Listed(new)
<1> DEFINE new == [db EXCEPT !.templates[t] = "deleted"]
<1>1. /\ new \in StrategyTables /\ new.instruments = db.instruments
      /\ new.templates = [db.templates EXCEPT ![t] = "deleted"]
  BY DEF StrategyTables
<1>. HIDE DEF new
<1>2. db.templates \in [Template -> Content \cup {None, "deleted"}]
  BY DEF StrategyTables
<1>3. \A x \in Template : new.templates[x] = IF x = t THEN "deleted" ELSE db.templates[x]
  BY <1>1, <1>2
<1>4. Strategies!Stored(new.templates) = Strategies!Stored(db.templates) \ {t}
  BY <1>3 DEF Strategies!Stored, Strategies!Deleted
<1>5. \A x \in Strategies!Stored(db.templates) : x \in Template
  BY DEF Strategies!Stored
<1>6. Strategies!Restrict(Listed(db), DOMAIN Listed(db) \ {t})
        = [x \in Strategies!Stored(db.templates) \ {t} |-> db.templates[x]]
  BY DEF Strategies!Restrict, Listed
<1>. QED BY <1>1, <1>3, <1>4, <1>5, <1>6 DEF Listed, new

LEMMA InitStrategies ==
  ASSUME Strategies!Init
  PROVE  StrategyInv
<1>1. PICK ts \in [Template -> Content \cup {None}], is \in SUBSET Instrument :
        /\ server = [templates |-> ts, instruments |-> is] /\ page = Strategies!Fresh
        /\ calls = Strategies!FirstCalls
  <2>1. PICK o \in Strategies!Openings : server = o.server /\ page = o.page /\ calls = o.calls
    BY DEF Strategies!Init
  <2>2. PICK ts \in [Template -> Content \cup {None}], is \in SUBSET Instrument :
          o = [server |-> [templates |-> ts, instruments |-> is], page |-> Strategies!Fresh,
               calls |-> Strategies!FirstCalls]
    BY <2>1 DEF Strategies!Openings
  <2>. QED BY <2>1, <2>2
<1> DEFINE a == [kind |-> "instruments", about |-> None, status |-> "sent", answer |-> None]
           b == [kind |-> "templates", about |-> None, status |-> "sent", answer |-> None]
<1>2. /\ a \in StrategyCall /\ a.kind = "instruments" /\ a.status = "sent"
      /\ b \in StrategyCall /\ b.kind = "templates" /\ b.status = "sent"
  BY DEF StrategyCall, Status
<1>3. calls = Append(Append(<<>>, a), b)
  BY <1>1 DEF Strategies!FirstCalls, Strategies!Send, Strategies!Call
<1>4. server \in StrategyTables
  BY <1>1 DEF StrategyTables
<1>5. page \in StrategyPage /\ page.loading = {"templates", "instruments"}
  <2>1. [t \in {} |-> None] \in TemplateTable
    BY DEF TemplateTable
  <2>2. [k \in Strategies!Table |-> "closed"] \in [Strategies!Table -> {"closed", "open", "working"}]
    OBVIOUS
  <2>. QED BY <1>1, <2>1, <2>2 DEF Strategies!Fresh, StrategyPage, Strategies!Table
<1>. HIDE DEF a, b
<1>6. calls \in Seq(StrategyCall) /\ Elems(calls) = {a, b}
  <2>0. <<>> \in Seq(StrategyCall)
    OBVIOUS
  <2>1. PICK s \in Seq(StrategyCall) : s = <<>> /\ Elems(s) = {}
    BY <2>0, ElemsNone
  <2>2. /\ Append(Append(s, a), b) \in Seq(StrategyCall)
        /\ Elems(Append(Append(s, a), b)) = Elems(s) \cup {a, b}
    BY <1>2, ElemsTwo
  <2>. QED BY <1>3, <2>1, <2>2
<1>7. StrategyLoads(page, calls)
  <2>1. /\ Append(<<>>, a) = <<a>> /\ <<a>> \in Seq(StrategyCall)
        /\ Len(<<a>>) = 1 /\ <<a>>[1] = a
    BY <1>2
  <2>2. PICK s \in Seq(StrategyCall) : s = Append(<<>>, a) /\ Len(s) = 1 /\ s[1] = a
    BY <2>1
  <2>3. Len(Append(s, b)) = 2 /\ Append(s, b)[1] = a /\ Append(s, b)[2] = b
    BY <2>2
  <2>4. DOMAIN calls = {1, 2} /\ calls[1] = a /\ calls[2] = b
    BY <1>3, <1>6, <2>2, <2>3
  <2>. QED BY <1>2, <1>5, <2>4 DEF StrategyLoads
<1>8. StrategyFollows(page, server, Elems(calls))
  BY <1>2, <1>6 DEF StrategyFollows, StrategyAnswered, TemplatesCome, InstrumentsCome
<1>. QED BY <1>4, <1>5, <1>6, <1>7, <1>8 DEF StrategyInv

\* A call is answered, or lost.
LEMMA StrategyReplaced ==
  ASSUME StrategyInv, NEW i \in DOMAIN calls, calls[i].status = "sent",
         NEW status, NEW answer, NEW new \in StrategyCall,
         new = [calls[i] EXCEPT !.status = status, !.answer = answer], new.status # "sent",
         calls' = [calls EXCEPT ![i].status = status, ![i].answer = answer],
         page' = page, server' \in StrategyTables,
         StrategyAnswered(page, server', new),
         new.kind \in Strategies!Table => server' = server,
         Listed(server') = Listed(server) \/ TemplatesCome(new),
         server'.instruments = server.instruments \/ InstrumentsCome(new)
  PROVE  StrategyInv'
<1> DEFINE old == calls[i]
<1>1. /\ calls \in Seq(StrategyCall) /\ old \in StrategyCall /\ old \in Elems(calls)
      /\ page \in StrategyPage /\ server \in StrategyTables
  BY DEF StrategyInv, Elems
<1>2. new.kind = old.kind /\ new.about = old.about
  BY <1>1 DEF StrategyCall
<1>3. /\ calls' \in Seq(StrategyCall) /\ new \in Elems(calls')
      /\ Elems(calls') \subseteq Elems(calls) \cup {new}
      /\ Elems(calls) \subseteq Elems(calls') \cup {old}
  BY <1>1, ElemsAnswered
<1>4. /\ Len(calls') = Len(calls) /\ DOMAIN calls' = DOMAIN calls
      /\ \A j \in DOMAIN calls : calls'[j].kind = calls[j].kind
      /\ calls'[i] = new
  BY <1>1, <1>2
<1>. HIDE DEF old
<1>5. StrategyLoads(page, calls')
  BY <1>4 DEF StrategyInv, StrategyLoads
<1>7. StrategyFollows(page, server, Elems(calls))
  BY DEF StrategyInv
<1>8. TemplatesCome(old) => TemplatesCome(new)
  BY <1>2 DEF TemplatesCome, old
<1>9. InstrumentsCome(old) => InstrumentsCome(new)
  BY <1>2 DEF InstrumentsCome, old
<1>10. StrategyFollows(page, server', Elems(calls'))
  <2>1. CASE page.loading = {}
    <3>1. \A j \in DOMAIN calls : j = i
      BY <1>1, <2>1 DEF StrategyInv, StrategyLoads
    <3>2. Elems(calls') = {new} /\ Elems(calls) = {old}
      BY <1>4, <3>1 DEF Elems, old
    <3>. QED BY <1>7, <1>8, <1>9, <3>2 DEF StrategyFollows
  <2>2. CASE page.loading # {}
    <3>1. new.kind \in Strategies!Table
      BY <1>1, <1>2, <2>2 DEF StrategyInv, StrategyLoads, StrategyPage, old
    <3>. QED BY <1>3, <1>7, <1>8, <1>9, <3>1 DEF StrategyFollows
  <2>. QED BY <2>1, <2>2
<1>. QED BY <1>1, <1>3, <1>5, <1>10 DEF StrategyInv

\* A change comes alone, when all that was shown is as it is in the database.
LEMMA ChangesComeAlone ==
  ASSUME StrategyInv, NEW i \in DOMAIN calls, calls[i].kind \notin Strategies!Table
  PROVE  /\ page.loading = {} /\ Len(calls) = 1 /\ Elems(calls) = {calls[i]}
         /\ calls[i].status = "sent" => page.templates = Listed(server)
<1>1. calls \in Seq(StrategyCall) /\ page \in StrategyPage
  BY DEF StrategyInv
<1>2. page.loading = {}
  BY <1>1 DEF StrategyInv, StrategyLoads, StrategyPage
<1>3. Len(calls) = 1 /\ DOMAIN calls = {i}
  <2>1. Len(calls) \in Nat /\ i \in 1..Len(calls) /\ DOMAIN calls = 1..Len(calls)
    BY <1>1
  <2>2. Len(calls) <= 1
    BY <1>2 DEF StrategyInv, StrategyLoads
  <2>3. Len(calls) = 1 /\ i = 1
    BY <2>1, <2>2
  <2>. QED BY <2>1, <2>3
<1>4. Elems(calls) = {calls[i]}
  BY <1>3 DEF Elems
<1>. QED BY <1>2, <1>3, <1>4 DEF StrategyInv, StrategyFollows, TemplatesCome, Strategies!Table

LEMMA StrategyServed ==
  ASSUME StrategyInv, NEW i \in DOMAIN calls, Strategies!Serve(i)
  PROVE  StrategyInv' /\ UNCHANGED habits
<1> DEFINE old == calls[i]
<1>1. /\ habits' = habits /\ page' = page /\ old.status = "sent" /\ old \in StrategyCall
      /\ server \in StrategyTables /\ page \in StrategyPage
  BY DEF StrategyInv, Strategies!Serve, Strategies!Waiting
<1>2. StrategyAnswered(page, server, old)
  BY DEF StrategyInv, StrategyFollows, Elems
<1>3. ASSUME Strategies!Reads(i)
      PROVE  StrategyInv'
  <2>1. PICK answer :
          /\ calls' = [calls EXCEPT ![i].status = "served", ![i].answer = answer]
          /\ old.kind = "templates" => answer = Listed(server)
          /\ old.kind = "instruments" => answer = server.instruments
          /\ old.kind = "export" => answer = None
    BY <1>3 DEF Strategies!Reads, Strategies!Served, Listed
  <2>2. old.kind \in {"templates", "instruments", "export"} /\ server' = server
    BY <1>3 DEF Strategies!Reads, Strategies!Table
  <2>3. Listed(server) \in TemplateTable /\ server.instruments \in SUBSET Instrument
    BY <1>1, ListedTyped DEF StrategyTables
  <2>4. PICK new : new = [old EXCEPT !.status = "served", !.answer = answer]
    OBVIOUS
  <2>. HIDE DEF old
  <2>5. /\ new \in StrategyCall /\ new.kind = old.kind /\ new.about = old.about
        /\ new.status = "served" /\ new.answer = answer
    BY <1>1, <2>1, <2>2, <2>3, <2>4 DEF StrategyCall, Status
  <2>6. StrategyAnswered(page, server, new)
    BY <1>2, <2>1, <2>2, <2>5 DEF StrategyAnswered
  <2>. QED BY <1>1, <2>1, <2>2, <2>4, <2>5, <2>6, StrategyReplaced DEF old
<1>4. ASSUME Strategies!Writes(i)
      PROVE  StrategyInv'
  <2>0. old.kind \notin Strategies!Table
    BY <1>4 DEF Strategies!Writes, Strategies!Table
  <2>1. page.templates = Listed(server)
    BY <1>1, <2>0, ChangesComeAlone
  <2>2. CASE old.kind = "create"
    <3>1. PICK t \in Strategies!Unused(server.templates) :
            /\ server' = [server EXCEPT !.templates[t] = old.about.content]
            /\ calls' = [calls EXCEPT ![i].status = "served",
                                      ![i].answer = [id |-> t, content |-> old.about.content]]
      BY <1>4, <2>2 DEF Strategies!Writes, Strategies!Served
    <3>2. t \in Template
      BY DEF Strategies!Unused
    <3>3. PICK content \in Content \ {None} : content = old.about.content
      BY <1>1, <2>2 DEF StrategyCall
    <3>4. PICK answer : answer = [id |-> t, content |-> content]
      OBVIOUS
    <3>5. PICK new : new = [old EXCEPT !.status = "served", !.answer = answer]
      OBVIOUS
    <3>6. calls' = [calls EXCEPT ![i].status = "served", ![i].answer = answer]
      BY <3>1, <3>3, <3>4
    <3>7. server' = [server EXCEPT !.templates[t] = content]
      BY <3>1, <3>3
    <3>8. answer \in StrategyRow
      BY <3>2, <3>3, <3>4 DEF StrategyRow
    <3>. HIDE DEF old
    <3>9. /\ server' \in StrategyTables /\ server'.instruments = server.instruments
          /\ Strategies!WithSaved(Listed(server), answer) = Listed(server')
      BY <1>1, <3>2, <3>4, <3>7, SavedIsListed
    <3>10. /\ new \in StrategyCall /\ new.kind = old.kind /\ new.about = old.about
           /\ new.status = "served" /\ new.answer = answer
      BY <1>1, <2>2, <3>5, <3>8 DEF StrategyCall, Status
    <3>11. StrategyAnswered(page, server', new) /\ TemplatesCome(new)
      BY <1>2, <2>1, <2>2, <3>9, <3>10 DEF StrategyAnswered, TemplatesCome
    <3>. QED BY <1>1, <2>0, <3>5, <3>6, <3>9, <3>10, <3>11, StrategyReplaced DEF old
  <2>3. CASE /\ old.kind \in {"edit", "delete"}
             /\ old.about.id \in Strategies!Stored(server.templates)
    <3>1. PICK t \in Template, content \in Content \cup {None} :
             t = old.about.id /\ content = old.about.content
      BY <1>1, <2>3 DEF StrategyCall, StrategyForm, Strategies!Stored
    <3>2. /\ server' = [server EXCEPT !.templates[t] =
                            IF old.kind = "edit" THEN content ELSE "deleted"]
          /\ calls' = [calls EXCEPT ![i].status = "served",
                                    ![i].answer = [id |-> t, content |-> content]]
      BY <1>4, <2>3, <3>1 DEF Strategies!Writes, Strategies!Served, Strategies!Deleted
    <3>3. PICK answer : answer = [id |-> t, content |-> content]
      OBVIOUS
    <3>4. PICK new : new = [old EXCEPT !.status = "served", !.answer = answer]
      OBVIOUS
    <3>5. calls' = [calls EXCEPT ![i].status = "served", ![i].answer = answer]
      BY <3>2, <3>3
    <3>6. answer \in StrategyRow
      BY <3>1, <3>3 DEF StrategyRow
    <3>. HIDE DEF old
    <3>7. /\ server' \in StrategyTables /\ server'.instruments = server.instruments
          /\ old.kind = "edit" => Strategies!WithSaved(Listed(server), answer) = Listed(server')
          /\ old.kind = "delete" =>
               Strategies!Restrict(Listed(server), DOMAIN Listed(server) \ {t}) = Listed(server')
      <4>1. CASE old.kind = "edit"
        <5>1. content \in Content \ {None}
          BY <1>1, <3>1, <4>1 DEF StrategyCall
        <5>2. server' = [server EXCEPT !.templates[t] = content]
          BY <3>2, <4>1
        <5>. QED BY <1>1, <3>3, <4>1, <5>1, <5>2, SavedIsListed
      <4>2. CASE old.kind = "delete"
        <5>1. server' = [server EXCEPT !.templates[t] = "deleted"]
          BY <3>2, <4>2
        <5>. QED BY <1>1, <4>2, <5>1, DeletedIsNotListed
      <4>. QED BY <2>3, <4>1, <4>2
    <3>8. /\ new \in StrategyCall /\ new.kind = old.kind /\ new.about = old.about
          /\ new.status = "served" /\ new.answer = answer
      BY <1>1, <2>3, <3>4, <3>6 DEF StrategyCall, Status
    <3>9. StrategyAnswered(page, server', new) /\ TemplatesCome(new)
      BY <1>2, <2>1, <2>3, <3>1, <3>7, <3>8 DEF StrategyAnswered, TemplatesCome
    <3>. QED BY <1>1, <2>0, <3>4, <3>5, <3>7, <3>8, <3>9, StrategyReplaced DEF old
  <2>4. CASE /\ old.kind \in {"edit", "delete"}
             /\ old.about.id \notin Strategies!Stored(server.templates)
    <3>1. /\ calls' = [calls EXCEPT ![i].status = "failed", ![i].answer = None]
          /\ server' = server
      BY <1>4, <2>4 DEF Strategies!Writes, Strategies!Lost
    <3>2. PICK new : new = [old EXCEPT !.status = "failed", !.answer = None]
      OBVIOUS
    <3>. HIDE DEF old
    <3>3. /\ new \in StrategyCall /\ new.kind = old.kind /\ new.about = old.about
          /\ new.status = "failed"
      BY <1>1, <2>4, <3>2 DEF StrategyCall, Status
    <3>4. StrategyAnswered(page, server, new)
      BY <1>2, <2>4, <3>3 DEF StrategyAnswered
    <3>. QED BY <1>1, <3>1, <3>2, <3>3, <3>4, StrategyReplaced DEF old
  <2>5. CASE old.kind = "import"
    <3>1. calls' = [calls EXCEPT ![i].status = "served", ![i].answer = None]
      BY <1>4, <2>5 DEF Strategies!Writes, Strategies!Served
    <3>2. old.about \in {"templates", "instruments"}
      BY <1>1, <2>5 DEF StrategyCall, Strategies!Table
    <3>3. /\ server' \in StrategyTables
          /\ old.about = "templates" => server'.instruments = server.instruments
          /\ old.about = "instruments" => server'.templates = server.templates
      <4>1. CASE old.about = "templates"
        <5>1. PICK new \in [Strategies!Unused(server.templates) -> Content \cup {None}] :
                server' = [server EXCEPT !.templates =
                    [t \in Template |-> IF t \in DOMAIN new THEN new[t] ELSE server.templates[t]]]
          BY <1>4, <2>5, <4>1 DEF Strategies!Writes
        <5>. QED BY <1>1, <4>1, <5>1 DEF StrategyTables
      <4>2. CASE old.about = "instruments"
        <5>1. PICK new \in SUBSET Instrument :
                server' = [server EXCEPT !.instruments = server.instruments \cup new]
          BY <1>4, <2>5, <4>2 DEF Strategies!Writes
        <5>. QED BY <1>1, <4>2, <5>1 DEF StrategyTables
      <4>. QED BY <3>2, <4>1, <4>2
    <3>4. PICK new : new = [old EXCEPT !.status = "served", !.answer = None]
      OBVIOUS
    <3>. HIDE DEF old
    <3>5. /\ new \in StrategyCall /\ new.kind = old.kind /\ new.about = old.about
          /\ new.status = "served"
      BY <1>1, <2>5, <3>4 DEF StrategyCall, Status
    <3>6. /\ StrategyAnswered(page, server', new)
          /\ Listed(server') = Listed(server) \/ TemplatesCome(new)
          /\ server'.instruments = server.instruments \/ InstrumentsCome(new)
      BY <2>5, <3>2, <3>3, <3>5 DEF StrategyAnswered, TemplatesCome, InstrumentsCome, Listed
    <3>. QED BY <1>1, <2>0, <3>1, <3>3, <3>4, <3>5, <3>6, StrategyReplaced DEF old
  <2>. QED BY <1>4, <2>2, <2>3, <2>4, <2>5 DEF Strategies!Writes
<1>. QED BY <1>1, <1>3, <1>4 DEF Strategies!Serve

\* A form that is closed: its call goes on, and no longer has a form.
LEMMA OrphanedCalls ==
  ASSUME NEW cs \in Seq(StrategyCall)
  PROVE  /\ Strategies!Orphaned(cs) \in Seq(StrategyCall)
         /\ Len(Strategies!Orphaned(cs)) = Len(cs)
         /\ \A i \in 1..Len(cs) :
               LET c == Strategies!Orphaned(cs)[i]
               IN /\ c.kind = cs[i].kind /\ c.status = cs[i].status /\ c.answer = cs[i].answer
                  /\ IF c.kind \in {"create", "edit"} THEN ~c.about.form ELSE c = cs[i]
<1> DEFINE orphan(c) == IF c.kind \in {"create", "edit"} THEN [c EXCEPT !.about.form = FALSE] ELSE c
           os == Strategies!Orphaned(cs)
<1>1. ASSUME NEW c \in StrategyCall
      PROVE  /\ orphan(c) \in StrategyCall
             /\ orphan(c).kind = c.kind /\ orphan(c).status = c.status
             /\ orphan(c).answer = c.answer
             /\ IF orphan(c).kind \in {"create", "edit"} THEN ~orphan(c).about.form
                                                         ELSE orphan(c) = c
  <2>1. CASE c.kind \in {"create", "edit"}
    <3>1. c \in [kind : {"create", "edit"},
                 about : [id : Template \cup {None}, content : Content \ {None}, form : BOOLEAN],
                 status : Status, answer : StrategyRow \cup {None}]
      BY <2>1 DEF StrategyCall
    <3>2. PICK d : d = [c EXCEPT !.about.form = FALSE]
      OBVIOUS
    <3>3. /\ d \in [kind : {"create", "edit"},
                    about : [id : Template \cup {None}, content : Content \ {None}, form : BOOLEAN],
                    status : Status, answer : StrategyRow \cup {None}]
          /\ d.kind = c.kind /\ d.status = c.status /\ d.answer = c.answer /\ ~d.about.form
      BY <3>1, <3>2
    <3>4. d \in StrategyCall
      BY <3>3 DEF StrategyCall
    <3>. QED BY <2>1, <3>2, <3>3, <3>4
  <2>2. CASE c.kind \notin {"create", "edit"}
    BY <2>2
  <2>. QED BY <2>1, <2>2
<1>2. os = [i \in DOMAIN cs |-> orphan(cs[i])]
  BY DEF Strategies!Orphaned
<1>. HIDE DEF orphan, os
<1>3. DOMAIN cs = 1..Len(cs) /\ Len(cs) \in Nat /\ \A i \in DOMAIN cs : orphan(cs[i]) \in StrategyCall
  BY <1>1
<1>4. os \in Seq(StrategyCall) /\ Len(os) = Len(cs)
  BY <1>2, <1>3
<1>5. ASSUME NEW i \in 1..Len(cs)
      PROVE  LET c == os[i]
             IN /\ c.kind = cs[i].kind /\ c.status = cs[i].status /\ c.answer = cs[i].answer
                /\ IF c.kind \in {"create", "edit"} THEN ~c.about.form ELSE c = cs[i]
  <2>1. cs[i] \in StrategyCall /\ os[i] = orphan(cs[i])
    BY <1>2, <1>3
  <2>. QED BY <1>1, <2>1
<1>. QED BY <1>4, <1>5 DEF os

LEMMA StrategyAtRest ==
  ASSUME NEW pg \in StrategyPage, pg.loading = {}, pg.templates = Listed(server),
         pg.instruments = server.instruments, server \in StrategyTables,
         NEW cs \in Seq(StrategyCall), Len(cs) = 0,
         server' = server, page' = pg, calls' = cs
  PROVE  StrategyInv'
<1>1. Elems(cs) = {} /\ DOMAIN cs = {}
  BY DEF Elems
<1>. QED BY <1>1 DEF StrategyInv, StrategyLoads, StrategyFollows

LEMMA StrategyAsks ==
  ASSUME NEW cs \in Seq(StrategyCall), NEW c \in StrategyCall
  PROVE  Append(cs, c) \in Seq(StrategyCall) /\ Elems(Append(cs, c)) = Elems(cs) \cup {c}
  BY ElemsAppended

\* The answer of a change or of an export.
LEMMA StrategyChanged ==
  ASSUME StrategyInv, NEW i \in DOMAIN calls,
         \/ Strategies!SaveArrives(i) \/ Strategies!DeleteArrives(i)
         \/ Strategies!ImportArrives(i) \/ Strategies!ExportArrives(i)
  PROVE  StrategyInv'
<1> DEFINE rest == Strategies!Rest(i)
           c == calls[i]
<1>1. rest = Dropped(calls, i)
  BY DEF Strategies!Rest, Strategies!RemoveAt, Dropped
<1>. HIDE DEF rest
<1>2. /\ c.kind \in {"create", "edit", "delete", "import", "export"} /\ c.status # "sent"
      /\ habits' = habits /\ server' = server
  BY DEF Strategies!SaveArrives, Strategies!DeleteArrives, Strategies!ImportArrives,
         Strategies!ExportArrives, Strategies!Arrives, Strategies!Arriving
<1>3. c.kind \notin Strategies!Table
  BY <1>2 DEF Strategies!Table
<1>4. /\ page \in StrategyPage /\ server \in StrategyTables /\ calls \in Seq(StrategyCall)
      /\ c \in StrategyCall /\ c \in Elems(calls)
  BY DEF StrategyInv, Elems
<1>5. page.loading = {} /\ Len(calls) = 1 /\ Elems(calls) = {c}
  BY <1>3, ChangesComeAlone
<1>6. rest \in Seq(StrategyCall) /\ Len(rest) = 0
  BY <1>1, <1>4, <1>5, DroppedAt
<1>7. Strategies!Orphaned(rest) \in Seq(StrategyCall) /\ Len(Strategies!Orphaned(rest)) = 0
  BY <1>6, OrphanedCalls
<1>8. StrategyAnswered(page, server, c)
  BY <1>4 DEF StrategyInv, StrategyFollows
<1>9. /\ page.templates = Listed(server) \/ TemplatesCome(c)
      /\ page.instruments = server.instruments \/ InstrumentsCome(c)
  BY <1>5 DEF StrategyInv, StrategyFollows
<1>10. c.status \in Status /\ (c.status = "served" <=> Strategies!Succeeds(c))
  BY <1>4 DEF StrategyCall, Strategies!Succeeds
<1>11. Listed(server) \in TemplateTable
  BY <1>4, ListedTyped
<1>12. CASE Strategies!SaveArrives(i) /\ Strategies!Succeeds(c)
  <2>1. /\ c.kind \in {"create", "edit"} /\ calls' = Strategies!Orphaned(rest)
        /\ page' = [page EXCEPT !.modal = None,
                                !.templates = Strategies!WithSaved(page.templates, c.answer)]
    BY <1>12 DEF Strategies!SaveArrives, Strategies!Arrives, rest
  <2>2. Strategies!WithSaved(page.templates, c.answer) = Listed(server)
    BY <1>8, <1>10, <1>12, <2>1 DEF StrategyAnswered
  <2>3. page.instruments = server.instruments
    BY <1>9, <2>1 DEF InstrumentsCome
  <2>4. PICK pg : pg = [page EXCEPT !.modal = None, !.templates = Listed(server)]
    OBVIOUS
  <2>5. /\ pg \in StrategyPage /\ pg.loading = page.loading /\ pg.templates = Listed(server)
        /\ pg.instruments = page.instruments
    BY ONLY <1>4, <1>11, <2>4 DEF StrategyPage
  <2>. QED BY <1>2, <1>4, <1>5, <1>7, <2>1, <2>2, <2>3, <2>4, <2>5, StrategyAtRest
<1>13. CASE Strategies!DeleteArrives(i) /\ Strategies!Succeeds(c)
  <2>1. /\ c.kind = "delete" /\ calls' = Strategies!Orphaned(rest)
        /\ page' = [page EXCEPT !.modal = None,
              !.templates = Strategies!Restrict(page.templates,
                                                DOMAIN page.templates \ {c.about.id})]
    BY <1>13 DEF Strategies!DeleteArrives, Strategies!Arrives, rest
  <2>2. Strategies!Restrict(page.templates, DOMAIN page.templates \ {c.about.id}) = Listed(server)
    BY <1>8, <1>10, <1>13, <2>1 DEF StrategyAnswered
  <2>3. page.instruments = server.instruments
    BY <1>9, <2>1 DEF InstrumentsCome
  <2>4. PICK pg : pg = [page EXCEPT !.modal = None, !.templates = Listed(server)]
    OBVIOUS
  <2>5. /\ pg \in StrategyPage /\ pg.loading = page.loading /\ pg.templates = Listed(server)
        /\ pg.instruments = page.instruments
    BY ONLY <1>4, <1>11, <2>4 DEF StrategyPage
  <2>. QED BY <1>2, <1>4, <1>5, <1>7, <2>1, <2>2, <2>3, <2>4, <2>5, StrategyAtRest
<1>14. CASE ~Strategies!Succeeds(c)
  <2>1. c.kind \in {"edit", "delete"}
    BY <1>2, <1>8, <1>10, <1>14 DEF StrategyAnswered, Status
  <2>2. page.templates = Listed(server) /\ page.instruments = server.instruments
    BY <1>9, <1>10, <1>14, <2>1 DEF TemplatesCome, InstrumentsCome
  <2>3. calls' = rest /\ (page' = page \/ page' = [page EXCEPT !.modal.working = FALSE])
    BY <1>14, <2>1 DEF Strategies!SaveArrives, Strategies!DeleteArrives, Strategies!ImportArrives,
       Strategies!ExportArrives, Strategies!Arrives, rest
  <2>4. page' # page => page.modal \in StrategyModal
    BY <1>4, <1>8, <1>14, <2>1 DEF StrategyAnswered, StrategyPage, Strategies!SaveArrives,
       Strategies!DeleteArrives, Strategies!ImportArrives, Strategies!ExportArrives, Strategies!Arrives
  <2>5. PICK pg : pg = page'
    OBVIOUS
  <2>6. /\ pg \in StrategyPage /\ pg.loading = page.loading /\ pg.templates = page.templates
        /\ pg.instruments = page.instruments
    <3>1. CASE page' = page
      BY <1>4, <2>5, <3>1
    <3>2. CASE page' # page
      <4>1. PICK m \in StrategyModal : m = page.modal
        BY <2>4, <3>2
      <4>2. PICK n : n = [m EXCEPT !.working = FALSE]
        OBVIOUS
      <4>3. n \in StrategyModal
        BY ONLY <4>2, m \in StrategyModal DEF StrategyModal
      <4>4. pg = [page EXCEPT !.modal = n]
        BY <2>3, <2>5, <3>2, <4>1, <4>2
      <4>. QED BY ONLY <1>4, <4>3, <4>4 DEF StrategyPage
    <3>. QED BY <3>1, <3>2
  <2>. QED BY <1>2, <1>4, <1>5, <1>6, <2>2, <2>3, <2>5, <2>6, StrategyAtRest
<1>15. CASE Strategies!Succeeds(c) /\ c.kind \in {"import", "export"}
  <2>1. PICK k \in Strategies!Table : k = c.about
    BY <1>4, <1>15 DEF StrategyCall
  <2>2. page' = [page EXCEPT !.dialog[k] = "open"]
    BY <1>15, <2>1 DEF Strategies!SaveArrives, Strategies!DeleteArrives,
       Strategies!ImportArrives, Strategies!ExportArrives, Strategies!Arrives
  <2>3. PICK pg : pg = page'
    OBVIOUS
  <2>4. /\ pg \in StrategyPage /\ pg.loading = page.loading /\ pg.templates = page.templates
        /\ pg.instruments = page.instruments
    BY ONLY <1>4, <2>1, <2>2, <2>3 DEF StrategyPage
  <2>5. CASE c.kind = "export"
    <3>1. calls' = rest
      BY <2>5 DEF Strategies!SaveArrives, Strategies!DeleteArrives, Strategies!ImportArrives,
         Strategies!ExportArrives, Strategies!Arrives, rest
    <3>2. page.templates = Listed(server) /\ page.instruments = server.instruments
      BY <1>9, <2>5 DEF TemplatesCome, InstrumentsCome
    <3>. QED BY <1>2, <1>4, <1>5, <1>6, <2>3, <2>4, <3>1, <3>2, StrategyAtRest
  <2>6. CASE c.kind = "import"
    <3> DEFINE load == [kind |-> k, about |-> None, status |-> "sent", answer |-> None]
    <3>1. calls' = Append(rest, load)
      BY <1>15, <2>1, <2>6 DEF Strategies!SaveArrives, Strategies!DeleteArrives,
         Strategies!ImportArrives, Strategies!ExportArrives, Strategies!Arrives, rest,
         Strategies!Send, Strategies!Call
    <3>2. load \in StrategyCall /\ load.kind = k /\ load.status = "sent"
      BY <2>1 DEF StrategyCall, Status, Strategies!Table
    <3>3. k \in {"templates", "instruments"}
      BY <2>1 DEF Strategies!Table
    <3>. HIDE DEF load
    <3>4. calls' \in Seq(StrategyCall) /\ Elems(calls') = {load} /\ Len(calls') = 1
      <4>1. Append(rest, load) \in Seq(StrategyCall) /\ Elems(Append(rest, load)) = Elems(rest) \cup {load}
        BY <1>6, <3>2, StrategyAsks
      <4>2. Elems(rest) = {} /\ Len(Append(rest, load)) = 1
        BY <1>6, <3>2 DEF Elems
      <4>. QED BY <3>1, <4>1, <4>2
    <3>5. /\ pg.templates = Listed(server) \/ k = "templates"
          /\ pg.instruments = server.instruments \/ k = "instruments"
      BY <1>9, <2>1, <2>4, <2>6, <3>3 DEF TemplatesCome, InstrumentsCome
    <3>6. StrategyFollows(pg, server, {load})
      BY <3>2, <3>3, <3>5 DEF StrategyFollows, StrategyAnswered, TemplatesCome, InstrumentsCome
    <3>7. StrategyLoads(pg, calls')
      BY <1>5, <2>4, <3>4 DEF StrategyLoads
    <3>. QED BY <1>2, <1>4, <2>3, <2>4, <3>4, <3>6, <3>7 DEF StrategyInv
  <2>. QED BY <1>15, <2>5, <2>6
<1>16. CASE Strategies!Succeeds(c) /\ c.kind \in {"create", "edit", "delete"}
  BY <1>12, <1>13, <1>16 DEF Strategies!SaveArrives, Strategies!DeleteArrives,
     Strategies!ImportArrives, Strategies!ExportArrives, Strategies!Arrives
<1>. QED BY <1>2, <1>14, <1>15, <1>16

LEMMA TableArrived ==
  ASSUME StrategyInv, NEW i \in DOMAIN calls, Strategies!TableArrives(i)
  PROVE  StrategyInv'
<1> DEFINE rest == Strategies!Rest(i)
           c == calls[i]
<1>1. rest = Dropped(calls, i)
  BY DEF Strategies!Rest, Strategies!RemoveAt, Dropped
<1>. HIDE DEF rest
<1>2. /\ page \in StrategyPage /\ server \in StrategyTables /\ calls \in Seq(StrategyCall)
      /\ c \in StrategyCall /\ c \in Elems(calls)
  BY DEF StrategyInv, Elems
<1>3. PICK k \in {"templates", "instruments"} : k = c.kind
  BY DEF Strategies!TableArrives, Strategies!Arrives, Strategies!Table
<1>4. c.status # "sent" /\ server' = server /\ calls' = rest
  BY DEF Strategies!TableArrives, Strategies!Arrives, Strategies!Arriving, rest
<1>5. StrategyAnswered(page, server, c)
  BY <1>2 DEF StrategyInv, StrategyFollows
<1>6. c.status = "served" /\ Strategies!Succeeds(c)
  BY <1>2, <1>3, <1>4, <1>5 DEF StrategyCall, Status, StrategyAnswered, Strategies!Succeeds
<1>7. PICK pg : pg = page'
  OBVIOUS
<1>8. Listed(server) \in TemplateTable /\ server.instruments \in SUBSET Instrument
  BY <1>2, ListedTyped DEF StrategyTables
<1>9. /\ pg \in StrategyPage /\ pg.loading = page.loading \ {k} /\ pg.modal = page.modal
      /\ pg.templates = IF k = "templates" THEN Listed(server) ELSE page.templates
      /\ pg.instruments = IF k = "instruments" THEN server.instruments ELSE page.instruments
  <2>1. CASE k = "templates"
    <3>1. pg = [[page EXCEPT !.loading = page.loading \ {k}]
                  EXCEPT !.error = page.error \ {k}, !.templates = Listed(server)]
      BY <1>3, <1>5, <1>6, <1>7, <2>1 DEF Strategies!TableArrives, StrategyAnswered
    <3>. QED BY ONLY <1>2, <1>8, <2>1, <3>1 DEF StrategyPage
  <2>2. CASE k = "instruments"
    <3>1. pg = [[page EXCEPT !.loading = page.loading \ {k}]
                  EXCEPT !.error = page.error \ {k}, !.instruments = server.instruments]
      BY <1>3, <1>5, <1>6, <1>7, <2>2 DEF Strategies!TableArrives, StrategyAnswered
    <3>. QED BY ONLY <1>2, <1>8, <2>2, <3>1 DEF StrategyPage
  <2>. QED BY <1>3, <2>1, <2>2
<1>10. /\ rest \in Seq(StrategyCall) /\ Elems(rest) \subseteq Elems(calls)
       /\ Elems(calls) \subseteq Elems(rest) \cup {c}
       /\ Len(rest) = Len(calls) - 1
       /\ \A j \in 1..(Len(calls) - 1) : rest[j] = calls[IF j < i THEN j ELSE j + 1]
  BY <1>1, <1>2, ElemsDropped, DroppedAt
<1>11. StrategyLoads(pg, rest)
  <2>1. /\ DOMAIN rest = 1..(Len(calls) - 1) /\ DOMAIN calls = 1..Len(calls)
        /\ Len(calls) \in Nat \ {0}
    BY <1>2, <1>10
  <2>2. CASE page.loading = {}
    <3>1. Len(calls) = 1
      BY <2>1, <2>2 DEF StrategyInv, StrategyLoads
    <3>. QED BY <1>9, <1>10, <2>2, <3>1 DEF StrategyLoads
  <2>3. CASE page.loading # {}
    <3> DEFINE at(j) == IF j < i THEN j ELSE j + 1
    <3>1. \A j \in DOMAIN rest : at(j) \in DOMAIN calls /\ at(j) # i /\ rest[j] = calls[at(j)]
      BY <1>10, <2>1
    <3>2. \A j, m \in DOMAIN rest : at(j) = at(m) => j = m
      BY <2>1
    <3>. HIDE DEF at
    <3>3. \A j, m \in DOMAIN calls : calls[j].kind \in page.loading /\ (calls[j].kind = calls[m].kind => j = m)
      BY <2>3 DEF StrategyInv, StrategyLoads
    <3>4. \A j, m \in DOMAIN rest : /\ rest[j].kind \in page.loading /\ rest[j].kind # k
                                    /\ rest[j].kind = rest[m].kind => j = m
      BY <1>3, <3>1, <3>2, <3>3
    <3>5. CASE pg.loading # {}
      BY <1>9, <3>4, <3>5 DEF StrategyLoads
    <3>6. CASE pg.loading = {}
      <4>1. DOMAIN rest = {}
        BY <1>9, <3>4, <3>6
      <4>2. Len(rest) = 0
        BY <1>10, <2>1, <4>1
      <4>. QED BY <3>6, <4>2 DEF StrategyLoads
    <3>. QED BY <3>5, <3>6
  <2>. QED BY <2>2, <2>3
<1>12. StrategyFollows(pg, server, Elems(rest))
  <2>1. StrategyFollows(page, server, Elems(calls))
    BY DEF StrategyInv
  <2>2. ASSUME NEW d \in Elems(rest)
        PROVE  StrategyAnswered(pg, server, d)
    <3>1. StrategyAnswered(page, server, d) /\ d \in Elems(calls)
      BY <1>10, <2>1, <2>2 DEF StrategyFollows
    <3>2. CASE d.kind \in Strategies!Table
      BY <3>1, <3>2 DEF StrategyAnswered, Strategies!Table
    <3>3. CASE d.kind \notin Strategies!Table
      <4>1. PICK j \in DOMAIN calls : d = calls[j]
        BY <3>1 DEF Elems
      <4>2. page.loading = {} /\ Elems(calls) = {d}
        BY <3>3, <4>1, ChangesComeAlone
      <4>3. c = d
        BY <1>2, <4>2
      <4>. QED BY <1>3, <3>3, <4>3 DEF Strategies!Table
    <3>. QED BY <3>2, <3>3
  <2>3. pg.templates = Listed(server) \/ \E d \in Elems(rest) : TemplatesCome(d)
    BY <1>3, <1>9, <1>10, <2>1 DEF StrategyFollows, TemplatesCome
  <2>4. pg.instruments = server.instruments \/ \E d \in Elems(rest) : InstrumentsCome(d)
    BY <1>3, <1>9, <1>10, <2>1 DEF StrategyFollows, InstrumentsCome
  <2>. QED BY <2>2, <2>3, <2>4 DEF StrategyFollows
<1>. QED BY <1>2, <1>4, <1>7, <1>9, <1>10, <1>11, <1>12 DEF StrategyInv

LEMMA StrategyUser ==
  ASSUME StrategyInv, "multitask" \notin habits, Strategies!User
  PROVE  StrategyInv'
<1>1. /\ page \in StrategyPage /\ server \in StrategyTables /\ calls \in Seq(StrategyCall)
      /\ StrategyFollows(page, server, Elems(calls)) /\ StrategyLoads(page, calls)
  BY DEF StrategyInv
<1>2. server' = server /\ page.loading = {}
  BY DEF Strategies!User, Strategies!OpenModal, Strategies!CloseModal, Strategies!Submit,
         Strategies!OpenOrCloseDialog, Strategies!Transfer, Strategies!UserChooses,
         Strategies!UserChanges, Strategies!Usable
<1>3. PICK pg : pg = page'
  OBVIOUS
<1>4. ASSUME pg \in StrategyPage, pg.loading = {}, pg.templates = page.templates,
             pg.instruments = page.instruments, calls' = calls,
             page.modal \in StrategyModal => pg.modal \in StrategyModal
      PROVE  StrategyInv'
  <2>1. StrategyFollows(pg, server, Elems(calls))
    BY <1>1, <1>4 DEF StrategyFollows, StrategyAnswered
  <2>2. StrategyLoads(pg, calls)
    BY <1>1, <1>2, <1>4 DEF StrategyLoads
  <2>. QED BY <1>1, <1>2, <1>3, <1>4, <2>1, <2>2 DEF StrategyInv
<1>5. ASSUME pg \in StrategyPage, pg.loading = {}, pg.templates = page.templates,
             pg.instruments = page.instruments, calls = <<>>,
             NEW c \in StrategyCall, c.status = "sent", calls' = Append(calls, c),
             c.kind \in {"create", "edit"} => pg.modal \in StrategyModal
      PROVE  StrategyInv'
  <2>1. Elems(calls) = {} /\ Len(calls) = 0
    BY <1>5, ElemsNone
  <2>2. calls' \in Seq(StrategyCall) /\ Elems(calls') = {c}
    <3>1. /\ Append(calls, c) \in Seq(StrategyCall)
          /\ Elems(Append(calls, c)) = Elems(calls) \cup {c}
      BY <1>1, StrategyAsks
    <3>. QED BY <1>5, <2>1, <3>1
  <2>3. Len(calls') = 1
    BY <1>1, <1>5, <2>1
  <2>4. StrategyAnswered(pg, server, c)
    BY <1>5 DEF StrategyAnswered
  <2>5. pg.templates = Listed(server) /\ pg.instruments = server.instruments
    BY <1>1, <1>5, <2>1 DEF StrategyFollows
  <2>6. StrategyLoads(pg, calls') /\ StrategyFollows(pg, server, Elems(calls'))
    BY <1>5, <2>2, <2>3, <2>4, <2>5 DEF StrategyLoads, StrategyFollows
  <2>. QED BY <1>1, <1>2, <1>3, <1>5, <2>2, <2>6 DEF StrategyInv
<1>6. ASSUME NEW type \in {"create", "edit", "delete"}, NEW t \in Template \cup {None},
             Strategies!OpenModal(type, t)
      PROVE  StrategyInv'
  <2>1. /\ pg = [page EXCEPT !.modal = [type |-> type, id |-> t, working |-> FALSE]]
        /\ calls' = calls /\ page.modal = None
    BY <1>3, <1>6 DEF Strategies!OpenModal
  <2>2. PICK m \in StrategyModal : m = [type |-> type, id |-> t, working |-> FALSE]
    BY DEF StrategyModal
  <2>3. pg = [page EXCEPT !.modal = m]
    BY <2>1, <2>2
  <2>4. /\ pg \in StrategyPage /\ pg.loading = page.loading /\ pg.templates = page.templates
        /\ pg.instruments = page.instruments /\ pg.modal = m
    BY ONLY <1>1, <2>3, m \in StrategyModal DEF StrategyPage
  <2>. QED BY <1>2, <1>4, <2>1, <2>4
<1>7. CASE Strategies!CloseModal
  <2>1. pg = [page EXCEPT !.modal = None] /\ calls' = Strategies!Orphaned(calls)
    BY <1>3, <1>7 DEF Strategies!CloseModal
  <2>2. /\ pg \in StrategyPage /\ pg.loading = page.loading /\ pg.templates = page.templates
        /\ pg.instruments = page.instruments
    BY ONLY <1>1, <2>1 DEF StrategyPage
  <2>3. PICK os : os = calls'
    OBVIOUS
  <2>4. /\ os \in Seq(StrategyCall) /\ Len(os) = Len(calls)
        /\ \A i \in 1..Len(calls) :
              /\ os[i].kind = calls[i].kind /\ os[i].status = calls[i].status
              /\ os[i].answer = calls[i].answer
              /\ IF os[i].kind \in {"create", "edit"} THEN ~os[i].about.form ELSE os[i] = calls[i]
    BY <1>1, <2>1, <2>3, OrphanedCalls
  <2>5. DOMAIN os = 1..Len(calls) /\ DOMAIN calls = 1..Len(calls)
    BY <1>1, <2>4
  <2>6. ASSUME NEW i \in 1..Len(calls)
        PROVE  /\ StrategyAnswered(pg, server, os[i])
               /\ TemplatesCome(calls[i]) => TemplatesCome(os[i])
               /\ InstrumentsCome(calls[i]) => InstrumentsCome(os[i])
    <3>1. StrategyAnswered(page, server, calls[i])
      BY <1>1, <2>5 DEF StrategyFollows, Elems
    <3>2. CASE os[i].kind \in {"create", "edit"}
      BY <2>2, <2>4, <3>1, <3>2 DEF StrategyAnswered, TemplatesCome, InstrumentsCome
    <3>3. CASE os[i].kind \notin {"create", "edit"}
      BY <2>2, <2>4, <3>1, <3>3 DEF StrategyAnswered
    <3>. QED BY <3>2, <3>3
  <2>7. StrategyFollows(pg, server, Elems(os))
    <3>1. \A c \in Elems(os) : \E i \in 1..Len(calls) : c = os[i]
      BY <2>5 DEF Elems
    <3>2. \A c \in Elems(calls) : \E i \in 1..Len(calls) : c = calls[i]
      BY <2>5 DEF Elems
    <3>3. \A i \in 1..Len(calls) : os[i] \in Elems(os)
      BY <2>5 DEF Elems
    <3>4. \A c \in Elems(os) : StrategyAnswered(pg, server, c)
      BY <2>6, <3>1
    <3>5. pg.templates = Listed(server) \/ \E c \in Elems(os) : TemplatesCome(c)
      BY <1>1, <2>2, <2>6, <3>2, <3>3 DEF StrategyFollows
    <3>6. pg.instruments = server.instruments \/ \E c \in Elems(os) : InstrumentsCome(c)
      BY <1>1, <2>2, <2>6, <3>2, <3>3 DEF StrategyFollows
    <3>. QED BY <3>4, <3>5, <3>6 DEF StrategyFollows
  <2>8. StrategyLoads(pg, os)
    BY <1>1, <1>2, <2>2, <2>4 DEF StrategyLoads
  <2>. QED BY <1>1, <1>2, <1>3, <2>2, <2>3, <2>4, <2>7, <2>8 DEF StrategyInv
<1>8. ASSUME NEW content \in Content \cup {None}, Strategies!Submit(content)
      PROVE  StrategyInv'
  <2>1. /\ calls = <<>> /\ page.modal # None /\ (page.modal.type = "delete" <=> content = None)
        /\ pg = [page EXCEPT !.modal.working = TRUE]
        /\ calls' = Append(calls, [kind |-> page.modal.type,
                                   about |-> [id |-> page.modal.id, content |-> content,
                                              form |-> TRUE],
                                   status |-> "sent", answer |-> None])
    BY <1>3, <1>8 DEF Strategies!Submit, Strategies!UserChanges, Strategies!Changes,
       Strategies!Send, Strategies!Call
  <2>2. PICK m \in StrategyModal : m = page.modal
    BY <1>1, <2>1 DEF StrategyPage
  <2>3. PICK n : n = [m EXCEPT !.working = TRUE]
    OBVIOUS
  <2>4. n \in StrategyModal
    BY ONLY <2>3, m \in StrategyModal DEF StrategyModal
  <2>5. pg = [page EXCEPT !.modal = n]
    BY <2>1, <2>2, <2>3
  <2>6. /\ pg \in StrategyPage /\ pg.loading = page.loading /\ pg.templates = page.templates
        /\ pg.instruments = page.instruments /\ pg.modal = n
    BY ONLY <1>1, <2>4, <2>5 DEF StrategyPage
  <2> DEFINE c == [kind |-> m.type, about |-> [id |-> m.id, content |-> content, form |-> TRUE],
                   status |-> "sent", answer |-> None]
  <2>7. m.type \in {"create", "edit", "delete"} /\ m.id \in Template \cup {None}
    BY DEF StrategyModal
  <2>8. c \in StrategyCall
    <3>1. CASE m.type = "delete"
      BY <2>7, <3>1 DEF StrategyCall, StrategyForm, Status
    <3>2. CASE m.type \in {"create", "edit"}
      BY <2>1, <2>2, <2>7, <3>2 DEF StrategyCall, Status
    <3>. QED BY <2>7, <3>1, <3>2
  <2>9. calls' = Append(calls, c) /\ c.status = "sent"
    BY <2>1, <2>2
  <2>. HIDE DEF c
  <2>. QED BY <1>2, <1>5, <2>1, <2>4, <2>6, <2>8, <2>9
<1>9. ASSUME NEW k \in Strategies!Table, Strategies!OpenOrCloseDialog(k)
      PROVE  StrategyInv'
  <2>1. calls' = calls /\ pg = [page EXCEPT !.dialog[k] = IF @ = "open" THEN "closed" ELSE "open"]
    BY <1>3, <1>9 DEF Strategies!OpenOrCloseDialog
  <2>2. /\ pg \in StrategyPage /\ pg.loading = page.loading /\ pg.templates = page.templates
        /\ pg.instruments = page.instruments /\ pg.modal = page.modal
    BY ONLY <1>1, <2>1, k \in Strategies!Table DEF StrategyPage
  <2>. QED BY <1>2, <1>4, <2>1, <2>2
<1>10. ASSUME NEW kind \in {"import", "export"}, NEW k \in Strategies!Table,
              Strategies!Transfer(kind, k)
       PROVE  StrategyInv'
  <2> DEFINE c == [kind |-> kind, about |-> k, status |-> "sent", answer |-> None]
  <2>1. calls = <<>> /\ calls' = Append(calls, c) /\ pg = [page EXCEPT !.dialog[k] = "working"]
    BY <1>3, <1>10 DEF Strategies!Transfer, Strategies!UserChanges, Strategies!Changes,
       Strategies!Send, Strategies!Call
  <2>2. /\ pg \in StrategyPage /\ pg.loading = page.loading /\ pg.templates = page.templates
        /\ pg.instruments = page.instruments /\ pg.modal = page.modal
    BY ONLY <1>1, <2>1, k \in Strategies!Table DEF StrategyPage
  <2>3. c \in StrategyCall /\ c.status = "sent" /\ c.kind = kind
    BY DEF StrategyCall, Status
  <2>. HIDE DEF c
  <2>. QED BY <1>2, <1>5, <2>1, <2>2, <2>3
<1>. QED BY <1>6, <1>7, <1>8, <1>9, <1>10 DEF Strategies!User

StrategyAlways ==
    view = "strategies" /\ habits \cap {"multitask", "fail"} = {} => StrategyInv

\* When all is answered, the page of strategies has the templates and the instruments
\* of the database, for any number of them and whatever forms were opened, closed and
\* sent meanwhile, as long as the user waits for the last change and no call fails.
THEOREM StrategyTablesFollow == Spec => []StrategiesFollow
<1>1. Init => StrategyAlways
  BY InitStrategies DEF Init, StrategyAlways
<1>2. ASSUME StrategyAlways, Next
      PROVE  StrategyAlways'
  <2>1. CASE view = "strategies"
    <3>1. Strategies!Next
      BY <1>2, <2>1 DEF Next
    <3>2. habits' = habits
      BY <3>1 DEF Strategies!Next, Strategies!User, Strategies!Network, Strategies!Serve,
         Strategies!Lose, Strategies!TableArrives, Strategies!SaveArrives,
         Strategies!DeleteArrives, Strategies!ImportArrives, Strategies!ExportArrives,
         Strategies!Arrives, Strategies!OpenModal, Strategies!CloseModal, Strategies!Submit,
         Strategies!OpenOrCloseDialog, Strategies!Transfer, Strategies!UserChooses,
         Strategies!UserChanges
    <3>3. ASSUME StrategyInv, "multitask" \notin habits, "fail" \notin habits
          PROVE  StrategyInv'
      BY <3>1, <3>3, StrategyServed, StrategyChanged, TableArrived, StrategyUser
      DEF Strategies!Next, Strategies!Network, Strategies!Lose
    <3>. QED BY <1>2, <2>1, <3>2, <3>3 DEF Next, StrategyAlways
  <2>2. CASE view # "strategies"
    BY <1>2, <2>2 DEF Next, StrategyAlways
  <2>. QED BY <2>1, <2>2
<1>3. ASSUME StrategyAlways, UNCHANGED vars
      PROVE  StrategyAlways'
  BY <1>3 DEF vars, StrategyAlways, StrategyInv
<1>4. StrategyAlways => StrategiesFollow
  <2>1. ASSUME StrategyInv, calls = <<>>
        PROVE  page.templates = Listed(server) /\ page.instruments = server.instruments
    <3>1. Elems(calls) = {}
      BY <2>1, ElemsNone
    <3>. QED BY <2>1, <3>1 DEF StrategyInv, StrategyFollows
  <2>. QED BY <2>1 DEF StrategyAlways, StrategiesFollow, Strategies!TablesFollow, Listed
<1>5. StrategyAlways /\ [Next]_vars => StrategyAlways'
  BY <1>2, <1>3
<1>. QED BY <1>1, <1>4, <1>5, PTL DEF Spec

--------------------------------------------------------------------------------
(* The start page.  At most one of its calls is about the portfolios themselves *)
(* when the user waits with changes, and while there is one no row is loading;  *)
(* when there is none, the rows have the names of the database, and each that   *)
(* is loading waits for a call.                                                 *)

ListRow    == [name : Name, valuation : {"loading", "shown", "error"}]
ListRows   == UNION {[S -> ListRow] : S \in SUBSET Portfolio}
ListNames  == UNION {[S -> Name] : S \in SUBSET Portfolio}
ListPeriod == Period \cup {"1M"}
ListSeries == [range : ListPeriod, of : SUBSET Portfolio]

ListForm == [id : Portfolio \cup {None}, name : Name, form : BOOLEAN]

ListCall ==
    [kind : {"list"}, about : {None}, status : Status, answer : ListNames \cup {None}]
    \cup [kind : {"valuation"}, about : Portfolio, status : Status, answer : {None}]
    \cup [kind : {"series"}, about : [range : ListPeriod, ids : (SUBSET Portfolio) \cup {None}],
          status : Status, answer : ListSeries \cup {None}]
    \cup [kind : {"create", "edit"}, about : ListForm, status : Status, answer : Name \cup {None}]
    \cup [kind : {"delete"}, about : [id : Portfolio \cup {None}, rows : ListRows],
          status : Status, answer : {None}]
    \cup [kind : {"import"}, about : {None}, status : Status,
          answer : (SUBSET Portfolio) \cup {None}]
    \cup [kind : {"recalculate", "export"}, about : {None}, status : Status, answer : {None}]

ListModal ==
    [type : {"create", "edit", "delete"}, id : Portfolio \cup {None}, working : BOOLEAN]

ListPage ==
    [rows : ListRows, loading : BOOLEAN, error : BOOLEAN, modal : ListModal \cup {None},
     range : ListPeriod, excluded : SUBSET Portfolio, series : ListSeries \cup {None},
     seriesLoading : BOOLEAN, seriesError : BOOLEAN, dialog : {"closed", "open", "working"},
     left : BOOLEAN]

ListTables == [Portfolio -> Name \cup {None, "deleted"}]

\* The calls that are about the portfolios: each is made when nothing is under way,
\* or follows another one.
Step == {"list", "create", "edit", "delete", "import", "export", "recalculate"}

StoredIn(db)   == {p \in Portfolio : db[p] \notin {None, "deleted"}}
NamesOf(db)    == [p \in StoredIn(db) |-> db[p]]
RowNames(rows) == [p \in DOMAIN rows |-> rows[p].name]

NamesCome(c) ==
    \/ c.kind \in {"list", "recalculate"}
    \/ c.kind \in {"create", "edit", "delete", "import"} /\ c.status = "served"

RowAnswered(pg, db, c) ==
    /\ c.kind = "delete" => c.about.rows = pg.rows
    /\ c.kind = "list" /\ c.status = "served" => c.answer = NamesOf(db)
    /\ c.kind \in {"create", "edit"} /\ c.about.form => pg.modal \in ListModal
    /\ c.kind = "edit" /\ c.status = "served" => c.answer \in Name

NamesAnswered(rows, db, c) ==
    /\ c.kind = "edit" /\ c.status = "served" =>
          NamesOf(db) = [q \in DOMAIN rows |->
                            IF q = c.about.id THEN c.answer ELSE rows[q].name]
    /\ c.kind = "delete" /\ c.status = "served" =>
          NamesOf(db) = [q \in DOMAIN rows \ {c.about.id} |-> rows[q].name]

RowsLoad(pg, C) ==
    \A p \in DOMAIN pg.rows : pg.rows[p].valuation = "loading" =>
        \E c \in C : c.kind = "valuation" /\ c.about = p

NamesFollow(pg, db, C) ==
    /\ \A c \in C : NamesAnswered(pg.rows, db, c)
    /\ \/ pg.left \/ pg.error
       \/ RowNames(pg.rows) = NamesOf(db)
       \/ \E c \in C : NamesCome(c)

RowsLinked(hb, pg, db, C) ==
    /\ (\E c \in C : c.kind \in Step) =>
          ~pg.left /\ ~pg.error /\ \A c \in C : c.kind # "valuation"
    /\ \A c \in C : RowAnswered(pg, db, c)
    /\ RowsLoad(pg, C)
    /\ "fail" \notin hb => NamesFollow(pg, db, C)

ListInv ==
    /\ server \in ListTables /\ page \in ListPage /\ calls \in Seq(ListCall)
    /\ OneOf(calls, Step)
    /\ RowsLinked(habits, page, server, Elems(calls))

LEMMA NamesTyped ==
  ASSUME NEW db \in ListTables
  PROVE  NamesOf(db) \in ListNames /\ StoredIn(db) \in SUBSET Portfolio
<1>1. /\ StoredIn(db) \in SUBSET Portfolio
      /\ \A p \in StoredIn(db) : db[p] \in Name
  BY DEF ListTables, StoredIn
<1>. QED BY <1>1 DEF NamesOf, ListNames

LEMMA InitList ==
  ASSUME List!Init
  PROVE  ListInv
<1>1. PICK db \in List!Databases :
        server = db /\ page = List!Fresh /\ calls = List!FirstCalls
  <2>1. PICK o \in List!Openings : server = o.server /\ page = o.page /\ calls = o.calls
    BY DEF List!Init
  <2>2. PICK db \in List!Databases :
          o = [server |-> db, page |-> List!Fresh, calls |-> List!FirstCalls]
    BY <2>1 DEF List!Openings
  <2>. QED BY <2>1, <2>2
<1> DEFINE c == [kind |-> "list", about |-> None, status |-> "sent", answer |-> None]
<1>2. c \in ListCall /\ c.kind = "list" /\ c.status = "sent"
  BY DEF ListCall, Status
<1>3. calls = Append(<<>>, c)
  BY <1>1 DEF List!FirstCalls, List!Send, List!Call
<1>4. server \in ListTables
  BY <1>1 DEF ListTables, List!Databases
<1>5. page \in ListPage /\ DOMAIN page.rows = {} /\ ~page.left /\ ~page.error
  <2>1. List!NoRows \in ListRows /\ DOMAIN List!NoRows = {}
    BY DEF ListRows, List!NoRows
  <2>. QED BY <1>1, <2>1 DEF List!Fresh, ListPage, ListPeriod
<1>. HIDE DEF c
<1>6. calls \in Seq(ListCall) /\ Elems(calls) = {c}
  BY <1>2, <1>3, ElemsOne
<1>7. OneOf(calls, Step)
  <2>1. <<>> \in Seq(ListCall) /\ Elems(<<>>) = {} /\ OneOf(<<>>, Step)
    BY ElemsNone DEF OneOf
  <2>. QED BY <1>2, <1>3, <2>1, OneOfAppended
<1>8. RowsLinked(habits, page, server, Elems(calls))
  BY <1>2, <1>5, <1>6
  DEF RowsLinked, RowAnswered, RowsLoad, NamesFollow, NamesAnswered, NamesCome
<1>. QED BY <1>4, <1>5, <1>6, <1>7, <1>8 DEF ListInv

\* A call is answered, or lost.
LEMMA ListReplaced ==
  ASSUME ListInv, NEW i \in DOMAIN calls, NEW status, NEW answer, NEW new \in ListCall,
         new = [calls[i] EXCEPT !.status = status, !.answer = answer],
         calls' = [calls EXCEPT ![i].status = status, ![i].answer = answer],
         page' = page, habits' = habits, server' \in ListTables,
         RowAnswered(page, server', new),
         new.kind \in Step \/ server' = server,
         "fail" \notin habits =>
            /\ NamesAnswered(page.rows, server', new)
            /\ NamesCome(new) \/ (~NamesCome(calls[i]) /\ NamesOf(server') = NamesOf(server))
  PROVE  ListInv'
<1> DEFINE old == calls[i]
<1>1. /\ calls \in Seq(ListCall) /\ old \in ListCall /\ old \in Elems(calls)
      /\ page \in ListPage /\ OneOf(calls, Step)
      /\ RowsLinked(habits, page, server, Elems(calls))
  BY DEF ListInv, Elems
<1>2. new.kind = old.kind /\ new.about = old.about
  BY <1>1 DEF ListCall
<1>3. /\ calls' \in Seq(ListCall) /\ new \in Elems(calls')
      /\ Elems(calls') \subseteq Elems(calls) \cup {new}
      /\ Elems(calls) \subseteq Elems(calls') \cup {old}
  BY <1>1, ElemsAnswered
<1>4. /\ DOMAIN calls' = DOMAIN calls /\ calls'[i] = new
      /\ \A j \in DOMAIN calls : j # i => calls'[j] = calls[j]
  BY <1>1
<1>. HIDE DEF old
<1>5. OneOf(calls', Step)
  BY <1>1, <1>2, <1>4 DEF OneOf, old
<1>6. ASSUME NEW c \in Elems(calls'), c # new
      PROVE  c \in Elems(calls) /\ (new.kind \in Step => c.kind \notin Step)
  BY <1>1, <1>2, <1>4, <1>6 DEF Elems, OneOf, old
<1>7. \A c \in Elems(calls') : RowAnswered(page, server', c)
  <2>1. \A c \in Elems(calls) : RowAnswered(page, server, c)
    BY <1>1 DEF RowsLinked
  <2>2. ASSUME NEW c \in Elems(calls'), c # new, c.kind \notin Step
        PROVE  RowAnswered(page, server', c)
    BY <2>2 DEF RowAnswered, Step
  <2>. QED BY <1>6, <2>1, <2>2
<1>8. (\E c \in Elems(calls') : c.kind \in Step) =>
         ~page.left /\ ~page.error /\ \A c \in Elems(calls') : c.kind # "valuation"
  BY <1>1, <1>2, <1>3 DEF RowsLinked
<1>9. RowsLoad(page, Elems(calls'))
  <2>1. RowsLoad(page, Elems(calls))
    BY <1>1 DEF RowsLinked
  <2>2. ASSUME NEW p, NEW c \in Elems(calls), c.kind = "valuation", c.about = p
        PROVE  \E d \in Elems(calls') : d.kind = "valuation" /\ d.about = p
    BY <1>2, <1>3, <2>2
  <2>. QED BY <2>1, <2>2 DEF RowsLoad
<1>10. ASSUME "fail" \notin habits
       PROVE  NamesFollow(page, server', Elems(calls'))
  <2>1. NamesFollow(page, server, Elems(calls))
    BY <1>1, <1>10 DEF RowsLinked
  <2>2. ASSUME NEW c \in Elems(calls'), c # new, c.kind \notin Step
        PROVE  NamesAnswered(page.rows, server', c)
    BY <2>2 DEF NamesAnswered, Step
  <2>3. \A c \in Elems(calls') : NamesAnswered(page.rows, server', c)
    BY <1>6, <1>10, <2>1, <2>2 DEF NamesFollow
  <2>4. CASE NamesCome(new)
    BY <1>3, <2>3, <2>4 DEF NamesFollow
  <2>5. CASE ~NamesCome(new)
    BY <1>3, <1>10, <2>1, <2>3, <2>5 DEF NamesFollow, old
  <2>. QED BY <2>4, <2>5
<1>11. RowsLinked(habits, page, server', Elems(calls'))
  BY <1>7, <1>8, <1>9, <1>10 DEF RowsLinked
<1>. QED BY <1>1, <1>3, <1>5, <1>11 DEF ListInv

LEMMA ListServed ==
  ASSUME ListInv, NEW i \in DOMAIN calls, List!Serve(i)
  PROVE  ListInv'
<1> DEFINE old == calls[i]
<1>1. /\ habits' = habits /\ page' = page /\ old.status = "sent" /\ old \in ListCall
      /\ server \in ListTables /\ page \in ListPage
      /\ old \in Elems(calls) /\ RowsLinked(habits, page, server, Elems(calls))
  BY DEF ListInv, List!Serve, List!Waiting, Elems
<1>2. /\ List!Stored = StoredIn(server) /\ List!Names = NamesOf(server)
      /\ \A db : StoredIn(db) \subseteq Portfolio
  BY DEF List!Stored, List!Names, List!Deleted, StoredIn, NamesOf
<1>3. RowAnswered(page, server, old) /\ ("fail" \notin habits => NamesFollow(page, server, Elems(calls)))
  BY <1>1 DEF RowsLinked
<1>4. ASSUME List!Reads(i)
      PROVE  ListInv'
  <2>1. old.kind \in {"list", "valuation", "series", "recalculate", "export"} /\ server' = server
    BY <1>4 DEF List!Reads
  <2>2. PICK status, answer :
          /\ status \in Status
          /\ calls' = [calls EXCEPT ![i].status = status, ![i].answer = answer]
          /\ old.kind = "list" => answer = NamesOf(server)
          /\ old.kind = "series" => answer \in ListSeries
          /\ old.kind \notin {"list", "series"} => answer = None
    <3>0. "served" \in Status /\ "failed" \in Status
      BY DEF Status
    <3>1. CASE old.kind = "list"
      <4>1. calls' = [calls EXCEPT ![i].status = "served", ![i].answer = NamesOf(server)]
        BY <1>2, <1>4, <3>1 DEF List!Reads, List!Served
      <4>. QED BY <3>0, <3>1, <4>1
    <3>2. CASE old.kind = "valuation"
      <4>1. \/ calls' = [calls EXCEPT ![i].status = "served", ![i].answer = None]
            \/ calls' = [calls EXCEPT ![i].status = "failed", ![i].answer = None]
        BY <1>4, <3>2 DEF List!Reads, List!Served, List!Lost
      <4>. QED BY <3>0, <3>2, <4>1
    <3>3. CASE old.kind = "series"
      <4>1. PICK a : /\ a = [range |-> old.about.range,
                             of |-> IF old.about.ids = None THEN List!Stored
                                    ELSE old.about.ids \cap List!Stored]
                    /\ calls' = [calls EXCEPT ![i].status = "served", ![i].answer = a]
        BY <1>4, <3>3 DEF List!Reads, List!Served
      <4>2. old.about.range \in ListPeriod /\ List!Stored \in SUBSET Portfolio
        BY <1>1, <1>2, <3>3 DEF ListCall
      <4>3. a \in ListSeries
        BY <4>1, <4>2 DEF ListSeries
      <4>. QED BY <3>0, <3>3, <4>1, <4>3
    <3>4. CASE old.kind \in {"recalculate", "export"}
      <4>1. calls' = [calls EXCEPT ![i].status = "served", ![i].answer = None]
        BY <1>4, <3>4 DEF List!Reads, List!Served
      <4>. QED BY <3>0, <3>4, <4>1
    <3>. QED BY <2>1, <3>1, <3>2, <3>3, <3>4
  <2>3. PICK new : new = [old EXCEPT !.status = status, !.answer = answer]
    OBVIOUS
  <2>4. NamesOf(server) \in ListNames
    BY <1>1, NamesTyped
  <2>. HIDE DEF old
  <2>5. /\ new \in ListCall /\ new.kind = old.kind /\ new.about = old.about
        /\ new.status = status /\ new.answer = answer
    BY <1>1, <2>1, <2>2, <2>3, <2>4 DEF ListCall
  <2>6. RowAnswered(page, server, new)
    BY <1>3, <2>1, <2>2, <2>5 DEF RowAnswered
  <2>7. NamesAnswered(page.rows, server, new) /\ (NamesCome(old) => NamesCome(new))
    BY <1>1, <2>1, <2>5 DEF NamesAnswered, NamesCome
  <2>. QED BY <1>1, <2>1, <2>2, <2>3, <2>5, <2>6, <2>7, ListReplaced DEF old
<1>5. ASSUME List!Writes(i)
      PROVE  ListInv'
  <2>1. old.kind \in {"delete", "edit", "create", "import"} /\ old.kind \in Step
    BY <1>5 DEF List!Writes, Step
  <2>2. ~NamesCome(old)
    BY <1>1, <2>1 DEF NamesCome
  <2>3. ASSUME NEW c \in Elems(calls), NamesCome(c)
        PROVE  FALSE
    <3>1. PICK j \in DOMAIN calls : c = calls[j]
      BY DEF Elems
    <3>2. c.kind \in Step
      BY <2>3 DEF NamesCome, Step
    <3>3. j = i
      BY <2>1, <3>1, <3>2 DEF ListInv, OneOf
    <3>. QED BY <2>2, <2>3, <3>1, <3>3
  <2>4. "fail" \notin habits => RowNames(page.rows) = NamesOf(server)
    BY <1>1, <1>3, <2>1, <2>3 DEF RowsLinked, NamesFollow
  <2>5. CASE old.kind \in {"delete", "edit"} /\ old.about.id \notin StoredIn(server)
    <3>1. /\ calls' = [calls EXCEPT ![i].status = "failed", ![i].answer = None]
          /\ server' = server
      BY <1>2, <1>5, <2>5 DEF List!Writes, List!Lost
    <3>2. PICK new : new = [old EXCEPT !.status = "failed", !.answer = None]
      OBVIOUS
    <3>. HIDE DEF old
    <3>3. /\ new \in ListCall /\ new.kind = old.kind /\ new.about = old.about
          /\ new.status = "failed"
      BY <1>1, <2>5, <3>2 DEF ListCall, Status
    <3>4. RowAnswered(page, server, new) /\ NamesAnswered(page.rows, server, new)
      BY <1>3, <2>5, <3>3 DEF RowAnswered, NamesAnswered
    <3>. QED BY <1>1, <2>2, <3>1, <3>2, <3>3, <3>4, ListReplaced DEF old
  <2>6. CASE old.kind \in {"delete", "edit"} /\ old.about.id \in StoredIn(server)
    <3>1. PICK p \in Portfolio : p = old.about.id /\ p \in StoredIn(server)
      BY <2>6 DEF StoredIn
    <3>2. PICK value \in Name \cup {"deleted"}, answer \in Name \cup {None} :
            /\ calls' = [calls EXCEPT ![i].status = "served", ![i].answer = answer]
            /\ server' = [server EXCEPT ![p] = value]
            /\ IF old.kind = "delete" THEN value = "deleted" /\ answer = None
                                      ELSE value = answer /\ answer \in Name
      <4>1. CASE old.kind = "delete"
        BY <1>2, <1>5, <3>1, <4>1 DEF List!Writes, List!Served, List!Deleted
      <4>2. CASE old.kind = "edit"
        <5>1. old.about.name \in Name
          BY <1>1, <4>2 DEF ListCall, ListForm
        <5>. QED BY <1>2, <1>5, <3>1, <4>2, <5>1 DEF List!Writes, List!Served
      <4>. QED BY <2>6, <4>1, <4>2
    <3>3. PICK new : new = [old EXCEPT !.status = "served", !.answer = answer]
      OBVIOUS
    <3>. HIDE DEF old
    <3>4. /\ new \in ListCall /\ new.kind = old.kind /\ new.about = old.about
          /\ new.status = "served" /\ new.answer = answer
      <4>1. CASE old.kind = "delete"
        BY <1>1, <3>2, <3>3, <4>1 DEF ListCall, Status
      <4>2. CASE old.kind = "edit"
        BY <1>1, <3>2, <3>3, <4>2 DEF ListCall, Status
      <4>. QED BY <2>6, <4>1, <4>2
    <3>5. server' \in ListTables /\ \A q \in Portfolio : server'[q] = IF q = p THEN value ELSE server[q]
      BY <1>1, <3>2 DEF ListTables
    <3>6. "deleted" \notin Name /\ None \notin Name
      BY FrontendAssumption
    <3>7. RowAnswered(page, server', new)
      BY <1>3, <2>6, <3>2, <3>4 DEF RowAnswered
    <3>8. ASSUME "fail" \notin habits
          PROVE  NamesAnswered(page.rows, server', new)
      <4>1. /\ DOMAIN page.rows = StoredIn(server)
            /\ \A q \in StoredIn(server) : page.rows[q].name = server[q]
        BY <2>4, <3>8 DEF RowNames, NamesOf
      <4>2. CASE old.kind = "delete"
        <5>1. StoredIn(server') = StoredIn(server) \ {p}
          BY <3>2, <3>5, <4>2 DEF StoredIn
        <5>2. NamesOf(server') = [q \in DOMAIN page.rows \ {p} |-> page.rows[q].name]
          BY <3>5, <4>1, <5>1 DEF NamesOf, StoredIn
        <5>. QED BY <3>1, <3>4, <4>2, <5>2 DEF NamesAnswered
      <4>3. CASE old.kind = "edit"
        <5>1. StoredIn(server') = StoredIn(server)
          BY <3>1, <3>2, <3>5, <3>6, <4>3 DEF StoredIn
        <5>2. NamesOf(server') = [q \in DOMAIN page.rows |->
                                    IF q = p THEN answer ELSE page.rows[q].name]
          BY <3>2, <3>5, <4>1, <4>3, <5>1 DEF NamesOf, StoredIn
        <5>. QED BY <3>1, <3>4, <4>3, <5>2 DEF NamesAnswered
      <4>. QED BY <2>6, <4>2, <4>3
    <3>9. NamesCome(new) /\ new.kind \in Step
      BY <2>6, <3>4 DEF NamesCome, Step
    <3>. QED BY <1>1, <3>2, <3>3, <3>4, <3>5, <3>7, <3>8, <3>9, ListReplaced DEF old
  <2>7. CASE old.kind \in {"create", "import"}
    <3>1. PICK answer \in {None} \cup SUBSET Portfolio :
            /\ calls' = [calls EXCEPT ![i].status = "served", ![i].answer = answer]
            /\ server' \in ListTables
            /\ old.kind = "create" => answer = None
      <4>1. CASE old.kind = "create"
        <5>1. PICK p \in List!Unused : server' = [server EXCEPT ![p] = old.about.name]
          BY <1>5, <4>1 DEF List!Writes
        <5>2. old.about.name \in Name
          BY <1>1, <4>1 DEF ListCall, ListForm
        <5>3. server' \in ListTables
          BY <1>1, <5>1, <5>2 DEF ListTables, List!Unused
        <5>. QED BY <1>5, <4>1, <5>3 DEF List!Writes, List!Served
      <4>2. CASE old.kind = "import"
        <5>1. PICK names \in [List!Unused -> Name \cup {None}] :
                /\ server' = [p \in Portfolio |-> IF p \in List!Unused THEN names[p] ELSE server[p]]
                /\ calls' = List!Served(calls, i, {p \in List!Unused : names[p] # None})
          BY <1>5, <4>2 DEF List!Writes
        <5>2. server' \in ListTables
          BY <1>1, <5>1 DEF ListTables
        <5>3. {p \in List!Unused : names[p] # None} \in SUBSET Portfolio
          BY DEF List!Unused
        <5>. QED BY <4>2, <5>1, <5>2, <5>3 DEF List!Served
      <4>. QED BY <2>7, <4>1, <4>2
    <3>2. PICK new : new = [old EXCEPT !.status = "served", !.answer = answer]
      OBVIOUS
    <3>. HIDE DEF old
    <3>3. /\ new \in ListCall /\ new.kind = old.kind /\ new.about = old.about
          /\ new.status = "served"
      <4>1. CASE old.kind = "create"
        BY <1>1, <3>1, <3>2, <4>1 DEF ListCall, Status
      <4>2. CASE old.kind = "import"
        BY <1>1, <3>1, <3>2, <4>2 DEF ListCall, Status
      <4>. QED BY <2>7, <4>1, <4>2
    <3>4. RowAnswered(page, server', new) /\ NamesAnswered(page.rows, server', new)
      BY <1>3, <2>7, <3>3 DEF RowAnswered, NamesAnswered
    <3>5. NamesCome(new) /\ new.kind \in Step
      BY <2>7, <3>3 DEF NamesCome, Step
    <3>. QED BY <1>1, <3>1, <3>2, <3>3, <3>4, <3>5, ListReplaced DEF old
  <2>. QED BY <2>1, <2>5, <2>6, <2>7
<1>. QED BY <1>1, <1>4, <1>5 DEF List!Serve

LEMMA ListLost ==
  ASSUME ListInv, NEW i \in DOMAIN calls, List!Lose(i)
  PROVE  ListInv'
<1>1. /\ calls[i] \in ListCall /\ calls[i] \in Elems(calls) /\ server \in ListTables
      /\ RowAnswered(page, server, calls[i])
  BY DEF ListInv, RowsLinked, Elems
<1>2. /\ habits' = habits /\ page' = page /\ server' = server /\ "fail" \in habits
      /\ calls' = [calls EXCEPT ![i].status = "failed", ![i].answer = None]
  BY DEF List!Lose, List!Lost
<1>3. PICK new : new = [calls[i] EXCEPT !.status = "failed", !.answer = None]
  OBVIOUS
<1>4. /\ new \in ListCall /\ new.kind = calls[i].kind /\ new.about = calls[i].about
      /\ new.status = "failed"
  BY <1>1, <1>3 DEF ListCall, Status
<1>5. RowAnswered(page, server, new)
  BY <1>1, <1>4 DEF RowAnswered
<1>. QED BY <1>1, <1>2, <1>3, <1>4, <1>5, ListReplaced

\* What a step leaves as it is for the rows: more or fewer calls for the chart do not matter.
ListSame(pn, pg) ==
    pn.rows = pg.rows /\ pn.left = pg.left /\ pn.error = pg.error /\ pn.modal = pg.modal

SameSteps(C, D) ==
    /\ \A c \in C : c \in D \/ c.kind = "series"
    /\ \A c \in D : c \in C \/ c.kind = "series"

LEMMA RowsLinkedSame ==
  ASSUME NEW pg, NEW pn, NEW C, NEW D, RowsLinked(habits, pg, server, C),
         ListSame(pn, pg), SameSteps(C, D)
  PROVE  RowsLinked(habits, pn, server, D)
<1>1. \A c : c.kind = "series" => c.kind \notin Step /\ c.kind # "valuation" /\ ~NamesCome(c)
  BY DEF Step, NamesCome
<1>2. (\E c \in D : c.kind \in Step) =>
         ~pn.left /\ ~pn.error /\ \A c \in D : c.kind # "valuation"
  BY <1>1 DEF RowsLinked, ListSame, SameSteps
<1>3. \A c \in D : RowAnswered(pn, server, c)
  <2>1. \A c \in C : RowAnswered(pg, server, c)
    BY DEF RowsLinked
  <2>. QED BY <2>1 DEF RowAnswered, ListSame, SameSteps
<1>4. RowsLoad(pn, D)
  BY <1>1 DEF RowsLinked, RowsLoad, ListSame, SameSteps
<1>5. ASSUME "fail" \notin habits
      PROVE  NamesFollow(pn, server, D)
  <2>1. NamesFollow(pg, server, C)
    BY <1>5 DEF RowsLinked
  <2>2. \A c \in D : NamesAnswered(pn.rows, server, c)
    BY <2>1 DEF NamesFollow, NamesAnswered, ListSame, SameSteps
  <2>3. \A c \in C : NamesCome(c) => c \in D
    BY <1>1 DEF SameSteps
  <2>. QED BY <2>1, <2>2, <2>3 DEF NamesFollow, ListSame
<1>. QED BY <1>2, <1>3, <1>4, <1>5 DEF RowsLinked

\* Whatever was chosen, the effect changes the chart and asks for a series.
LEMMA ListRendered ==
  ASSUME NEW pg \in ListPage, NEW cs \in Seq(ListCall), NEW chosen, List!Render(pg, cs, chosen),
         OneOf(cs, Step)
  PROVE  /\ page' \in ListPage /\ ListSame(page', pg)
         /\ calls' \in Seq(ListCall) /\ OneOf(calls', Step)
         /\ SameSteps(Elems(cs), Elems(calls'))
<1>1. CASE page' = pg /\ calls' = cs
  BY <1>1 DEF ListSame, SameSteps
<1>2. CASE List!AsksNothing(pg) /\ page' = List!Cleared(pg) /\ calls' = cs
  <2>1. page' \in ListPage /\ ListSame(page', pg)
    BY <1>2 DEF List!Cleared, ListPage, ListSame
  <2>. QED BY <1>2, <2>1 DEF SameSteps
<1>3. CASE /\ page' = [pg EXCEPT !.seriesLoading = TRUE, !.seriesError = FALSE]
           /\ calls' = List!Send(cs, "series", [range |-> pg.range,
                   ids |-> IF pg.excluded = {} THEN None ELSE List!Included(pg)])
  <2> DEFINE c == [kind |-> "series", status |-> "sent", answer |-> None,
                   about |-> [range |-> pg.range,
                              ids |-> IF pg.excluded = {} THEN None ELSE List!Included(pg)]]
  <2>1. page' \in ListPage /\ ListSame(page', pg)
    BY <1>3 DEF ListPage, ListSame
  <2>2. pg.range \in ListPeriod /\ DOMAIN pg.rows \in SUBSET Portfolio
    BY DEF ListPage, ListRows
  <2>3. List!Included(pg) \in SUBSET Portfolio
    BY <2>2 DEF List!Included
  <2>4. c \in ListCall /\ c.kind = "series"
    BY <2>2, <2>3 DEF ListCall, Status
  <2>5. calls' = Append(cs, c)
    BY <1>3 DEF List!Send, List!Call
  <2>. HIDE DEF c
  <2>6. calls' \in Seq(ListCall) /\ Elems(calls') = Elems(cs) \cup {c}
    BY <2>4, <2>5, ElemsAppended
  <2>7. OneOf(calls', Step)
    <3>1. "series" \notin Step
      BY DEF Step
    <3>. QED BY <2>4, <2>5, <3>1, OneOfAppended
  <2>. QED BY <2>1, <2>4, <2>6, <2>7 DEF SameSteps
<1>. QED BY <1>1, <1>2, <1>3 DEF List!Render, List!SeriesPage, List!SeriesCalls

LEMMA ListMoves ==
  ASSUME UNCHANGED <<habits, server>>, server \in ListTables,
         NEW pg \in ListPage, NEW cs \in Seq(ListCall), OneOf(cs, Step),
         RowsLinked(habits, pg, server, Elems(cs)),
         \/ page' = pg /\ calls' = cs
         \/ \E chosen \in BOOLEAN : List!Render(pg, cs, chosen)
  PROVE  ListInv'
<1>1. CASE page' = pg /\ calls' = cs
  BY <1>1 DEF ListInv
<1>2. CASE \E chosen \in BOOLEAN : List!Render(pg, cs, chosen)
  <2>1. PICK chosen \in BOOLEAN : List!Render(pg, cs, chosen)
    BY <1>2
  <2>2. /\ page' \in ListPage /\ ListSame(page', pg)
        /\ calls' \in Seq(ListCall) /\ OneOf(calls', Step)
        /\ SameSteps(Elems(cs), Elems(calls'))
    BY <2>1, ListRendered
  <2>3. PICK pn, C : pn = page' /\ C = Elems(calls')
    OBVIOUS
  <2>4. RowsLinked(habits, pn, server, C)
    BY <2>2, <2>3, RowsLinkedSame
  <2>. QED BY <2>2, <2>3, <2>4 DEF ListInv
<1>. QED BY <1>1, <1>2

\* A call that has arrived is no longer under way.
LEMMA ListRest ==
  ASSUME ListInv, NEW i \in DOMAIN calls
  PROVE  /\ calls[i] \in ListCall /\ calls[i] \in Elems(calls)
         /\ List!Rest(i) \in Seq(ListCall) /\ OneOf(List!Rest(i), Step)
         /\ Elems(List!Rest(i)) \subseteq Elems(calls)
         /\ Elems(calls) \subseteq Elems(List!Rest(i)) \cup {calls[i]}
         /\ calls[i].kind \in Step => \A c \in Elems(List!Rest(i)) : c.kind \notin Step
<1>1. List!Rest(i) = Dropped(calls, i)
  BY DEF List!Rest, List!RemoveAt, Dropped
<1>2. calls \in Seq(ListCall) /\ OneOf(calls, Step)
  BY DEF ListInv
<1>3. /\ Dropped(calls, i) \in Seq(ListCall) /\ Elems(Dropped(calls, i)) \subseteq Elems(calls)
      /\ Elems(calls) \subseteq Elems(Dropped(calls, i)) \cup {calls[i]}
  BY <1>2, ElemsDropped
<1>4. /\ OneOf(Dropped(calls, i), Step)
      /\ calls[i].kind \in Step => \A c \in Elems(Dropped(calls, i)) : c.kind \notin Step
  BY <1>2, OneOfDropped
<1>5. calls[i] \in ListCall /\ calls[i] \in Elems(calls)
  BY <1>2 DEF Elems
<1>. QED BY <1>1, <1>3, <1>4, <1>5

\* While a call about the portfolios is under way no row is loading.
LEMMA NoneLoading ==
  ASSUME ListInv, \/ calls = <<>>
                  \/ \E c \in Elems(calls) : c.kind \in Step
  PROVE  \A p \in DOMAIN page.rows : page.rows[p].valuation # "loading"
<1>1. \A c \in Elems(calls) : c.kind # "valuation"
  <2>1. CASE calls = <<>>
    BY <2>1, ElemsNone
  <2>2. CASE \E c \in Elems(calls) : c.kind \in Step
    BY <2>2 DEF ListInv, RowsLinked
  <2>. QED BY <2>1, <2>2
<1>. QED BY <1>1 DEF ListInv, RowsLinked, RowsLoad

\* The last call about the portfolios has arrived.
LEMMA StepEnds ==
  ASSUME ListInv, UNCHANGED <<habits, server>>, NEW i \in DOMAIN calls, calls[i].kind \in Step,
         NEW pg \in ListPage,
         \A p \in DOMAIN pg.rows : pg.rows[p].valuation # "loading",
         "fail" \notin habits => pg.left \/ pg.error \/ RowNames(pg.rows) = NamesOf(server),
         \/ page' = pg /\ calls' = List!Rest(i)
         \/ \E chosen \in BOOLEAN : List!Render(pg, List!Rest(i), chosen)
  PROVE  ListInv'
<1>1. PICK cs \in Seq(ListCall) : cs = List!Rest(i)
  BY ListRest
<1>2. OneOf(cs, Step) /\ \A c \in Elems(cs) : c.kind \notin Step
  BY <1>1, ListRest
<1>3. \A c : c.kind \notin Step => RowAnswered(pg, server, c) /\ NamesAnswered(pg.rows, server, c)
  BY DEF Step, RowAnswered, NamesAnswered
<1>4. RowsLinked(habits, pg, server, Elems(cs))
  BY <1>2, <1>3 DEF RowsLinked, RowsLoad, NamesFollow
<1>. QED BY <1>1, <1>2, <1>4, ListMoves DEF ListInv

\* A call about the portfolios is sent, when there is none.
LEMMA StepStarts ==
  ASSUME UNCHANGED <<habits, server>>, server \in ListTables,
         NEW pg \in ListPage, page' = pg, ~pg.left, ~pg.error,
         \A p \in DOMAIN pg.rows : pg.rows[p].valuation # "loading",
         NEW cs \in Seq(ListCall), \A b \in Elems(cs) : b.kind \notin Step \cup {"valuation"},
         NEW c \in ListCall, c.kind \in Step, c.status = "sent", calls' = Append(cs, c),
         c.kind = "delete" => c.about.rows = pg.rows,
         c.kind \in {"create", "edit"} => pg.modal \in ListModal,
         "fail" \notin habits => NamesCome(c) \/ RowNames(pg.rows) = NamesOf(server)
  PROVE  ListInv'
<1>1. OneOf(cs, Step)
  BY DEF OneOf, Elems
<1>2. /\ Append(cs, c) \in Seq(ListCall) /\ OneOf(Append(cs, c), Step)
      /\ Elems(Append(cs, c)) = Elems(cs) \cup {c}
  BY <1>1, ElemsAppended, OneOfAppended
<1>3. \A b : b.kind \notin Step \cup {"valuation"} =>
        b.kind # "valuation" /\ RowAnswered(pg, server, b) /\ NamesAnswered(pg.rows, server, b)
  BY DEF Step, RowAnswered, NamesAnswered
<1>4. c.kind # "valuation" /\ RowAnswered(pg, server, c) /\ NamesAnswered(pg.rows, server, c)
  BY DEF Step, RowAnswered, NamesAnswered
<1>5. RowsLinked(habits, pg, server, Elems(cs) \cup {c})
  BY <1>3, <1>4 DEF RowsLinked, RowsLoad, NamesFollow
<1>6. RowsLinked(habits, pg, server, Elems(Append(cs, c)))
  BY <1>2, <1>5
<1>. QED BY <1>2, <1>6, ListMoves

\* All calls of a set of portfolios.
LEMMA AllSent ==
  ASSUME NEW cs \in Seq(ListCall), NEW S \in SUBSET Portfolio
  PROVE  LET all == List!SendAll(cs, "valuation", S) IN
         /\ all \in Seq(ListCall)
         /\ \A c \in Elems(all) : c \in Elems(cs) \/ c.kind = "valuation"
         /\ \A p \in S : \E c \in Elems(all) : c.kind = "valuation" /\ c.about = p
         /\ \E t \in Seq(ListCall) : all = cs \o t /\ \A c \in Elems(t) : c.kind = "valuation"
<1> DEFINE call(p) == [kind |-> "valuation", about |-> p, status |-> "sent", answer |-> None]
           t == [k \in 1..List!Cardinality(S) |-> call(List!Ordered(S)[k])]
<1>1. IsFiniteSet(S)
  BY FrontendAssumption, FS_Subset
<1>2. Cardinality(S) \in Nat /\ ExistsBijection(1..Cardinality(S), S)
  BY <1>1, FS_CardinalityType
<1>3. \E f \in [1..Cardinality(S) -> S] : IsInjective(f)
  BY <1>2 DEF ExistsBijection, Bijection, Injection
<1>4. List!Cardinality(S) = Cardinality(S) /\ \A f : List!IsInjective(f) <=> IsInjective(f)
  BY DEF List!Cardinality, Cardinality, List!IsInjective, IsInjective
<1>5. PICK s \in [1..Cardinality(S) -> S] : s = List!Ordered(S) /\ IsInjective(s)
  <2>1. List!Ordered(S) = CHOOSE f \in [1..Cardinality(S) -> S] : IsInjective(f)
    BY <1>4 DEF List!Ordered
  <2>. QED BY <1>3, <2>1
<1>6. s \in Surjection(1..Cardinality(S), S)
  <2>1. s \in Injection(1..Cardinality(S), S)
    BY <1>5 DEF Injection
  <2>2. IsFiniteSet(1..Cardinality(S)) /\ Cardinality(1..Cardinality(S)) = Cardinality(S)
    BY <1>2, FS_Interval
  <2>. QED BY <1>1, <2>1, <2>2, FS_Injection
<1>7. List!SendAll(cs, "valuation", S) = cs \o t
  BY DEF List!SendAll, List!Call
<1>8. t = [k \in 1..Cardinality(S) |-> call(s[k])]
  BY <1>4, <1>5
<1>9. \A p \in Portfolio : /\ call(p) \in ListCall
                           /\ call(p).kind = "valuation" /\ call(p).about = p
  BY DEF ListCall, Status
<1>. HIDE DEF call, t
<1>10. /\ t \in Seq(ListCall) /\ DOMAIN t = 1..Cardinality(S) /\ Len(t) = Cardinality(S)
       /\ \A k \in 1..Cardinality(S) : t[k] = call(s[k])
  <2>1. \A k \in 1..Cardinality(S) : call(s[k]) \in ListCall
    BY <1>9
  <2>. QED BY <1>2, <1>8, <2>1
<1>11. /\ cs \o t \in Seq(ListCall)
       /\ Elems(cs \o t) = Elems(cs) \cup Elems(t)
  <2>1. /\ cs \o t \in Seq(ListCall) /\ Len(cs \o t) = Len(cs) + Len(t)
        /\ \A j \in 1..(Len(cs) + Len(t)) :
              (cs \o t)[j] = IF j <= Len(cs) THEN cs[j] ELSE t[j - Len(cs)]
    BY <1>10, ConcatProperties
  <2>2. /\ DOMAIN cs = 1..Len(cs) /\ DOMAIN t = 1..Len(t) /\ Len(cs) \in Nat /\ Len(t) \in Nat
        /\ DOMAIN (cs \o t) = 1..(Len(cs) + Len(t))
    BY <1>10, <2>1
  <2>3. PICK u : u = cs \o t
    OBVIOUS
  <2>4. \A j \in DOMAIN u : u[j] \in Elems(cs) \cup Elems(t)
    BY <2>1, <2>2, <2>3 DEF Elems
  <2>5. \A j \in DOMAIN cs : j \in DOMAIN u /\ u[j] = cs[j]
    BY <2>1, <2>2, <2>3
  <2>6. \A j \in DOMAIN t : j + Len(cs) \in DOMAIN u /\ u[j + Len(cs)] = t[j]
    BY <2>1, <2>2, <2>3
  <2>7. Elems(cs) \cup Elems(t) \subseteq Elems(u)
    BY <2>5, <2>6 DEF Elems
  <2>8. Elems(u) \subseteq Elems(cs) \cup Elems(t)
    BY <2>4 DEF Elems
  <2>. QED BY <2>1, <2>3, <2>7, <2>8
<1>12. \A c \in Elems(t) : c.kind = "valuation"
  BY <1>9, <1>10 DEF Elems
<1>13. ASSUME NEW p \in S
       PROVE  \E c \in Elems(t) : c.kind = "valuation" /\ c.about = p
  <2>1. PICK k \in 1..Cardinality(S) : s[k] = p
    BY <1>6 DEF Surjection
  <2>2. t[k] \in Elems(t) /\ t[k] = call(p)
    BY <1>10, <2>1 DEF Elems
  <2>. QED BY <1>9, <2>2
<1>. QED BY <1>7, <1>10, <1>11, <1>12, <1>13

\* The list arrives: its rows are loading, and each has a call.
LEMMA ListArrived ==
  ASSUME ListInv, NEW i \in DOMAIN calls, List!ListArrives(i)
  PROVE  ListInv'
<1>1. /\ UNCHANGED <<habits, server>> /\ calls[i].kind = "list" /\ calls[i].kind \in Step
      /\ server \in ListTables /\ page \in ListPage
      /\ RowAnswered(page, server, calls[i])
  BY DEF List!ListArrives, List!Arrives, ListInv, RowsLinked, Step, Elems
<1>2. CASE List!Succeeds(calls[i])
  <2>1. calls[i].answer = NamesOf(server) /\ NamesOf(server) \in ListNames
    BY <1>1, <1>2, NamesTyped DEF RowAnswered, List!Succeeds
  <2>2. PICK rows : rows = [p \in DOMAIN calls[i].answer |->
                              [name |-> calls[i].answer[p], valuation |-> "loading"]]
    OBVIOUS
  <2>3. rows \in ListRows /\ RowNames(rows) = NamesOf(server)
    BY <2>1, <2>2 DEF ListNames, ListRows, ListRow, RowNames
  <2>4. PICK listed : listed = [page EXCEPT !.rows = rows, !.loading = FALSE]
    OBVIOUS
  <2>5. listed \in ListPage /\ listed.rows = rows
    BY ONLY <1>1, <2>3, <2>4 DEF ListPage
  <2>6. PICK pg : pg = IF rows = List!NoRows THEN List!Cleared(listed) ELSE listed
    OBVIOUS
  <2>7. pg \in ListPage /\ pg.rows = rows
    BY <2>5, <2>6 DEF List!Cleared, ListPage
  <2>8. PICK rest \in Seq(ListCall) : rest = List!Rest(i)
    BY ListRest
  <2>9. DOMAIN rows \in SUBSET Portfolio
    BY <2>3 DEF ListRows
  <2>10. PICK cs \in Seq(ListCall) :
           /\ cs = List!SendAll(rest, "valuation", DOMAIN rows)
           /\ \A c \in Elems(cs) : c \in Elems(rest) \/ c.kind = "valuation"
           /\ \A p \in DOMAIN rows : \E c \in Elems(cs) : c.kind = "valuation" /\ c.about = p
    BY <2>9, AllSent
  <2>11. List!Render(pg, cs, FALSE)
    BY <1>2, <2>2, <2>4, <2>5, <2>6, <2>8, <2>10 DEF List!ListArrives, List!ValuationsDue
  <2>12. \A c \in Elems(cs) : c.kind \notin Step
    BY <1>1, <2>8, <2>10, ListRest DEF Step
  <2>13. OneOf(cs, Step)
    BY <2>12 DEF OneOf, Elems
  <2>14. \A c : c.kind \notin Step => RowAnswered(pg, server, c) /\ NamesAnswered(pg.rows, server, c)
    BY DEF Step, RowAnswered, NamesAnswered
  <2>15. RowsLinked(habits, pg, server, Elems(cs))
    BY <2>3, <2>7, <2>10, <2>12, <2>14 DEF RowsLinked, RowsLoad, NamesFollow
  <2>. QED BY <1>1, <2>7, <2>11, <2>13, <2>15, ListMoves
<1>3. CASE ~List!Succeeds(calls[i])
  <2>1. PICK pg : pg = [page EXCEPT !.error = TRUE, !.loading = FALSE]
    OBVIOUS
  <2>2. pg \in ListPage /\ pg.rows = page.rows /\ pg.error
    BY <1>1, <2>1 DEF ListPage
  <2>3. page' = pg /\ calls' = List!Rest(i)
    BY <1>3, <2>1 DEF List!ListArrives
  <2>. QED BY <1>1, <2>2, <2>3, ListRest, NoneLoading, StepEnds
<1>. QED BY <1>2, <1>3

LEMMA ValuationArrived ==
  ASSUME ListInv, NEW i \in DOMAIN calls, List!ValuationArrives(i)
  PROVE  ListInv'
<1>1. /\ UNCHANGED <<habits, server>> /\ calls[i].kind = "valuation"
      /\ server \in ListTables /\ page \in ListPage
      /\ RowsLinked(habits, page, server, Elems(calls))
  BY DEF List!ValuationArrives, List!Arrives, ListInv
<1>2. PICK cs \in Seq(ListCall) : cs = List!Rest(i)
  BY ListRest
<1>3. /\ OneOf(cs, Step) /\ Elems(cs) \subseteq Elems(calls)
      /\ Elems(calls) \subseteq Elems(cs) \cup {calls[i]} /\ calls[i] \in Elems(calls)
  BY <1>2, ListRest
<1>4. \A c \in Elems(calls) : c.kind \notin Step
  BY <1>1, <1>3 DEF RowsLinked
<1>5. PICK pg \in ListPage :
        /\ page' = pg /\ DOMAIN pg.rows = DOMAIN page.rows
        /\ pg.left = page.left /\ pg.error = page.error
        /\ \A p \in DOMAIN pg.rows :
              /\ pg.rows[p].name = page.rows[p].name
              /\ pg.rows[p].valuation = "loading" =>
                    p # calls[i].about /\ page.rows[p].valuation = "loading"
  <2>1. CASE calls[i].about \notin DOMAIN page.rows
    BY <1>1, <2>1 DEF List!ValuationArrives
  <2>2. CASE calls[i].about \in DOMAIN page.rows
    <3>1. PICK p : p = calls[i].about
      OBVIOUS
    <3>2. PICK shown \in {"shown", "error"} :
            page' = [page EXCEPT !.rows[p].valuation = shown]
      BY <2>2, <3>1 DEF List!ValuationArrives
    <3>3. PICK S \in SUBSET Portfolio : page.rows \in [S -> ListRow]
      BY <1>1 DEF ListPage, ListRows
    <3>4. PICK row : row = [page.rows[p] EXCEPT !.valuation = shown]
      OBVIOUS
    <3>5. p \in S /\ row \in ListRow /\ row.name = page.rows[p].name /\ row.valuation = shown
      BY <2>2, <3>1, <3>2, <3>3, <3>4 DEF ListRow
    <3>6. PICK rows : rows = [page.rows EXCEPT ![p] = row]
      OBVIOUS
    <3>7. rows \in ListRows /\ DOMAIN rows = S /\ \A q \in S : rows[q] = IF q = p THEN row ELSE page.rows[q]
      BY <3>3, <3>5, <3>6 DEF ListRows
    <3>8. page' = [page EXCEPT !.rows = rows]
      BY <1>1, <3>2, <3>3, <3>4, <3>5, <3>6 DEF ListPage
    <3>9. PICK pg : pg = [page EXCEPT !.rows = rows]
      OBVIOUS
    <3>10. pg \in ListPage /\ pg.rows = rows /\ pg.left = page.left /\ pg.error = page.error
      BY ONLY <1>1, <3>7, <3>9 DEF ListPage
    <3>11. \A q \in DOMAIN pg.rows :
              /\ pg.rows[q].name = page.rows[q].name
              /\ pg.rows[q].valuation = "loading" =>
                    q # calls[i].about /\ page.rows[q].valuation = "loading"
      <4>1. shown # "loading"
        OBVIOUS
      <4>. QED BY <3>1, <3>5, <3>7, <3>10, <4>1
    <3>12. page' = pg /\ DOMAIN pg.rows = DOMAIN page.rows
      BY <3>3, <3>7, <3>8, <3>9, <3>10
    <3>. QED BY <3>10, <3>11, <3>12
  <2>. QED BY <2>1, <2>2
<1>6. \A c : c.kind \notin Step => RowAnswered(pg, server, c) /\ NamesAnswered(pg.rows, server, c)
  BY DEF Step, RowAnswered, NamesAnswered
<1>7. RowsLoad(pg, Elems(cs))
  <2>1. RowsLoad(page, Elems(calls))
    BY <1>1 DEF RowsLinked
  <2>. QED BY <1>3, <1>5, <2>1 DEF RowsLoad
<1>8. ASSUME "fail" \notin habits
      PROVE  pg.left \/ pg.error \/ RowNames(pg.rows) = NamesOf(server)
  <2>1. \A c \in Elems(calls) : ~NamesCome(c)
    BY <1>4 DEF NamesCome, Step
  <2>2. page.left \/ page.error \/ RowNames(page.rows) = NamesOf(server)
    BY <1>1, <1>8, <2>1 DEF RowsLinked, NamesFollow
  <2>3. RowNames(pg.rows) = RowNames(page.rows)
    BY <1>5 DEF RowNames
  <2>. QED BY <1>5, <2>2, <2>3
<1>9. RowsLinked(habits, pg, server, Elems(cs))
  BY <1>3, <1>4, <1>6, <1>7, <1>8 DEF RowsLinked, NamesFollow
<1>10. calls' = cs
  BY <1>2 DEF List!ValuationArrives
<1>. QED BY <1>1, <1>3, <1>5, <1>9, <1>10, ListMoves

LEMMA SeriesArrived ==
  ASSUME ListInv, NEW i \in DOMAIN calls, List!SeriesArrives(i)
  PROVE  ListInv'
<1>1. /\ UNCHANGED <<habits, server>> /\ calls[i].kind = "series"
      /\ server \in ListTables /\ page \in ListPage
      /\ RowsLinked(habits, page, server, Elems(calls))
  BY DEF List!SeriesArrives, List!Arrives, ListInv
<1>2. PICK cs \in Seq(ListCall) : cs = List!Rest(i)
  BY ListRest
<1>3. OneOf(cs, Step) /\ SameSteps(Elems(calls), Elems(cs)) /\ calls[i] \in ListCall
  BY <1>1, <1>2, ListRest DEF SameSteps
<1>4. PICK pg \in ListPage : page' = pg /\ ListSame(pg, page)
  <2>1. calls[i].answer \in ListSeries \cup {None}
    BY <1>1, <1>3 DEF ListCall
  <2>2. PICK series \in ListSeries \cup {None} : series = calls[i].answer
    BY <2>1
  <2>3. PICK pg : pg = page'
    OBVIOUS
  <2>4. \/ pg = [page EXCEPT !.series = series, !.seriesLoading = FALSE]
        \/ pg = [page EXCEPT !.seriesError = TRUE, !.seriesLoading = FALSE]
    BY <2>2, <2>3 DEF List!SeriesArrives
  <2>5. pg \in ListPage /\ ListSame(pg, page)
    BY ONLY <1>1, <2>2, <2>4 DEF ListPage, ListSame
  <2>. QED BY <2>3, <2>5
<1>5. RowsLinked(habits, pg, server, Elems(cs))
  BY <1>1, <1>3, <1>4, RowsLinkedSame
<1>6. calls' = cs
  BY <1>2 DEF List!SeriesArrives
<1>. QED BY <1>1, <1>3, <1>4, <1>5, <1>6, ListMoves

\* A form that is closed, or was: its calls are told, and nothing else is.
LEMMA ListOrphaned ==
  ASSUME NEW cs \in Seq(ListCall)
  PROVE  LET os == List!Orphaned(cs) IN
         /\ os \in Seq(ListCall) /\ DOMAIN os = DOMAIN cs
         /\ \A j \in DOMAIN cs :
               /\ os[j].kind = cs[j].kind /\ os[j].status = cs[j].status
               /\ os[j].answer = cs[j].answer
               /\ IF cs[j].kind \in {"create", "edit"}
                  THEN ~os[j].about.form /\ os[j].about.id = cs[j].about.id
                  ELSE os[j] = cs[j]
         /\ (\A c \in Elems(cs) : c.kind \notin {"create", "edit"}) => os = cs
<1> DEFINE os == List!Orphaned(cs)
<1>1. os = [j \in DOMAIN cs |-> IF cs[j].kind \in {"create", "edit"}
                                THEN [cs[j] EXCEPT !.about.form = FALSE] ELSE cs[j]]
  BY DEF List!Orphaned
<1>2. ASSUME NEW c \in ListCall, NEW o,
             o = IF c.kind \in {"create", "edit"} THEN [c EXCEPT !.about.form = FALSE] ELSE c
      PROVE  /\ o \in ListCall /\ o.kind = c.kind /\ o.status = c.status /\ o.answer = c.answer
             /\ IF c.kind \in {"create", "edit"}
                THEN ~o.about.form /\ o.about.id = c.about.id
                ELSE o = c
  <2>1. CASE c.kind \in {"create", "edit"}
    <3>1. c \in [kind : {"create", "edit"}, about : ListForm, status : Status,
                 answer : Name \cup {None}]
      BY <2>1 DEF ListCall
    <3>2. PICK form : form = [c.about EXCEPT !.form = FALSE]
      OBVIOUS
    <3>3. form \in ListForm /\ ~form.form /\ form.id = c.about.id
      BY <3>1, <3>2 DEF ListForm
    <3>4. o = [c EXCEPT !.about = form]
      BY <1>2, <2>1, <3>1, <3>2
    <3>5. o \in [kind : {"create", "edit"}, about : ListForm, status : Status,
                 answer : Name \cup {None}] /\ o.about = form
          /\ o.kind = c.kind /\ o.status = c.status /\ o.answer = c.answer
      BY <3>1, <3>3, <3>4
    <3>. QED BY <2>1, <3>3, <3>5 DEF ListCall
  <2>2. CASE c.kind \notin {"create", "edit"}
    BY <1>2, <2>2
  <2>. QED BY <2>1, <2>2
<1>. HIDE DEF os
<1>3. \A j \in DOMAIN cs : cs[j] \in ListCall /\ cs[j] \in Elems(cs)
  BY DEF Elems
<1>4. \A j \in DOMAIN cs :
         /\ os[j] \in ListCall
         /\ os[j].kind = cs[j].kind /\ os[j].status = cs[j].status
         /\ os[j].answer = cs[j].answer
         /\ IF cs[j].kind \in {"create", "edit"}
            THEN ~os[j].about.form /\ os[j].about.id = cs[j].about.id
            ELSE os[j] = cs[j]
  <2>1. ASSUME NEW j \in DOMAIN cs
        PROVE  os[j] = IF cs[j].kind \in {"create", "edit"}
                       THEN [cs[j] EXCEPT !.about.form = FALSE] ELSE cs[j]
    BY <1>1
  <2>. QED BY <1>2, <1>3, <2>1
<1>5. DOMAIN os = DOMAIN cs /\ os \in Seq(ListCall)
  <2>1. DOMAIN os = DOMAIN cs
    BY <1>1
  <2>2. DOMAIN cs = 1..Len(cs) /\ Len(cs) \in Nat
    OBVIOUS
  <2>3. os = [j \in 1..Len(cs) |-> os[j]]
    BY <1>1, <2>2
  <2>. QED BY <1>4, <2>1, <2>2, <2>3
<1>6. ASSUME \A c \in Elems(cs) : c.kind \notin {"create", "edit"}
      PROVE  os = cs
  <2>1. \A j \in DOMAIN cs : os[j] = cs[j]
    BY <1>3, <1>4, <1>6
  <2>. QED BY <1>5, <2>1
<1>. QED BY <1>4, <1>5, <1>6 DEF os

LEMMA DeleteArrived ==
  ASSUME ListInv, NEW i \in DOMAIN calls, List!DeleteArrives(i)
  PROVE  ListInv'
<1>1. /\ UNCHANGED <<habits, server>> /\ calls[i].kind = "delete" /\ calls[i].kind \in Step
      /\ server \in ListTables /\ page \in ListPage
      /\ RowsLinked(habits, page, server, Elems(calls))
  BY DEF List!DeleteArrives, List!Arrives, ListInv, Step
<1>2. \A p \in DOMAIN page.rows : page.rows[p].valuation # "loading"
  BY <1>1, ListRest, NoneLoading
<1>3. /\ calls[i].about.rows = page.rows
      /\ "fail" \notin habits /\ calls[i].status = "served" =>
            NamesOf(server) = [q \in DOMAIN page.rows \ {calls[i].about.id} |-> page.rows[q].name]
  BY <1>1, ListRest DEF RowsLinked, RowAnswered, NamesFollow, NamesAnswered
<1>4. CASE List!Succeeds(calls[i])
  <2>1. PICK p : p = calls[i].about.id
    OBVIOUS
  <2>2. PICK rows : rows = [q \in DOMAIN page.rows \ {p} |-> page.rows[q]]
    OBVIOUS
  <2>3. /\ rows \in ListRows /\ \A q \in DOMAIN rows : rows[q].valuation # "loading"
        /\ "fail" \notin habits => RowNames(rows) = NamesOf(server)
    <3>1. PICK S \in SUBSET Portfolio : page.rows \in [S -> ListRow]
      BY <1>1 DEF ListPage, ListRows
    <3>2. S \ {p} \in SUBSET Portfolio /\ rows \in [S \ {p} -> ListRow]
      BY <2>2, <3>1
    <3>3. rows \in ListRows
      BY <3>2 DEF ListRows
    <3>4. RowNames(rows) = [q \in DOMAIN page.rows \ {p} |-> page.rows[q].name]
      BY <2>2 DEF RowNames
    <3>. QED BY <1>2, <1>3, <1>4, <2>1, <2>2, <3>3, <3>4 DEF List!Succeeds
  <2>4. PICK deleted : deleted = [page EXCEPT !.rows = rows, !.excluded = page.excluded \ {p},
                                              !.modal = None]
    OBVIOUS
  <2>5. deleted \in ListPage /\ deleted.rows = rows
    BY ONLY <1>1, <2>3, <2>4 DEF ListPage
  <2>6. PICK pg : pg = IF rows = List!NoRows THEN List!Cleared(deleted) ELSE deleted
    OBVIOUS
  <2>7. pg \in ListPage /\ pg.rows = rows
    BY <2>5, <2>6 DEF List!Cleared, ListPage
  <2>8. PICK cs \in Seq(ListCall) : cs = List!Rest(i)
    BY ListRest
  <2>9. List!Orphaned(cs) = cs
    BY <1>1, <2>8, ListRest, ListOrphaned DEF Step
  <2>10. List!Render(pg, cs, TRUE)
    <3>1. List!Without(calls[i].about.rows, calls[i].about.id) = rows
      BY <1>3, <2>1, <2>2 DEF List!Without
    <3>. QED BY <1>4, <2>1, <2>4, <2>5, <2>6, <2>8, <2>9, <3>1 DEF List!DeleteArrives
  <2>. QED BY <1>1, <2>3, <2>7, <2>8, <2>10, StepEnds
<1>5. CASE ~List!Succeeds(calls[i])
  <2>1. PICK pg : pg = [page EXCEPT !.error = TRUE]
    OBVIOUS
  <2>2. pg \in ListPage /\ pg.rows = page.rows /\ pg.error
    BY <1>1, <2>1 DEF ListPage
  <2>3. page' = pg /\ calls' = List!Rest(i)
    BY <1>5, <2>1 DEF List!DeleteArrives
  <2>. QED BY <1>1, <1>2, <2>2, <2>3, StepEnds
<1>. QED BY <1>4, <1>5

LEMMA PortfolioSaved ==
  ASSUME ListInv, NEW i \in DOMAIN calls, List!SaveArrives(i)
  PROVE  ListInv'
<1>1. /\ UNCHANGED <<habits, server>> /\ calls[i].kind \in {"create", "edit"}
      /\ calls[i].kind \in Step /\ server \in ListTables /\ page \in ListPage
      /\ RowsLinked(habits, page, server, Elems(calls))
  BY DEF List!SaveArrives, List!Arrives, ListInv, Step
<1>2. \A p \in DOMAIN page.rows : page.rows[p].valuation # "loading"
  BY <1>1, ListRest, NoneLoading
<1>3. PICK cs \in Seq(ListCall) : cs = List!Rest(i)
  BY ListRest
<1>4. \A c \in Elems(cs) : c.kind \notin Step
  BY <1>1, <1>3, ListRest
<1>5. List!Orphaned(cs) = cs
  BY <1>4, ListOrphaned DEF Step
<1>6. CASE List!Succeeds(calls[i]) /\ calls[i].kind = "create"
  <2>1. PICK pg : pg = [page EXCEPT !.left = TRUE, !.modal = None]
    OBVIOUS
  <2>2. pg \in ListPage /\ pg.rows = page.rows /\ pg.left
    BY ONLY <1>1, <2>1 DEF ListPage
  <2>3. page' = pg /\ calls' = cs
    BY <1>3, <1>5, <1>6, <2>1 DEF List!SaveArrives
  <2>. QED BY <1>1, <1>2, <1>3, <2>2, <2>3, StepEnds
<1>7. CASE List!Succeeds(calls[i]) /\ calls[i].kind = "edit"
  <2>1. PICK p, name : p = calls[i].about.id /\ name = calls[i].answer
    OBVIOUS
  <2>2. PICK rows : rows = List!Renamed(p, name)
    OBVIOUS
  <2>3. "fail" \notin habits => NamesOf(server) = [q \in DOMAIN page.rows |->
                                   IF q = p THEN name ELSE page.rows[q].name]
    <3>1. "fail" \notin habits => NamesAnswered(page.rows, server, calls[i])
      BY <1>1, ListRest DEF RowsLinked, NamesFollow
    <3>. QED BY <1>7, <2>1, <3>1 DEF NamesAnswered, List!Succeeds
  <2>4. rows = [q \in DOMAIN page.rows |->
                  IF q = p THEN [page.rows[q] EXCEPT !.name = name] ELSE page.rows[q]]
    BY <2>2 DEF List!Renamed
  <2>5. PICK S \in SUBSET Portfolio : page.rows \in [S -> ListRow]
    BY <1>1 DEF ListPage, ListRows
  <2>6. ASSUME NEW q \in S
        PROVE  /\ rows[q].name = IF q = p THEN name ELSE page.rows[q].name
               /\ rows[q].valuation = page.rows[q].valuation
               /\ name \in Name => rows[q] \in ListRow
    BY <2>4, <2>5 DEF ListRow
  <2>7. DOMAIN rows = S /\ DOMAIN page.rows = S
    BY <2>4, <2>5
  <2>8. RowNames(rows) = [q \in DOMAIN page.rows |-> IF q = p THEN name ELSE page.rows[q].name]
    BY <2>6, <2>7 DEF RowNames
  <2>9. name \in Name
    BY <1>1, <1>7, <2>1, ListRest DEF RowsLinked, RowAnswered, List!Succeeds
  <2>10. rows \in ListRows
    <3>1. rows = [q \in S |-> rows[q]]
      BY <2>4, <2>5
    <3>2. rows \in [S -> ListRow]
      BY <2>6, <2>9, <3>1
    <3>. QED BY <3>2 DEF ListRows
  <2>11. PICK pg : pg = [page EXCEPT !.rows = rows, !.modal = None]
    OBVIOUS
  <2>12. pg \in ListPage /\ pg.rows = rows
    BY ONLY <1>1, <2>10, <2>11 DEF ListPage
  <2>13. page' = pg /\ calls' = cs
    BY <1>3, <1>5, <1>7, <2>1, <2>2, <2>11 DEF List!SaveArrives
  <2>14. /\ \A q \in DOMAIN pg.rows : pg.rows[q].valuation # "loading"
         /\ "fail" \notin habits => RowNames(pg.rows) = NamesOf(server)
    BY <1>2, <2>3, <2>5, <2>6, <2>7, <2>8, <2>12
  <2>. QED BY <1>1, <1>3, <2>12, <2>13, <2>14, StepEnds
<1>8. CASE ~List!Succeeds(calls[i])
  <2>1. PICK pg \in ListPage : page' = pg /\ pg.rows = page.rows /\ pg.left = page.left
                                /\ pg.error = page.error
    <3>1. CASE calls[i].about.form
      <4>1. page.modal \in ListModal
        BY <1>1, <3>1, ListRest DEF RowsLinked, RowAnswered
      <4>2. PICK modal : modal = [page.modal EXCEPT !.working = FALSE]
        OBVIOUS
      <4>3. modal \in ListModal
        BY <4>1, <4>2 DEF ListModal
      <4>4. page' = [page EXCEPT !.modal = modal]
        BY <1>1, <1>8, <3>1, <4>2 DEF List!SaveArrives, ListPage
      <4>5. PICK pg : pg = [page EXCEPT !.modal = modal]
        OBVIOUS
      <4>6. pg \in ListPage /\ pg.rows = page.rows /\ pg.left = page.left
            /\ pg.error = page.error
        BY ONLY <1>1, <4>3, <4>5 DEF ListPage
      <4>. QED BY <4>4, <4>5, <4>6
    <3>2. CASE ~calls[i].about.form
      BY <1>1, <1>8, <3>2 DEF List!SaveArrives
    <3>. QED BY <3>1, <3>2
  <2>2. calls' = cs
    BY <1>3, <1>8 DEF List!SaveArrives
  <2>3. ASSUME "fail" \notin habits
        PROVE  pg.left \/ pg.error \/ RowNames(pg.rows) = NamesOf(server)
    <3>1. \A c \in Elems(calls) : c = calls[i] \/ c.kind \notin Step
      BY <1>3, <1>4, ListRest
    <3>2. ~NamesCome(calls[i]) /\ \A c : c.kind \notin Step => ~NamesCome(c)
      BY <1>1, <1>8 DEF NamesCome, Step, List!Succeeds
    <3>3. page.left \/ page.error \/ RowNames(page.rows) = NamesOf(server)
      BY <1>1, <2>3, <3>1, <3>2 DEF RowsLinked, NamesFollow
    <3>. QED BY <2>1, <3>3
  <2>. QED BY <1>1, <1>2, <1>3, <2>1, <2>2, <2>3, StepEnds
<1>. QED BY <1>1, <1>6, <1>7, <1>8

\* An import is followed by the recalculation, and that by the list.
LEMMA DialogArrived ==
  ASSUME ListInv, NEW i \in DOMAIN calls,
         List!ImportArrives(i) \/ List!RecalculateArrives(i) \/ List!ExportArrives(i)
  PROVE  ListInv'
<1>1. /\ UNCHANGED <<habits, server>> /\ calls[i].kind \in {"import", "recalculate", "export"}
      /\ calls[i].kind \in Step /\ server \in ListTables /\ page \in ListPage
      /\ RowsLinked(habits, page, server, Elems(calls))
  BY DEF List!ImportArrives, List!RecalculateArrives, List!ExportArrives, List!Arrives, ListInv, Step
<1>2. \A p \in DOMAIN page.rows : page.rows[p].valuation # "loading"
  BY <1>1, ListRest, NoneLoading
<1>3. PICK cs \in Seq(ListCall) : cs = List!Rest(i)
  BY ListRest
<1>4. /\ \A c \in Elems(cs) : c.kind \notin Step
      /\ \A c \in Elems(calls) : c = calls[i] \/ c.kind \notin Step
  BY <1>1, <1>3, ListRest
<1>5. /\ ~page.left /\ ~page.error
      /\ \A c \in Elems(cs) : c.kind \notin Step \cup {"valuation"}
  BY <1>1, <1>3, <1>4, ListRest DEF RowsLinked
<1>6. PICK pg \in ListPage :
        /\ page' = pg /\ pg.rows = page.rows /\ pg.left = page.left
        /\ pg.error = page.error /\ pg.modal = page.modal
  <2>1. PICK pg : pg = page'
    OBVIOUS
  <2>2. pg = page \/ pg = [page EXCEPT !.dialog = "open"]
    BY <2>1 DEF List!ImportArrives, List!RecalculateArrives, List!ExportArrives
  <2>3. pg \in ListPage /\ pg.rows = page.rows /\ pg.left = page.left
        /\ pg.error = page.error /\ pg.modal = page.modal
    BY ONLY <1>1, <2>2 DEF ListPage
  <2>. QED BY <2>1, <2>3
<1>7. CASE \E kind \in {"list", "recalculate"} : calls' = List!Send(cs, kind, None)
  <2>1. PICK kind \in {"list", "recalculate"} : calls' = List!Send(cs, kind, None)
    BY <1>7
  <2>2. PICK c : c = [kind |-> kind, about |-> None, status |-> "sent", answer |-> None]
    OBVIOUS
  <2>3. c \in ListCall /\ c.kind \in Step /\ c.kind = kind /\ c.status = "sent"
    BY <2>2 DEF ListCall, Status, Step
  <2>4. calls' = Append(cs, c)
    BY <2>1, <2>2 DEF List!Send, List!Call
  <2>5. NamesCome(c)
    BY <2>3 DEF NamesCome
  <2>. QED BY <1>1, <1>2, <1>5, <1>6, <2>3, <2>4, <2>5, StepStarts
<1>8. CASE calls' = cs /\ ~NamesCome(calls[i])
  <2>1. ASSUME "fail" \notin habits
        PROVE  RowNames(pg.rows) = NamesOf(server)
    <3>1. \A c : c.kind \notin Step => ~NamesCome(c)
      BY DEF NamesCome, Step
    <3>. QED BY <1>1, <1>4, <1>5, <1>6, <1>8, <2>1, <3>1 DEF RowsLinked, NamesFollow
  <2>. QED BY <1>1, <1>2, <1>3, <1>6, <1>8, <2>1, StepEnds
<1>9. \/ \E kind \in {"list", "recalculate"} : calls' = List!Send(cs, kind, None)
      \/ calls' = cs /\ ~NamesCome(calls[i])
  <2>1. CASE List!ImportArrives(i)
    BY <1>3, <2>1 DEF List!ImportArrives, List!Arrives, List!Succeeds, NamesCome
  <2>2. CASE List!RecalculateArrives(i)
    BY <1>3, <2>2 DEF List!RecalculateArrives
  <2>3. CASE List!ExportArrives(i)
    BY <1>3, <2>3 DEF List!ExportArrives, List!Arrives, NamesCome
  <2>. QED BY <2>1, <2>2, <2>3
<1>. QED BY <1>7, <1>8, <1>9

\* The user.
LEMMA ListUser ==
  ASSUME ListInv, "multitask" \notin habits, List!User
  PROVE  ListInv'
<1>1. /\ server \in ListTables /\ page \in ListPage /\ calls \in Seq(ListCall)
      /\ OneOf(calls, Step) /\ RowsLinked(habits, page, server, Elems(calls))
  BY DEF ListInv
<1>2. UNCHANGED <<habits, server>> /\ List!Usable
  BY DEF List!User, List!SelectRange, List!ToggleExcluded, List!OpenModal, List!CloseModal,
     List!Save, List!ConfirmDelete, List!OpenOrCloseDialog, List!Transfer,
     List!UserChooses, List!UserChanges
\* What is chosen, and what is open, are not about the rows.
<1>3. ASSUME NEW pg \in ListPage, ListSame(pg, page),
             \/ page' = pg /\ calls' = calls
             \/ \E chosen \in BOOLEAN : List!Render(pg, calls, chosen)
      PROVE  ListInv'
  <2>1. RowsLinked(habits, pg, server, Elems(calls))
    BY <1>1, <1>3, RowsLinkedSame DEF SameSteps
  <2>. QED BY <1>1, <1>2, <1>3, <2>1, ListMoves
<1>4. ASSUME NEW r \in Period, List!SelectRange(r)
      PROVE  ListInv'
  <2>1. PICK pg : pg = [page EXCEPT !.range = r] /\ List!Render(pg, calls, FALSE)
    BY <1>4 DEF List!SelectRange
  <2>2. pg \in ListPage /\ ListSame(pg, page)
    BY ONLY <1>1, <2>1, r \in Period DEF ListPage, ListPeriod, ListSame
  <2>. QED BY <1>3, <2>1, <2>2
<1>5. ASSUME NEW p \in Portfolio, List!ToggleExcluded(p)
      PROVE  ListInv'
  <2>1. PICK excluded : excluded = IF p \in page.excluded THEN page.excluded \ {p}
                                   ELSE page.excluded \cup {p}
    OBVIOUS
  <2>2. PICK pg : pg = [page EXCEPT !.excluded = excluded] /\ List!Render(pg, calls, TRUE)
    BY <1>5, <2>1 DEF List!ToggleExcluded
  <2>3. excluded \in SUBSET Portfolio
    BY <1>1, <2>1 DEF ListPage
  <2>4. pg \in ListPage /\ ListSame(pg, page)
    BY ONLY <1>1, <2>2, <2>3 DEF ListPage, ListSame
  <2>. QED BY <1>3, <2>2, <2>4
<1>6. ASSUME NEW type \in {"create", "edit", "delete"}, NEW p \in Portfolio \cup {None},
             List!OpenModal(type, p)
      PROVE  ListInv'
  <2>1. PICK modal \in ListModal : modal = [type |-> type, id |-> p, working |-> FALSE]
    BY DEF ListModal
  <2>2. PICK pg : pg = [page EXCEPT !.modal = modal]
    OBVIOUS
  <2>3. page' = pg /\ calls' = calls
    BY <1>6, <2>1, <2>2 DEF List!OpenModal
  <2>4. pg \in ListPage /\ pg.rows = page.rows /\ pg.left = page.left
        /\ pg.error = page.error /\ pg.modal \in ListModal
    BY ONLY <1>1, <2>1, <2>2 DEF ListPage
  <2>5. RowsLinked(habits, pg, server, Elems(calls))
    <3>1. \A c : RowAnswered(page, server, c) => RowAnswered(pg, server, c)
      BY <2>4 DEF RowAnswered
    <3>2. RowsLoad(page, Elems(calls)) => RowsLoad(pg, Elems(calls))
      BY <2>4 DEF RowsLoad
    <3>3. NamesFollow(page, server, Elems(calls)) => NamesFollow(pg, server, Elems(calls))
      BY <2>4 DEF NamesFollow
    <3>. QED BY <1>1, <2>4, <3>1, <3>2, <3>3 DEF RowsLinked
  <2>. QED BY <1>1, <1>2, <2>3, <2>4, <2>5, ListMoves
<1>7. ASSUME List!CloseModal
      PROVE  ListInv'
  <2>1. PICK pg, os : pg = [page EXCEPT !.modal = None] /\ os = List!Orphaned(calls)
    OBVIOUS
  <2>2. page' = pg /\ calls' = os
    BY <1>7, <2>1 DEF List!CloseModal
  <2>3. pg \in ListPage /\ pg.rows = page.rows /\ pg.left = page.left /\ pg.error = page.error
    BY ONLY <1>1, <2>1 DEF ListPage
  <2>4. /\ os \in Seq(ListCall) /\ DOMAIN os = DOMAIN calls
        /\ \A j \in DOMAIN calls :
              /\ os[j].kind = calls[j].kind /\ os[j].status = calls[j].status
              /\ os[j].answer = calls[j].answer
              /\ IF calls[j].kind \in {"create", "edit"}
                 THEN ~os[j].about.form /\ os[j].about.id = calls[j].about.id
                 ELSE os[j] = calls[j]
    BY <1>1, <2>1, ListOrphaned
  <2>5. OneOf(os, Step)
    BY <1>1, <2>4 DEF OneOf
  <2>6. ASSUME NEW j \in DOMAIN calls
        PROVE  /\ RowAnswered(page, server, calls[j]) => RowAnswered(pg, server, os[j])
               /\ NamesAnswered(page.rows, server, calls[j]) => NamesAnswered(pg.rows, server, os[j])
               /\ NamesCome(os[j]) <=> NamesCome(calls[j])
    <3>1. PICK o, c : o = os[j] /\ c = calls[j]
      OBVIOUS
    <3>2. CASE c.kind \notin {"create", "edit"}
      <4>1. o = c
        BY <2>4, <3>1, <3>2
      <4>2. RowAnswered(page, server, c) => RowAnswered(pg, server, c)
        BY <2>3, <3>2 DEF RowAnswered
      <4>. QED BY <2>3, <3>1, <4>1, <4>2
    <3>3. CASE c.kind \in {"create", "edit"}
      <4>1. /\ o.kind = c.kind /\ o.status = c.status /\ o.answer = c.answer
            /\ ~o.about.form /\ o.about.id = c.about.id
        BY <2>4, <3>1, <3>3
      <4>2. RowAnswered(page, server, c) => RowAnswered(pg, server, o)
        BY <3>3, <4>1 DEF RowAnswered
      <4>3. NamesAnswered(page.rows, server, c) => NamesAnswered(pg.rows, server, o)
        BY <2>3, <3>3, <4>1 DEF NamesAnswered
      <4>4. NamesCome(o) <=> NamesCome(c)
        BY <4>1 DEF NamesCome
      <4>. QED BY <3>1, <4>2, <4>3, <4>4
    <3>. QED BY <3>2, <3>3
  <2>7. \A c \in Elems(os) : \E j \in DOMAIN calls : c = os[j] /\ calls[j] \in Elems(calls)
    BY <2>4 DEF Elems
  <2>8. \A b \in Elems(calls) : \E j \in DOMAIN calls : b = calls[j] /\ os[j] \in Elems(os)
    BY <2>4 DEF Elems
  <2>9. (\E c \in Elems(os) : c.kind \in Step) =>
           ~pg.left /\ ~pg.error /\ \A c \in Elems(os) : c.kind # "valuation"
    BY <1>1, <2>3, <2>4, <2>7 DEF RowsLinked
  <2>10. \A c \in Elems(os) : RowAnswered(pg, server, c)
    BY <1>1, <2>6, <2>7 DEF RowsLinked
  <2>11. RowsLoad(pg, Elems(os))
    <3>1. \A b \in Elems(calls) : b.kind = "valuation" => b \in Elems(os)
      BY <2>4, <2>8
    <3>. QED BY <1>1, <2>3, <3>1 DEF RowsLinked, RowsLoad
  <2>12. ASSUME "fail" \notin habits
         PROVE  NamesFollow(pg, server, Elems(os))
    <3>1. NamesFollow(page, server, Elems(calls))
      BY <1>1, <2>12 DEF RowsLinked
    <3>2. \A c \in Elems(os) : NamesAnswered(pg.rows, server, c)
      BY <2>6, <2>7, <3>1 DEF NamesFollow
    <3>3. (\E c \in Elems(calls) : NamesCome(c)) => \E c \in Elems(os) : NamesCome(c)
      BY <2>6, <2>8
    <3>. QED BY <2>3, <3>1, <3>2, <3>3 DEF NamesFollow
  <2>13. RowsLinked(habits, pg, server, Elems(os))
    BY <2>9, <2>10, <2>11, <2>12 DEF RowsLinked
  <2>. QED BY <1>1, <1>2, <2>2, <2>3, <2>4, <2>5, <2>13, ListMoves
<1>8. ASSUME List!OpenOrCloseDialog
      PROVE  ListInv'
  <2>1. PICK dialog \in {"open", "closed"} :
          page' = [page EXCEPT !.dialog = dialog] /\ calls' = calls
    BY <1>8 DEF List!OpenOrCloseDialog
  <2>2. PICK pg : pg = [page EXCEPT !.dialog = dialog]
    OBVIOUS
  <2>3. pg \in ListPage /\ ListSame(pg, page)
    BY ONLY <1>1, <2>1, <2>2 DEF ListPage, ListSame
  <2>. QED BY <1>3, <2>1, <2>2, <2>3
\* A change is sent when nothing is under way: then the rows are those of the database.
<1>9. ASSUME NEW pg \in ListPage, page' = pg, pg.rows = page.rows, pg.left = page.left,
             pg.error = page.error, List!UserChanges,
             NEW c \in ListCall, c.kind \in Step, c.status = "sent", calls' = List!Send(calls, c.kind, c.about),
             c.answer = None,
             c.kind = "delete" => c.about.rows = pg.rows,
             c.kind \in {"create", "edit"} => pg.modal \in ListModal
      PROVE  ListInv'
  <2>1. calls = <<>> /\ Elems(calls) = {}
    BY <1>9, ElemsNone DEF List!UserChanges, List!Changes
  <2>2. \A p \in DOMAIN pg.rows : pg.rows[p].valuation # "loading"
    BY <1>9, <2>1, NoneLoading
  <2>3. ~pg.left /\ ~pg.error
    BY <1>2, <1>9 DEF List!Usable
  <2>4. "fail" \notin habits => RowNames(pg.rows) = NamesOf(server)
    BY <1>1, <1>9, <2>1, <2>3 DEF RowsLinked, NamesFollow
  <2>5. calls' = Append(calls, c)
    <3>1. c = [kind |-> c.kind, about |-> c.about, status |-> "sent", answer |-> None]
      BY <1>9 DEF ListCall
    <3>. QED BY <1>9, <3>1 DEF List!Send, List!Call
  <2>. QED BY <1>1, <1>2, <1>9, <2>1, <2>2, <2>3, <2>4, <2>5, StepStarts
<1>10. ASSUME NEW name \in Name, List!Save(name)
       PROVE  ListInv'
  <2>1. page.modal \in ListModal /\ page.modal.type \in {"create", "edit"}
    BY <1>1, <1>10 DEF List!Save, ListPage
  <2>2. PICK modal : modal = [page.modal EXCEPT !.working = TRUE]
    OBVIOUS
  <2>3. modal \in ListModal
    BY <2>1, <2>2 DEF ListModal
  <2>4. PICK pg : pg = [page EXCEPT !.modal = modal]
    OBVIOUS
  <2>5. pg \in ListPage /\ pg.rows = page.rows /\ pg.left = page.left
        /\ pg.error = page.error /\ pg.modal = modal
    BY ONLY <1>1, <2>3, <2>4 DEF ListPage
  <2>6. page' = pg
    BY <1>1, <1>10, <2>2, <2>4 DEF List!Save, ListPage
  <2>7. PICK c : c = [kind |-> page.modal.type, status |-> "sent", answer |-> None,
                      about |-> [id |-> page.modal.id, name |-> name, form |-> TRUE]]
    OBVIOUS
  <2>8. c \in ListCall /\ c.kind \in Step /\ c.kind \in {"create", "edit"}
    BY <2>1, <2>7 DEF ListCall, ListForm, ListModal, Status, Step
  <2>9. /\ c.status = "sent" /\ c.answer = None /\ List!UserChanges
        /\ calls' = List!Send(calls, c.kind, c.about)
    BY <1>10, <2>7 DEF List!Save
  <2>. QED BY <1>9, <2>3, <2>5, <2>6, <2>8, <2>9
<1>11. ASSUME List!ConfirmDelete
       PROVE  ListInv'
  <2>1. page.modal \in ListModal
    BY <1>1, <1>11 DEF List!ConfirmDelete, ListPage
  <2>2. PICK modal : modal = [page.modal EXCEPT !.working = TRUE]
    OBVIOUS
  <2>3. modal \in ListModal
    BY <2>1, <2>2 DEF ListModal
  <2>4. PICK pg : pg = [page EXCEPT !.modal = modal]
    OBVIOUS
  <2>5. pg \in ListPage /\ pg.rows = page.rows /\ pg.left = page.left
        /\ pg.error = page.error /\ pg.modal = modal
    BY ONLY <1>1, <2>3, <2>4 DEF ListPage
  <2>6. page' = pg
    BY <1>1, <1>11, <2>2, <2>4 DEF List!ConfirmDelete, ListPage
  <2>7. PICK c : c = [kind |-> "delete", status |-> "sent", answer |-> None,
                      about |-> [id |-> page.modal.id, rows |-> page.rows]]
    OBVIOUS
  <2>8. c \in ListCall /\ c.kind \in Step /\ c.kind = "delete" /\ c.about.rows = page.rows
    BY <1>1, <2>1, <2>7 DEF ListCall, ListPage, ListModal, Status, Step
  <2>9. /\ c.status = "sent" /\ c.answer = None /\ List!UserChanges
        /\ calls' = List!Send(calls, c.kind, c.about)
    BY <1>11, <2>7 DEF List!ConfirmDelete
  <2>. QED BY <1>9, <2>5, <2>6, <2>8, <2>9
<1>12. ASSUME NEW kind \in {"import", "export"}, List!Transfer(kind)
       PROVE  ListInv'
  <2>1. PICK pg : pg = [page EXCEPT !.dialog = "working"]
    OBVIOUS
  <2>2. pg \in ListPage /\ pg.rows = page.rows /\ pg.left = page.left
        /\ pg.error = page.error
    BY ONLY <1>1, <2>1 DEF ListPage
  <2>3. page' = pg
    BY <1>12, <2>1 DEF List!Transfer
  <2>4. PICK c : c = [kind |-> kind, status |-> "sent", answer |-> None, about |-> None]
    OBVIOUS
  <2>5. c \in ListCall /\ c.kind \in Step /\ c.kind = kind
    BY <2>4 DEF ListCall, Status, Step
  <2>6. /\ c.status = "sent" /\ c.answer = None /\ List!UserChanges
        /\ calls' = List!Send(calls, c.kind, c.about)
    BY <1>12, <2>4 DEF List!Transfer
  <2>. QED BY <1>9, <2>2, <2>3, <2>5, <2>6
<1>. QED BY <1>4, <1>5, <1>6, <1>7, <1>8, <1>10, <1>11, <1>12 DEF List!User

LEMMA ListNext ==
  ASSUME ListInv, "multitask" \notin habits, List!Next
  PROVE  ListInv'
  BY ListServed, ListLost, ListArrived, ValuationArrived, SeriesArrived, DeleteArrived,
     PortfolioSaved, DialogArrived, ListUser
  DEF List!Next, List!Network

LEMMA ListHabits ==
  ASSUME List!Next
  PROVE  habits' = habits
  BY DEF List!Next, List!Network, List!User, List!Serve, List!Lose, List!Arrives,
     List!ListArrives, List!ValuationArrives, List!SeriesArrives, List!DeleteArrives,
     List!SaveArrives, List!ImportArrives, List!RecalculateArrives, List!ExportArrives,
     List!SelectRange, List!ToggleExcluded, List!OpenModal, List!CloseModal, List!Save,
     List!ConfirmDelete, List!OpenOrCloseDialog, List!Transfer, List!UserChooses,
     List!UserChanges

ListAlways == view = "list" /\ "multitask" \notin habits => ListInv

LEMMA ListIsAlways == Spec => []ListAlways
<1>1. Init => ListAlways
  BY InitList DEF Init, ListAlways
<1>2. ASSUME ListAlways, Next
      PROVE  ListAlways'
  BY <1>2, ListNext, ListHabits DEF Next, ListAlways
<1>3. ASSUME ListAlways, UNCHANGED vars
      PROVE  ListAlways'
  BY <1>3 DEF vars, ListAlways, ListInv
<1>4. ListAlways /\ [Next]_vars => ListAlways'
  BY <1>2, <1>3
<1>. QED BY <1>1, <1>4, PTL DEF Spec

\* When all is answered, no row of the start page is left loading, and without failures
\* its rows have the names of the portfolios of the database: for any number of them,
\* through every change, import and list, whatever the user chose meanwhile, as long as
\* changes wait for the answers before them.
THEOREM ListRowsAtRest == Spec => []ListRowsSettle
<1>1. ListAlways => ListRowsSettle
  <2>1. ASSUME ListInv, List!AtRest
        PROVE  /\ \A p \in DOMAIN page.rows : page.rows[p].valuation # "loading"
               /\ "fail" \notin habits => RowNames(page.rows) = NamesOf(server)
    <3>1. calls = <<>> /\ Elems(calls) = {} /\ ~page.left /\ ~page.error
      BY <2>1, ElemsNone DEF List!AtRest, List!Usable
    <3>2. "fail" \notin habits => RowNames(page.rows) = NamesOf(server)
      BY <2>1, <3>1 DEF ListInv, RowsLinked, NamesFollow
    <3>. QED BY <2>1, <3>1, <3>2, NoneLoading
  <2>2. List!Names = NamesOf(server)
    BY DEF List!Names, List!Stored, List!Deleted, NamesOf, StoredIn
  <2>. QED BY <2>1, <2>2 DEF ListAlways, ListRowsSettle, List!RowsSettle, RowNames
<1>. QED BY <1>1, ListIsAlways, PTL


--------------------------------------------------------------------------------
(* The chart of the start page.  The latest call for a series is the one whose  *)
(* answer stays, since they are answered in turn; it is about what is chosen,   *)
(* and none is needed while the chart shows just that.  The rows are portfolios *)
(* that are stored, but for the one that is being deleted.                      *)

ListAsked(pg)  == [range |-> pg.range,
                   ids |-> IF pg.excluded = {} THEN None ELSE List!Included(pg)]
ListWanted(pg) == [range |-> pg.range, of |-> List!Included(pg)]

HasSeries(cs) == \E c \in Elems(cs) : c.kind = "series"

RowsStored(pg, db, C) ==
    \A p \in DOMAIN pg.rows :
        p \in StoredIn(db) \/ \E c \in C : c.kind = "delete" /\ c.status # "sent" /\ c.about.id = p

DeletesRow(pg, C) ==
    /\ pg.modal # None /\ pg.modal.type = "delete" => pg.modal.id \in DOMAIN pg.rows
    /\ \A c \in C : c.kind = "delete" => c.about.id \in DOMAIN pg.rows

TotalComes(pg, db, cs) ==
    /\ \A c \in Latest(cs, "series") :
          /\ c.about = ListAsked(pg)
          /\ c.status = "served" /\ DOMAIN pg.rows = StoredIn(db) => c.answer = ListWanted(pg)
    /\ \/ HasSeries(cs) \/ pg.seriesError
       \/ DOMAIN pg.rows # StoredIn(db)
       \/ pg.series = ListWanted(pg)

TotalFollows(hb, pg, db, cs) ==
    /\ pg.seriesLoading => HasSeries(cs)
    /\ List!AsksNothing(pg) /\ "hasty" \notin hb => pg.series = None /\ ~HasSeries(cs)
    /\ ~List!AsksNothing(pg) => TotalComes(pg, db, cs)

TotalLinked(hb, pg, db, cs) ==
    /\ "hasty" \notin hb /\ (\E c \in Elems(cs) : c.kind \in Step) => Len(cs) = 1
    /\ ~pg.error =>
          /\ RowsStored(pg, db, Elems(cs)) /\ DeletesRow(pg, Elems(cs))
          /\ DOMAIN pg.rows # {} => TotalFollows(hb, pg, db, cs)

TotalInv == TotalLinked(habits, page, server, calls)

\* The calls for the series are the same, or fewer than one of which is needed no longer.
SameSeries(cs, cn) ==
    Latest(cn, "series") \subseteq Latest(cs, "series") /\ (HasSeries(cn) <=> HasSeries(cs))

\* What the chart depends on.
TotalSame(pg, pn) ==
    /\ DOMAIN pn.rows = DOMAIN pg.rows /\ pn.range = pg.range /\ pn.excluded = pg.excluded
    /\ pn.series = pg.series /\ pn.seriesLoading = pg.seriesLoading
    /\ pn.seriesError = pg.seriesError /\ pn.error = pg.error

LEMMA TotalKept ==
  ASSUME NEW pg, NEW pn, NEW cs, NEW cn, TotalLinked(habits, pg, server, cs),
         TotalSame(pg, pn), SameSeries(cs, cn),
         pn.modal # None /\ pn.modal.type = "delete" =>
            pn.modal.id \in DOMAIN pg.rows \/ (pg.modal # None /\ pg.modal.type = "delete"
                                              /\ pn.modal.id = pg.modal.id),
         \A c \in Elems(cs) : c.kind = "delete" => c \in Elems(cn),
         \A c \in Elems(cn) : c.kind = "delete" => c \in Elems(cs) \/ c.about.id \in DOMAIN pg.rows,
         "hasty" \notin habits /\ (\E c \in Elems(cn) : c.kind \in Step) => Len(cn) = 1
  PROVE  TotalLinked(habits, pn, server, cn)
<1>. SUFFICES ASSUME ~pn.error
              PROVE  /\ RowsStored(pn, server, Elems(cn)) /\ DeletesRow(pn, Elems(cn))
                     /\ DOMAIN pn.rows # {} => TotalFollows(habits, pn, server, cn)
  BY DEF TotalLinked
<1>1. /\ RowsStored(pg, server, Elems(cs)) /\ DeletesRow(pg, Elems(cs))
      /\ DOMAIN pg.rows # {} => TotalFollows(habits, pg, server, cs)
  BY DEF TotalLinked, TotalSame
<1>2. RowsStored(pn, server, Elems(cn))
  BY <1>1 DEF RowsStored, TotalSame
<1>3. DeletesRow(pn, Elems(cn))
  BY <1>1 DEF DeletesRow, TotalSame
<1>4. /\ List!Included(pn) = List!Included(pg)
      /\ List!AsksNothing(pn) <=> List!AsksNothing(pg)
  BY DEF List!Included, List!AsksNothing, TotalSame
<1>5. ListAsked(pn) = ListAsked(pg) /\ ListWanted(pn) = ListWanted(pg)
  BY <1>4 DEF ListAsked, ListWanted, TotalSame
<1>6. ASSUME DOMAIN pn.rows # {}
      PROVE  TotalFollows(habits, pn, server, cn)
  <2>1. TotalFollows(habits, pg, server, cs)
    BY <1>1, <1>6 DEF TotalSame
  <2>2. TotalComes(pg, server, cs) => TotalComes(pn, server, cn)
    BY <1>5 DEF TotalComes, TotalSame, SameSeries
  <2>. QED BY <1>4, <2>1, <2>2 DEF TotalFollows, TotalSame, SameSeries
<1>. QED BY <1>2, <1>3, <1>6

\* The effect asks for the series that is chosen, or clears the chart.
LEMMA TotalAsked ==
  ASSUME NEW pg \in ListPage, NEW cs \in Seq(ListCall),
         page' = List!SeriesPage(pg), calls' = List!SeriesCalls(pg, cs),
         UNCHANGED <<habits, server>>, ~pg.error,
         RowsStored(pg, server, Elems(cs)), DeletesRow(pg, Elems(cs)),
         "hasty" \notin habits => \A c \in Elems(cs) : c.kind \notin Step \cup {"series"}
  PROVE  TotalInv'
<1>1. CASE List!AsksNothing(pg)
  <2>1. PICK pn : pn = [pg EXCEPT !.series = None, !.seriesLoading = FALSE, !.seriesError = FALSE]
    OBVIOUS
  <2>2. page' = pn /\ calls' = cs
    BY <1>1, <2>1 DEF List!SeriesPage, List!SeriesCalls, List!Cleared
  <2>3. /\ pn.rows = pg.rows /\ pn.modal = pg.modal /\ pn.error = pg.error
        /\ pn.excluded = pg.excluded /\ ~pn.seriesLoading /\ pn.series = None
    BY ONLY pg \in ListPage, <2>1 DEF ListPage
  <2>4. List!AsksNothing(pn)
    BY <1>1, <2>3 DEF List!AsksNothing, List!Included
  <2>5. RowsStored(pn, server, Elems(cs)) /\ DeletesRow(pn, Elems(cs))
    BY <2>3 DEF RowsStored, DeletesRow
  <2>6. TotalFollows(habits, pn, server, cs)
    BY <2>3, <2>4 DEF TotalFollows, HasSeries
  <2>7. TotalLinked(habits, pn, server, cs)
    BY <2>5, <2>6 DEF TotalLinked
  <2>. QED BY <2>2, <2>7 DEF TotalInv
<1>2. CASE ~List!AsksNothing(pg)
  <2>1. PICK pn : pn = [pg EXCEPT !.seriesLoading = TRUE, !.seriesError = FALSE]
    OBVIOUS
  <2>2. PICK c : c = [kind |-> "series", about |-> ListAsked(pg), status |-> "sent", answer |-> None]
    OBVIOUS
  <2>3. page' = pn /\ calls' = Append(cs, c)
    BY <1>2, <2>1, <2>2
    DEF List!SeriesPage, List!SeriesCalls, ListAsked, List!Send, List!Call
  <2>4. /\ pn.rows = pg.rows /\ pn.modal = pg.modal /\ pn.error = pg.error
        /\ pn.excluded = pg.excluded /\ pn.range = pg.range
    BY ONLY pg \in ListPage, <2>1 DEF ListPage
  <2>5. ListAsked(pg) \in [range : ListPeriod, ids : (SUBSET Portfolio) \cup {None}]
    <3>1. pg.range \in ListPeriod /\ DOMAIN pg.rows \in SUBSET Portfolio
      BY DEF ListPage, ListRows
    <3>2. List!Included(pg) \in SUBSET Portfolio
      BY <3>1 DEF List!Included
    <3>. QED BY <3>1, <3>2 DEF ListAsked
  <2>6. c \in ListCall /\ c.kind = "series" /\ c.status = "sent" /\ c.about = ListAsked(pg)
    BY <2>2, <2>5 DEF ListCall, Status
  <2>7. PICK cn : cn = Append(cs, c)
    OBVIOUS
  <2>8. /\ Elems(cn) = Elems(cs) \cup {c} /\ Latest(cn, "series") \subseteq {c}
    BY <2>6, <2>7, ElemsAppended, LatestAppended
  <2>9. ListAsked(pn) = ListAsked(pg)
    BY <2>4 DEF ListAsked, List!Included
  <2>10. ~List!AsksNothing(pn)
    BY <1>2, <2>4 DEF List!AsksNothing, List!Included
  <2>11. HasSeries(cn)
    BY <2>6, <2>8 DEF HasSeries
  <2>12. TotalFollows(habits, pn, server, cn)
    BY <2>6, <2>8, <2>9, <2>10, <2>11 DEF TotalFollows, TotalComes
  <2>13. RowsStored(pn, server, Elems(cn)) /\ DeletesRow(pn, Elems(cn))
    BY <2>4, <2>6, <2>8 DEF RowsStored, DeletesRow
  <2>14. "hasty" \notin habits => \A b \in Elems(cn) : b.kind \notin Step
    BY <2>6, <2>8 DEF Step
  <2>15. TotalLinked(habits, pn, server, cn)
    BY <2>12, <2>13, <2>14 DEF TotalLinked
  <2>. QED BY <2>3, <2>7, <2>15 DEF TotalInv
<1>. QED BY <1>1, <1>2

LEMMA InitTotal ==
  ASSUME List!Init
  PROVE  TotalInv
<1>1. page = List!Fresh /\ calls = List!FirstCalls
  <2>1. PICK o \in List!Openings : server = o.server /\ page = o.page /\ calls = o.calls
    BY DEF List!Init
  <2>2. PICK db \in List!Databases :
          o = [server |-> db, page |-> List!Fresh, calls |-> List!FirstCalls]
    BY <2>1 DEF List!Openings
  <2>. QED BY <2>1, <2>2
<1>2. PICK c : c = [kind |-> "list", about |-> None, status |-> "sent", answer |-> None]
  OBVIOUS
<1>3. calls = Append(<<>>, c) /\ c.kind = "list" /\ c \in {c}
  BY <1>1, <1>2 DEF List!FirstCalls, List!Send, List!Call
<1>4. Elems(calls) = {c} /\ Len(calls) = 1
  <2>1. Elems(Append(<<>>, c)) = {c}
    BY <1>3, ElemsOne
  <2>. QED BY <1>3, <2>1
<1>5. DOMAIN page.rows = {} /\ page.modal = None
  BY <1>1 DEF List!Fresh, List!NoRows
<1>. QED BY <1>3, <1>4, <1>5 DEF TotalInv, TotalLinked, RowsStored, DeletesRow

\* A call is answered, or lost.  The portfolios that are stored come to be those of the
\* rows only if they do not change.
LEMMA TotalReplaced ==
  ASSUME ListInv, TotalInv, NEW i \in DOMAIN calls, NEW status, NEW answer, NEW new \in ListCall,
         new = [calls[i] EXCEPT !.status = status, !.answer = answer], new.status # "sent",
         calls' = [calls EXCEPT ![i].status = status, ![i].answer = answer],
         page' = page, habits' = habits,
         ~page.error => \A p \in DOMAIN page.rows : p \in StoredIn(server) =>
            p \in StoredIn(server') \/ (new.kind = "delete" /\ new.about.id = p),
         ~page.error /\ DOMAIN page.rows = StoredIn(server') => StoredIn(server') = StoredIn(server),
         /\ new.kind = "series" /\ new.status = "served" /\ new.about = ListAsked(page)
         /\ ~List!AsksNothing(page) /\ DOMAIN page.rows = StoredIn(server)
         => new.answer = ListWanted(page)
  PROVE  TotalInv'
<1> DEFINE old == calls[i]
<1>1. calls \in Seq(ListCall) /\ old \in ListCall /\ old \in Elems(calls)
  BY DEF ListInv, Elems
<1>2. new.kind = old.kind /\ new.about = old.about
  BY <1>1 DEF ListCall
<1>3. PICK cn : cn = calls'
  OBVIOUS
<1>4. /\ new \in Elems(cn)
      /\ Elems(cn) \subseteq Elems(calls) \cup {new}
      /\ Elems(calls) \subseteq Elems(cn) \cup {old}
  BY <1>1, <1>3, ElemsAnswered
<1>5. \A b \in Latest(cn, "series") : \/ b \in Latest(calls, "series")
                                      \/ b = new /\ old \in Latest(calls, "series")
  <2>1. \A b \in Latest([calls EXCEPT ![i].status = status, ![i].answer = answer], "series") :
           \/ b \in Latest(calls, "series")
           \/ b = [calls[i] EXCEPT !.status = status, !.answer = answer]
              /\ calls[i] \in Latest(calls, "series")
    BY <1>1, <1>2, LatestAnswered
  <2>. QED BY <1>3, <2>1
<1>6. Len(cn) = Len(calls)
  BY <1>1, <1>3
<1>. HIDE DEF old
<1>7. /\ HasSeries(cn) <=> HasSeries(calls)
      /\ (\E c \in Elems(cn) : c.kind \in Step) <=> (\E c \in Elems(calls) : c.kind \in Step)
  BY <1>1, <1>2, <1>4 DEF HasSeries
<1>8. ASSUME ~page.error
      PROVE  /\ RowsStored(page, server', Elems(cn)) /\ DeletesRow(page, Elems(cn))
             /\ DOMAIN page.rows # {} => TotalFollows(habits, page, server', cn)
  <2>1. /\ RowsStored(page, server, Elems(calls)) /\ DeletesRow(page, Elems(calls))
        /\ DOMAIN page.rows # {} => TotalFollows(habits, page, server, calls)
    BY <1>8 DEF TotalInv, TotalLinked
  <2>2. RowsStored(page, server', Elems(cn))
    <3>1. ASSUME NEW p \in DOMAIN page.rows
          PROVE  \/ p \in StoredIn(server')
                 \/ \E c \in Elems(cn) : c.kind = "delete" /\ c.status # "sent" /\ c.about.id = p
      <4>1. CASE p \in StoredIn(server)
        BY <1>4, <1>8, <4>1
      <4>2. CASE \E c \in Elems(calls) : c.kind = "delete" /\ c.status # "sent" /\ c.about.id = p
        BY <1>2, <1>4, <4>2
      <4>. QED BY <2>1, <4>1, <4>2 DEF RowsStored
    <3>. QED BY <3>1 DEF RowsStored
  <2>3. DeletesRow(page, Elems(cn))
    BY <1>1, <1>2, <1>4, <2>1 DEF DeletesRow
  <2>4. ASSUME DOMAIN page.rows # {}
        PROVE  TotalFollows(habits, page, server', cn)
    <3>1. TotalFollows(habits, page, server, calls)
      BY <2>1, <2>4
    <3>2. ASSUME ~List!AsksNothing(page)
          PROVE  TotalComes(page, server', cn)
      <4>1. TotalComes(page, server, calls)
        BY <3>1, <3>2 DEF TotalFollows
      <4>2. \A b \in Latest(cn, "series") :
               /\ b.about = ListAsked(page)
               /\ b.status = "served" /\ DOMAIN page.rows = StoredIn(server') =>
                     b.answer = ListWanted(page)
        <5>1. ASSUME NEW b \in Latest(calls, "series")
              PROVE  /\ b.about = ListAsked(page)
                     /\ b.status = "served" /\ DOMAIN page.rows = StoredIn(server') =>
                           b.answer = ListWanted(page)
          BY <1>8, <4>1, <5>1 DEF TotalComes
        <5>2. ASSUME old \in Latest(calls, "series")
              PROVE  /\ new.about = ListAsked(page)
                     /\ new.status = "served" /\ DOMAIN page.rows = StoredIn(server') =>
                           new.answer = ListWanted(page)
          <6>1. old.about = ListAsked(page) /\ old.kind = "series"
            BY <4>1, <5>2 DEF TotalComes, Latest, IsLatest
          <6>. QED BY <1>2, <1>8, <3>2, <6>1
        <5>. QED BY <1>5, <5>1, <5>2
      <4>3. \/ HasSeries(cn) \/ page.seriesError
            \/ DOMAIN page.rows # StoredIn(server')
            \/ page.series = ListWanted(page)
        BY <1>7, <1>8, <4>1 DEF TotalComes
      <4>. QED BY <4>2, <4>3 DEF TotalComes
    <3>. QED BY <1>7, <3>1, <3>2 DEF TotalFollows
  <2>. QED BY <2>2, <2>3, <2>4
<1>9. "hasty" \notin habits /\ (\E c \in Elems(cn) : c.kind \in Step) => Len(cn) = 1
  BY <1>6, <1>7 DEF TotalInv, TotalLinked
<1>10. TotalLinked(habits, page, server', cn)
  BY <1>8, <1>9 DEF TotalLinked
<1>. QED BY <1>3, <1>10 DEF TotalInv

LEMMA TotalServed ==
  ASSUME ListInv, TotalInv, NEW i \in DOMAIN calls, List!Serve(i)
  PROVE  TotalInv'
<1> DEFINE old == calls[i]
<1>1. /\ habits' = habits /\ page' = page /\ old \in ListCall
      /\ server \in ListTables /\ page \in ListPage
      /\ old \in Elems(calls) /\ RowsLinked(habits, page, server, Elems(calls))
  BY DEF ListInv, List!Serve, List!Waiting, Elems
<1>2. /\ List!Stored = StoredIn(server)
      /\ \A db : StoredIn(db) \subseteq Portfolio
  BY DEF List!Stored, List!Deleted, StoredIn
<1>3. RowAnswered(page, server, old)
  BY <1>1 DEF RowsLinked
<1>4. ~page.error => RowsStored(page, server, Elems(calls)) /\ DeletesRow(page, Elems(calls))
  BY DEF TotalInv, TotalLinked
<1>5. ASSUME List!Reads(i)
      PROVE  TotalInv'
  <2>1. old.kind \in {"list", "valuation", "series", "recalculate", "export"} /\ server' = server
    BY <1>5 DEF List!Reads
  <2>2. PICK status, answer :
          /\ status \in Status \ {"sent"}
          /\ calls' = [calls EXCEPT ![i].status = status, ![i].answer = answer]
          /\ old.kind = "list" => answer = NamesOf(server)
          /\ old.kind = "series" => answer = [range |-> old.about.range,
                                              of |-> IF old.about.ids = None THEN StoredIn(server)
                                                     ELSE old.about.ids \cap StoredIn(server)]
          /\ old.kind \notin {"list", "series"} => answer = None
    <3>0. "served" \in Status \ {"sent"} /\ "failed" \in Status \ {"sent"}
      BY DEF Status
    <3>1. CASE old.kind = "list"
      <4>1. List!Names = NamesOf(server)
        BY <1>2 DEF List!Names, NamesOf
      <4>2. calls' = [calls EXCEPT ![i].status = "served", ![i].answer = NamesOf(server)]
        BY <1>5, <3>1, <4>1 DEF List!Reads, List!Served
      <4>. QED BY <3>0, <3>1, <4>2
    <3>2. CASE old.kind = "valuation"
      <4>1. \/ calls' = [calls EXCEPT ![i].status = "served", ![i].answer = None]
            \/ calls' = [calls EXCEPT ![i].status = "failed", ![i].answer = None]
        BY <1>5, <3>2 DEF List!Reads, List!Served, List!Lost
      <4>. QED BY <3>0, <3>2, <4>1
    <3>3. CASE old.kind = "series"
      <4>1. PICK a : /\ a = [range |-> old.about.range,
                             of |-> IF old.about.ids = None THEN StoredIn(server)
                                    ELSE old.about.ids \cap StoredIn(server)]
                    /\ calls' = [calls EXCEPT ![i].status = "served", ![i].answer = a]
        BY <1>2, <1>5, <3>3 DEF List!Reads, List!Served
      <4>. QED BY <3>0, <3>3, <4>1
    <3>4. CASE old.kind \in {"recalculate", "export"}
      <4>1. calls' = [calls EXCEPT ![i].status = "served", ![i].answer = None]
        BY <1>5, <3>4 DEF List!Reads, List!Served
      <4>. QED BY <3>0, <3>4, <4>1
    <3>. QED BY <2>1, <3>1, <3>2, <3>3, <3>4
  <2>3. PICK new : new = [old EXCEPT !.status = status, !.answer = answer]
    OBVIOUS
  <2>4. NamesOf(server) \in ListNames
    BY <1>1, NamesTyped
  <2>5. old.kind = "series" => answer \in ListSeries
    <3>1. old.kind = "series" => old.about.range \in ListPeriod
      BY <1>1 DEF ListCall
    <3>. QED BY <1>2, <2>2, <3>1 DEF ListSeries
  <2>. HIDE DEF old
  <2>6. /\ new \in ListCall /\ new.kind = old.kind /\ new.about = old.about
        /\ new.status = status /\ new.answer = answer
    BY <1>1, <2>1, <2>2, <2>3, <2>4, <2>5 DEF ListCall, Status
  <2>7. ASSUME new.kind = "series", new.about = ListAsked(page),
               ~List!AsksNothing(page), DOMAIN page.rows = StoredIn(server)
        PROVE  new.answer = ListWanted(page)
    <3>1. old.about.range = page.range
          /\ old.about.ids = IF page.excluded = {} THEN None ELSE List!Included(page)
      BY <2>6, <2>7 DEF ListAsked
    <3>2. CASE page.excluded = {}
      <4>1. List!Included(page) = StoredIn(server)
        BY <2>7, <3>2 DEF List!Included
      <4>. QED BY <2>2, <2>6, <2>7, <3>1, <3>2, <4>1 DEF ListWanted
    <3>3. CASE page.excluded # {}
      <4>1. List!Included(page) \cap StoredIn(server) = List!Included(page)
        BY <2>7 DEF List!Included
      <4>2. List!Included(page) # None
        <5>1. DOMAIN page.rows \in SUBSET Portfolio
          BY <1>2, <2>7
        <5>. QED BY <5>1, FrontendAssumption DEF List!Included
      <4>. QED BY <2>2, <2>6, <2>7, <3>1, <3>3, <4>1, <4>2 DEF ListWanted
    <3>. QED BY <3>2, <3>3
  <2>. QED BY <1>1, <2>1, <2>2, <2>3, <2>6, <2>7, TotalReplaced DEF old
<1>6. ASSUME List!Writes(i)
      PROVE  TotalInv'
  <2>1. old.kind \in {"delete", "edit", "create", "import"} /\ old.kind \in Step
    BY <1>6 DEF List!Writes, Step
  <2>2. ~page.error /\ RowsStored(page, server, Elems(calls)) /\ DeletesRow(page, Elems(calls))
    BY <1>1, <1>4, <2>1 DEF RowsLinked
  <2>3. ASSUME NEW c \in Elems(calls), c.kind = "delete"
        PROVE  c = old
    <3>1. PICK j \in DOMAIN calls : c = calls[j]
      BY DEF Elems
    <3>2. j = i
      BY <2>1, <2>3, <3>1 DEF ListInv, OneOf, Step
    <3>. QED BY <3>1, <3>2
  <2>4. old.kind # "delete" => \A p \in DOMAIN page.rows : p \in StoredIn(server)
    BY <2>2, <2>3 DEF RowsStored
  <2>5. CASE old.kind \in {"delete", "edit"} /\ old.about.id \notin StoredIn(server)
    <3>1. /\ calls' = [calls EXCEPT ![i].status = "failed", ![i].answer = None]
          /\ server' = server
      BY <1>2, <1>6, <2>5 DEF List!Writes, List!Lost
    <3>2. PICK new : new = [old EXCEPT !.status = "failed", !.answer = None]
      OBVIOUS
    <3>. HIDE DEF old
    <3>3. /\ new \in ListCall /\ new.kind = old.kind /\ new.about = old.about
          /\ new.status = "failed"
      BY <1>1, <2>5, <3>2 DEF ListCall, Status
    <3>. QED BY <1>1, <3>1, <3>2, <3>3, TotalReplaced DEF old
  <2>6. CASE old.kind = "delete" /\ old.about.id \in StoredIn(server)
    <3>1. PICK p \in Portfolio : p = old.about.id /\ p \in StoredIn(server)
      BY <2>6 DEF StoredIn
    <3>2. /\ calls' = [calls EXCEPT ![i].status = "served", ![i].answer = None]
          /\ server' = [server EXCEPT ![p] = "deleted"]
      BY <1>2, <1>6, <2>6, <3>1 DEF List!Writes, List!Served, List!Deleted
    <3>3. PICK new : new = [old EXCEPT !.status = "served", !.answer = None]
      OBVIOUS
    <3>4. p \in DOMAIN page.rows
      BY <1>1, <2>2, <2>6, <3>1 DEF DeletesRow
    <3>. HIDE DEF old
    <3>5. /\ new \in ListCall /\ new.kind = old.kind /\ new.about = old.about
          /\ new.status = "served"
      BY <1>1, <2>6, <3>3 DEF ListCall, Status
    <3>6. StoredIn(server') = StoredIn(server) \ {p}
      BY <1>1, <3>2 DEF StoredIn, ListTables
    <3>. QED BY <1>1, <2>6, <3>1, <3>2, <3>3, <3>4, <3>5, <3>6, TotalReplaced DEF old
  <2>7. CASE old.kind \in {"edit", "create", "import"} /\ ~(old.kind = "edit" /\ old.about.id \notin StoredIn(server))
    <3>1. PICK answer \in Name \cup {None} \cup SUBSET Portfolio :
            /\ calls' = [calls EXCEPT ![i].status = "served", ![i].answer = answer]
            /\ StoredIn(server) \subseteq StoredIn(server')
            /\ old.kind = "edit" => answer \in Name
            /\ old.kind = "create" => answer = None
            /\ old.kind = "import" => answer \in SUBSET Portfolio
      <4>0. \A name \in Name : name \notin {None, "deleted"}
        BY FrontendAssumption
      <4>1. CASE old.kind = "edit"
        <5>1. old.about.name \in Name /\ old.about.id \in StoredIn(server)
          BY <1>1, <2>7, <4>1 DEF ListCall, ListForm
        <5>2. /\ server' = [server EXCEPT ![old.about.id] = old.about.name]
              /\ calls' = List!Served(calls, i, old.about.name)
          BY <1>2, <1>6, <4>1, <5>1 DEF List!Writes
        <5>3. StoredIn(server) \subseteq StoredIn(server')
          BY <1>1, <4>0, <5>1, <5>2 DEF StoredIn, ListTables
        <5>. QED BY <4>1, <5>1, <5>2, <5>3 DEF List!Served
      <4>2. CASE old.kind = "create"
        <5>1. PICK p \in List!Unused : server' = [server EXCEPT ![p] = old.about.name]
          BY <1>6, <4>2 DEF List!Writes
        <5>2. p \notin StoredIn(server)
          BY <5>1 DEF List!Unused, StoredIn
        <5>3. StoredIn(server) \subseteq StoredIn(server')
          BY <1>1, <5>1, <5>2 DEF StoredIn, ListTables
        <5>. QED BY <1>6, <4>2, <5>3 DEF List!Writes, List!Served
      <4>3. CASE old.kind = "import"
        <5>1. PICK names \in [List!Unused -> Name \cup {None}] :
                /\ server' = [p \in Portfolio |-> IF p \in List!Unused THEN names[p] ELSE server[p]]
                /\ calls' = List!Served(calls, i, {p \in List!Unused : names[p] # None})
          BY <1>6, <4>3 DEF List!Writes
        <5>2. StoredIn(server) \subseteq StoredIn(server')
          BY <1>1, <5>1 DEF StoredIn, List!Unused
        <5>3. {p \in List!Unused : names[p] # None} \in SUBSET Portfolio
          BY DEF List!Unused
        <5>. QED BY <4>3, <5>1, <5>2, <5>3 DEF List!Served
      <4>. QED BY <2>7, <4>1, <4>2, <4>3
    <3>2. PICK new : new = [old EXCEPT !.status = "served", !.answer = answer]
      OBVIOUS
    <3>. HIDE DEF old
    <3>3. /\ new \in ListCall /\ new.kind = old.kind /\ new.about = old.about
          /\ new.status = "served"
      <4>1. CASE old.kind = "edit"
        BY <1>1, <3>1, <3>2, <4>1 DEF ListCall, Status
      <4>2. CASE old.kind = "create"
        BY <1>1, <3>1, <3>2, <4>2 DEF ListCall, Status
      <4>3. CASE old.kind = "import"
        BY <1>1, <3>1, <3>2, <4>3 DEF ListCall, Status
      <4>. QED BY <2>7, <4>1, <4>2, <4>3
    <3>4. DOMAIN page.rows = StoredIn(server') => StoredIn(server') = StoredIn(server)
      BY <2>4, <2>7, <3>1
    <3>. QED BY <1>1, <2>7, <3>1, <3>2, <3>3, <3>4, TotalReplaced DEF old
  <2>. QED BY <2>1, <2>5, <2>6, <2>7
<1>. QED BY <1>5, <1>6 DEF List!Serve

LEMMA TotalLost ==
  ASSUME ListInv, TotalInv, NEW i \in DOMAIN calls, List!Lose(i)
  PROVE  TotalInv'
<1>1. /\ calls[i] \in ListCall /\ habits' = habits /\ page' = page /\ server' = server
      /\ calls' = [calls EXCEPT ![i].status = "failed", ![i].answer = None]
  BY DEF ListInv, List!Lose, List!Lost
<1>2. PICK new : new = [calls[i] EXCEPT !.status = "failed", !.answer = None]
  OBVIOUS
<1>3. /\ new \in ListCall /\ new.kind = calls[i].kind /\ new.about = calls[i].about
      /\ new.status = "failed"
  BY <1>1, <1>2 DEF ListCall, Status
<1>. QED BY <1>1, <1>2, <1>3, TotalReplaced

\* A call that has arrived is no longer under way: of the series it was the oldest.
LEMMA TotalRest ==
  ASSUME ListInv, TotalInv, "reorder" \notin habits, NEW i \in DOMAIN calls,
         List!Arriving(habits, calls, i)
  PROVE  LET rest == List!Rest(i) IN
         /\ Latest(rest, "series") \subseteq Latest(calls, "series")
         /\ calls[i].kind # "series" => (HasSeries(rest) <=> HasSeries(calls))
         /\ calls[i].kind = "series" /\ ~HasSeries(rest) => calls[i] \in Latest(calls, "series")
         /\ HasSeries(rest) => HasSeries(calls)
         /\ "hasty" \notin habits /\ (\E c \in Elems(calls) : c.kind \in Step) =>
               Elems(rest) = {} /\ Len(rest) = 0
<1> DEFINE rest == List!Rest(i)
<1>1. rest = Dropped(calls, i)
  BY DEF List!Rest, List!RemoveAt, Dropped
<1>2. calls \in Seq(ListCall) /\ \A j \in 1..(i - 1) : calls[j].kind # calls[i].kind
  BY DEF ListInv, List!Arriving, List!InTurn
<1>3. /\ Latest(rest, "series") \subseteq Latest(calls, "series")
      /\ calls[i].kind = "series" /\ (\A c \in Elems(rest) : c.kind # "series") =>
            calls[i] \in Latest(calls, "series")
  BY <1>1, <1>2, LatestDropped
<1>4. /\ Elems(rest) \subseteq Elems(calls)
      /\ Elems(calls) \subseteq Elems(rest) \cup {calls[i]}
      /\ rest \in Seq(ListCall)
  BY ListRest
<1>5. Len(rest) = Len(calls) - 1
  BY <1>1, <1>2, DroppedAt
<1>. HIDE DEF rest
<1>6. ASSUME "hasty" \notin habits, \E c \in Elems(calls) : c.kind \in Step
      PROVE  Elems(rest) = {} /\ Len(rest) = 0
  <2>1. Len(rest) = 0
    BY <1>5, <1>6 DEF TotalInv, TotalLinked
  <2>2. rest = <<>>
    BY <1>4, <2>1
  <2>. QED BY <2>1, <2>2, ElemsNone
<1>7. HasSeries(rest) => HasSeries(calls)
  BY <1>4 DEF HasSeries
<1>8. calls[i].kind # "series" => (HasSeries(rest) <=> HasSeries(calls))
  BY <1>4 DEF HasSeries
<1>9. calls[i].kind = "series" /\ ~HasSeries(rest) => calls[i] \in Latest(calls, "series")
  BY <1>3 DEF HasSeries
<1>. QED BY <1>3, <1>6, <1>7, <1>8, <1>9 DEF rest

\* An answer that is not about the chart.
LEMMA TotalGoesOn ==
  ASSUME ListInv, TotalInv, "reorder" \notin habits, UNCHANGED <<habits, server>>,
         NEW i \in DOMAIN calls, List!Arriving(habits, calls, i),
         calls[i].kind \notin {"series", "delete"},
         NEW pg, TotalSame(page, pg), page' = pg,
         \/ pg.modal = None
         \/ page.modal # None /\ pg.modal.type = page.modal.type /\ pg.modal.id = page.modal.id,
         calls' = List!Rest(i)
  PROVE  TotalInv'
<1>1. PICK cs : cs = List!Rest(i)
  OBVIOUS
<1>2. /\ Latest(cs, "series") \subseteq Latest(calls, "series")
      /\ HasSeries(cs) <=> HasSeries(calls)
      /\ "hasty" \notin habits /\ (\E c \in Elems(calls) : c.kind \in Step) => Elems(cs) = {}
  BY <1>1, TotalRest
<1>3. /\ Elems(cs) \subseteq Elems(calls)
      /\ Elems(calls) \subseteq Elems(cs) \cup {calls[i]}
  BY <1>1, ListRest
<1>4. "hasty" \notin habits => \A c \in Elems(cs) : c.kind \notin Step
  BY <1>2, <1>3
<1>5. TotalLinked(habits, pg, server, cs)
  BY <1>2, <1>3, <1>4, TotalKept DEF TotalInv, SameSeries
<1>. QED BY <1>1, <1>5 DEF TotalInv

\* A call about the portfolios follows another one.
LEMMA TotalSends ==
  ASSUME UNCHANGED <<habits, server>>,
         NEW pg, NEW cs \in Seq(ListCall), TotalLinked(habits, pg, server, cs), NEW pn, TotalSame(pg, pn),
         pn.modal # None /\ pn.modal.type = "delete" =>
            pg.modal # None /\ pg.modal.type = "delete" /\ pn.modal.id = pg.modal.id,
         NEW c \in ListCall, c.kind \in Step,
         c.kind = "delete" => c.about.id \in DOMAIN pg.rows,
         "hasty" \notin habits => Len(cs) = 0,
         page' = pn, calls' = Append(cs, c)
  PROVE  TotalInv'
<1>1. PICK cn : cn = Append(cs, c)
  OBVIOUS
<1>2. c.kind # "series"
  BY DEF Step
<1>3. Elems(cn) = Elems(cs) \cup {c} /\ Latest(cn, "series") \subseteq Latest(cs, "series")
  BY <1>1, <1>2, ElemsAppended, LatestAppended
<1>4. SameSeries(cs, cn)
  BY <1>2, <1>3 DEF SameSeries, HasSeries
<1>5. "hasty" \notin habits => Len(cn) = 1
  BY <1>1
<1>6. TotalLinked(habits, pn, server, cn)
  BY <1>3, <1>4, <1>5, TotalKept
<1>. QED BY <1>1, <1>6 DEF TotalInv

\* The page says that it failed, and no more.
LEMMA TotalFails ==
  ASSUME ListInv, TotalInv, "reorder" \notin habits, UNCHANGED habits,
         NEW i \in DOMAIN calls, List!Arriving(habits, calls, i), calls[i].kind \in Step,
         NEW pg, pg.error, page' = pg, calls' = List!Rest(i)
  PROVE  TotalInv'
<1>1. PICK cs : cs = List!Rest(i)
  OBVIOUS
<1>2. \A c \in Elems(cs) : c.kind \notin Step
  BY <1>1, ListRest
<1>3. TotalLinked(habits, pg, server', cs)
  BY <1>2 DEF TotalLinked
<1>. QED BY <1>1, <1>3 DEF TotalInv

LEMMA TotalArrived ==
  ASSUME ListInv, TotalInv, "reorder" \notin habits, NEW i \in DOMAIN calls, List!SeriesArrives(i)
  PROVE  TotalInv'
<1>1. /\ UNCHANGED <<habits, server>> /\ calls[i].kind = "series"
      /\ List!Arriving(habits, calls, i) /\ page \in ListPage
  BY DEF List!SeriesArrives, List!Arrives, ListInv
<1>2. PICK cs : cs = List!Rest(i)
  OBVIOUS
<1>3. /\ Latest(cs, "series") \subseteq Latest(calls, "series")
      /\ ~HasSeries(cs) => calls[i] \in Latest(calls, "series")
      /\ "hasty" \notin habits /\ (\E c \in Elems(calls) : c.kind \in Step) => Elems(cs) = {}
  BY <1>1, <1>2, TotalRest
<1>4. /\ Elems(cs) \subseteq Elems(calls) /\ calls[i] \in Elems(calls)
      /\ Elems(calls) \subseteq Elems(cs) \cup {calls[i]}
  BY <1>2, ListRest
<1>5. PICK series : series = calls[i].answer
  OBVIOUS
<1>6. PICK pg : pg = page'
  OBVIOUS
<1>7. IF List!Succeeds(calls[i])
      THEN pg = [page EXCEPT !.series = series, !.seriesLoading = FALSE]
      ELSE pg = [page EXCEPT !.seriesError = TRUE, !.seriesLoading = FALSE]
  BY <1>5, <1>6 DEF List!SeriesArrives
<1>8. /\ pg.rows = page.rows /\ pg.range = page.range /\ pg.excluded = page.excluded
      /\ pg.error = page.error /\ pg.modal = page.modal /\ ~pg.seriesLoading
      /\ IF List!Succeeds(calls[i]) THEN pg.series = series /\ pg.seriesError = page.seriesError
                                    ELSE pg.series = page.series /\ pg.seriesError
  BY ONLY <1>1, <1>7 DEF ListPage
<1>9. /\ List!Included(pg) = List!Included(page)
      /\ List!AsksNothing(pg) <=> List!AsksNothing(page)
  BY <1>8 DEF List!Included, List!AsksNothing
<1>10. ListAsked(pg) = ListAsked(page) /\ ListWanted(pg) = ListWanted(page)
  BY <1>8, <1>9 DEF ListAsked, ListWanted
<1>11. ASSUME ~pg.error
       PROVE  /\ RowsStored(pg, server, Elems(cs)) /\ DeletesRow(pg, Elems(cs))
              /\ DOMAIN pg.rows # {} => TotalFollows(habits, pg, server, cs)
  <2>1. /\ RowsStored(page, server, Elems(calls)) /\ DeletesRow(page, Elems(calls))
        /\ DOMAIN page.rows # {} => TotalFollows(habits, page, server, calls)
    BY <1>8, <1>11 DEF TotalInv, TotalLinked
  <2>2. RowsStored(pg, server, Elems(cs))
    BY <1>1, <1>4, <1>8, <2>1 DEF RowsStored
  <2>3. DeletesRow(pg, Elems(cs))
    BY <1>4, <1>8, <2>1 DEF DeletesRow
  <2>4. ASSUME DOMAIN pg.rows # {}
        PROVE  TotalFollows(habits, pg, server, cs)
    <3>1. TotalFollows(habits, page, server, calls)
      BY <1>8, <2>1, <2>4
    <3>2. HasSeries(calls)
      BY <1>1, <1>4 DEF HasSeries
    <3>3. ASSUME ~List!AsksNothing(pg)
          PROVE  TotalComes(pg, server, cs)
      <4>1. TotalComes(page, server, calls)
        BY <1>9, <3>1, <3>3 DEF TotalFollows
      <4>2. \/ HasSeries(cs) \/ pg.seriesError
            \/ DOMAIN pg.rows # StoredIn(server)
            \/ pg.series = ListWanted(pg)
        BY <1>3, <1>5, <1>8, <1>10, <4>1 DEF TotalComes, List!Succeeds
      <4>. QED BY <1>3, <1>8, <1>10, <4>1, <4>2 DEF TotalComes
    <3>. QED BY <1>8, <1>9, <3>1, <3>2, <3>3 DEF TotalFollows
  <2>. QED BY <2>2, <2>3, <2>4
<1>12. "hasty" \notin habits => \A c \in Elems(cs) : c.kind \notin Step
  BY <1>3, <1>4
<1>13. TotalLinked(habits, pg, server, cs)
  BY <1>11, <1>12 DEF TotalLinked
<1>14. calls' = cs
  BY <1>2 DEF List!SeriesArrives
<1>. QED BY <1>1, <1>6, <1>13, <1>14 DEF TotalInv

LEMMA LatestConcat ==
  ASSUME NEW S, NEW s \in Seq(S), NEW t \in Seq(S), NEW kind, \A c \in Elems(t) : c.kind # kind
  PROVE  Latest(s \o t, kind) \subseteq Latest(s, kind) /\ Elems(s) \subseteq Elems(s \o t)
<1>1. PICK u : u = s \o t
  OBVIOUS
<1>2. /\ u \in Seq(S) /\ Len(u) = Len(s) + Len(t)
      /\ \A j \in 1..(Len(s) + Len(t)) : u[j] = IF j <= Len(s) THEN s[j] ELSE t[j - Len(s)]
  BY <1>1, ConcatProperties
<1>3. /\ DOMAIN s = 1..Len(s) /\ DOMAIN t = 1..Len(t) /\ Len(s) \in Nat /\ Len(t) \in Nat
      /\ DOMAIN u = 1..(Len(s) + Len(t))
  BY <1>2
<1>4. \A j \in DOMAIN s : j \in DOMAIN u /\ u[j] = s[j]
  BY <1>2, <1>3
<1>5. ASSUME NEW j \in DOMAIN u, j \notin DOMAIN s
      PROVE  u[j].kind # kind
  <2>1. j - Len(s) \in DOMAIN t /\ u[j] = t[j - Len(s)]
    BY <1>2, <1>3, <1>5
  <2>. QED BY <2>1 DEF Elems
<1>6. \A j \in DOMAIN u : IsLatest(u, kind, j) => IsLatest(s, kind, j) /\ u[j] = s[j]
  BY <1>4, <1>5 DEF IsLatest
<1>7. Latest(u, kind) \subseteq Latest(s, kind)
  BY <1>6 DEF Latest, IsLatest
<1>8. Elems(s) \subseteq Elems(u)
  BY <1>4 DEF Elems
<1>. QED BY <1>1, <1>7, <1>8

\* The rows are those of the database.  If there are as many as before they are the same,
\* and the effect does not ask for a series: the one that is chosen is still the same.
LEMMA TotalListed ==
  ASSUME ListInv, TotalInv, "reorder" \notin habits, NEW i \in DOMAIN calls, List!ListArrives(i)
  PROVE  TotalInv'
<1>1. /\ UNCHANGED <<habits, server>> /\ calls[i].kind = "list" /\ calls[i].kind \in Step
      /\ List!Arriving(habits, calls, i)
      /\ server \in ListTables /\ page \in ListPage
      /\ RowsLinked(habits, page, server, Elems(calls))
  BY DEF List!ListArrives, List!Arrives, ListInv, Step
<1>2. CASE ~List!Succeeds(calls[i])
  <2>1. PICK pg : pg = [page EXCEPT !.error = TRUE, !.loading = FALSE]
    OBVIOUS
  <2>2. pg.error
    BY <1>1, <2>1 DEF ListPage
  <2>3. page' = pg /\ calls' = List!Rest(i)
    BY <1>2, <2>1 DEF List!ListArrives
  <2>. QED BY <1>1, <2>2, <2>3, TotalFails
<1>3. CASE List!Succeeds(calls[i])
  <2>1. calls[i].answer = NamesOf(server) /\ StoredIn(server) \in SUBSET Portfolio
    BY <1>1, <1>3, NamesTyped, ListRest DEF RowsLinked, RowAnswered, List!Succeeds
  <2>2. PICK rows : rows = [p \in DOMAIN calls[i].answer |->
                              [name |-> calls[i].answer[p], valuation |-> "loading"]]
    OBVIOUS
  <2>3. rows \in ListRows /\ DOMAIN rows = StoredIn(server)
    <3>1. NamesOf(server) \in ListNames
      BY <1>1, NamesTyped
    <3>. QED BY <2>1, <2>2, <3>1 DEF ListNames, ListRows, ListRow, NamesOf
  <2>4. PICK listed : listed = [page EXCEPT !.rows = rows, !.loading = FALSE]
    OBVIOUS
  <2>5. /\ listed \in ListPage /\ listed.rows = rows /\ listed.error = page.error
        /\ listed.modal = page.modal /\ listed.range = page.range
        /\ listed.excluded = page.excluded /\ listed.series = page.series
        /\ listed.seriesLoading = page.seriesLoading /\ listed.seriesError = page.seriesError
    BY ONLY <1>1, <2>3, <2>4 DEF ListPage
  <2>6. PICK rest \in Seq(ListCall) : rest = List!Rest(i)
    BY ListRest
  <2>7. /\ \A c \in Elems(rest) : c \in Elems(calls) /\ c.kind \notin Step
        /\ \A c \in Elems(calls) : c = calls[i] \/ c \in Elems(rest)
        /\ Latest(rest, "series") \subseteq Latest(calls, "series")
        /\ HasSeries(rest) <=> HasSeries(calls)
        /\ "hasty" \notin habits => Elems(rest) = {}
    <3>1. calls[i] \in Elems(calls)
      BY ListRest
    <3>2. /\ Elems(rest) \subseteq Elems(calls) /\ \A c \in Elems(rest) : c.kind \notin Step
          /\ Elems(calls) \subseteq Elems(rest) \cup {calls[i]}
      BY <1>1, <2>6, ListRest
    <3>. QED BY <1>1, <2>6, <3>1, <3>2, TotalRest
  <2>8. PICK cs \in Seq(ListCall) :
          /\ cs = List!SendAll(rest, "valuation", DOMAIN rows)
          /\ \A c \in Elems(cs) : c \in Elems(rest) \/ c.kind = "valuation"
          /\ Latest(cs, "series") \subseteq Latest(rest, "series")
          /\ Elems(rest) \subseteq Elems(cs)
    <3>1. PICK all \in Seq(ListCall) :
            /\ all = List!SendAll(rest, "valuation", DOMAIN rows)
            /\ \A c \in Elems(all) : c \in Elems(rest) \/ c.kind = "valuation"
            /\ \E t \in Seq(ListCall) : all = rest \o t /\ \A c \in Elems(t) : c.kind = "valuation"
      BY <2>1, <2>3, AllSent
    <3>2. PICK t \in Seq(ListCall) : all = rest \o t /\ \A c \in Elems(t) : c.kind = "valuation"
      BY <3>1
    <3>3. Latest(rest \o t, "series") \subseteq Latest(rest, "series")
          /\ Elems(rest) \subseteq Elems(rest \o t)
      <4>1. \A c \in Elems(t) : c.kind # "series"
        BY <3>2
      <4>. QED BY <4>1, LatestConcat
    <3>. QED BY <3>1, <3>2, <3>3
  <2>9. /\ \A c \in Elems(cs) : c.kind \notin Step
        /\ "hasty" \notin habits => \A c \in Elems(cs) : c.kind \notin Step \cup {"series"}
    BY <2>7, <2>8 DEF Step
  <2>10. SameSeries(calls, cs)
    BY <2>7, <2>8 DEF SameSeries, HasSeries
  <2>11. /\ ~page.error /\ DOMAIN page.rows \subseteq StoredIn(server)
         /\ page.modal # None /\ page.modal.type = "delete" =>
               page.modal.id \in StoredIn(server)
    <3>1. ~page.error /\ \A c \in Elems(calls) : c.kind # "delete"
      BY <1>1, <2>7, ListRest DEF RowsLinked, Step
    <3>. QED BY <3>1 DEF TotalInv, TotalLinked, RowsStored, DeletesRow
  <2>12. ASSUME NEW pg, pg.rows = rows, pg.modal = page.modal
         PROVE  RowsStored(pg, server, Elems(cs)) /\ DeletesRow(pg, Elems(cs))
    BY <2>3, <2>9, <2>11, <2>12 DEF RowsStored, DeletesRow, Step
  <2>13. List!Render(IF rows = List!NoRows THEN List!Cleared(listed) ELSE listed, cs, FALSE)
    BY <1>3, <2>2, <2>4, <2>5, <2>6, <2>8 DEF List!ListArrives, List!ValuationsDue
  <2>14. CASE rows = List!NoRows
    <3>1. PICK pg : pg = List!Cleared(listed)
      OBVIOUS
    <3>2. pg.rows = rows /\ pg.modal = page.modal /\ DOMAIN pg.rows = {}
      BY <2>5, <2>14, <3>1 DEF List!Cleared, ListPage, List!NoRows
    <3>3. page' = pg /\ calls' = cs
      BY <2>13, <2>14, <3>1, <3>2 DEF List!Render, List!SeriesDue
    <3>4. RowsStored(pg, server, Elems(cs)) /\ DeletesRow(pg, Elems(cs))
      BY <2>12, <3>2
    <3>5. TotalLinked(habits, pg, server, cs)
      BY <2>9, <3>2, <3>4 DEF TotalLinked
    <3>. QED BY <1>1, <3>3, <3>5 DEF TotalInv
  <2>15. CASE rows # List!NoRows
    <3>1. List!Render(listed, cs, FALSE)
      BY <2>13, <2>15
    <3>2. RowsStored(listed, server, Elems(cs)) /\ DeletesRow(listed, Elems(cs))
      BY <2>5, <2>12
    <3>3. CASE List!SeriesDue(listed, FALSE)
      <4>1. page' = List!SeriesPage(listed) /\ calls' = List!SeriesCalls(listed, cs)
        BY <3>1, <3>3 DEF List!Render
      <4>. QED BY <1>1, <2>5, <2>9, <2>11, <3>2, <4>1, TotalAsked
    <3>4. CASE ~List!SeriesDue(listed, FALSE)
      <4>1. page' = listed /\ calls' = cs
        BY <3>1, <3>4 DEF List!Render
      <4>2. List!Cardinality(DOMAIN rows) = List!Cardinality(DOMAIN page.rows)
        BY <2>5, <2>15, <3>4 DEF List!SeriesDue
      <4>3. Cardinality(DOMAIN rows) = Cardinality(DOMAIN page.rows)
        BY <4>2 DEF List!Cardinality, Cardinality
      <4>4. IsFiniteSet(StoredIn(server))
        BY <2>1, FrontendAssumption, FS_Subset
      <4>5. DOMAIN page.rows = StoredIn(server)
        BY <2>3, <2>11, <4>3, <4>4, FS_Subset
      <4>6. TotalSame(page, listed)
        BY <2>3, <2>5, <4>5 DEF TotalSame
      <4>7. \A c \in Elems(calls) \cup Elems(cs) : c.kind # "delete"
        BY <1>1, <2>7, <2>9 DEF Step
      <4>8. TotalLinked(habits, listed, server, cs)
        BY <2>5, <2>9, <2>10, <4>6, <4>7, TotalKept DEF TotalInv
      <4>. QED BY <1>1, <4>1, <4>8 DEF TotalInv
    <3>. QED BY <3>3, <3>4
  <2>. QED BY <2>14, <2>15
<1>. QED BY <1>2, <1>3

LEMMA TotalDeleted ==
  ASSUME ListInv, TotalInv, "reorder" \notin habits, NEW i \in DOMAIN calls, List!DeleteArrives(i)
  PROVE  TotalInv'
<1>1. /\ UNCHANGED <<habits, server>> /\ calls[i].kind = "delete" /\ calls[i].kind \in Step
      /\ List!Arriving(habits, calls, i) /\ page \in ListPage
      /\ calls[i] \in Elems(calls) /\ RowsLinked(habits, page, server, Elems(calls))
  BY ListRest DEF List!DeleteArrives, List!Arrives, ListInv, Step
<1>2. CASE ~List!Succeeds(calls[i])
  <2>1. PICK pg : pg = [page EXCEPT !.error = TRUE]
    OBVIOUS
  <2>2. pg.error
    BY <1>1, <2>1 DEF ListPage
  <2>3. page' = pg /\ calls' = List!Rest(i)
    BY <1>2, <2>1 DEF List!DeleteArrives
  <2>. QED BY <1>1, <2>2, <2>3, TotalFails
<1>3. CASE List!Succeeds(calls[i])
  <2>1. PICK p : p = calls[i].about.id
    OBVIOUS
  <2>2. PICK rows : rows = [q \in DOMAIN page.rows \ {p} |-> page.rows[q]]
    OBVIOUS
  <2>3. rows \in ListRows
    <3>1. PICK S \in SUBSET Portfolio : page.rows \in [S -> ListRow]
      BY <1>1 DEF ListPage, ListRows
    <3>2. S \ {p} \in SUBSET Portfolio /\ rows \in [S \ {p} -> ListRow]
      BY <2>2, <3>1
    <3>. QED BY <3>2 DEF ListRows
  <2>4. PICK deleted : deleted = [page EXCEPT !.rows = rows, !.excluded = page.excluded \ {p},
                                              !.modal = None]
    OBVIOUS
  <2>5. /\ deleted \in ListPage /\ deleted.rows = rows /\ deleted.error = page.error
        /\ deleted.modal = None
    BY ONLY <1>1, <2>3, <2>4 DEF ListPage
  <2>6. PICK cs \in Seq(ListCall) : cs = List!Rest(i)
    BY ListRest
  <2>7. /\ \A c \in Elems(cs) : c \in Elems(calls) /\ c.kind \notin Step
        /\ \A c \in Elems(calls) : c = calls[i] \/ c \in Elems(cs)
    BY <1>1, <2>6, ListRest
  <2>8. List!Orphaned(cs) = cs
    BY <2>7, ListOrphaned DEF Step
  <2>9. "hasty" \notin habits => \A c \in Elems(cs) : c.kind \notin Step \cup {"series"}
    BY <1>1, <2>6, TotalRest
  <2>10. ~page.error /\ calls[i].about.rows = page.rows
    BY <1>1 DEF RowsLinked, RowAnswered
  <2>11. ASSUME NEW q \in DOMAIN rows
         PROVE  q \in StoredIn(server)
    <3>1. q \in DOMAIN page.rows /\ q # p
      BY <2>2
    <3>2. RowsStored(page, server, Elems(calls))
      BY <2>10 DEF TotalInv, TotalLinked
    <3>. QED BY <2>1, <2>7, <3>1, <3>2 DEF RowsStored, Step
  <2>12. ASSUME NEW pg, pg.rows = rows, pg.modal = None
         PROVE  RowsStored(pg, server, Elems(cs)) /\ DeletesRow(pg, Elems(cs))
    BY <2>7, <2>11, <2>12 DEF RowsStored, DeletesRow, Step
  <2>13. List!Render(IF rows = List!NoRows THEN List!Cleared(deleted) ELSE deleted, cs, TRUE)
    <3>1. List!Without(calls[i].about.rows, calls[i].about.id) = rows
      BY <2>1, <2>2, <2>10 DEF List!Without
    <3>. QED BY <1>3, <2>1, <2>4, <2>5, <2>6, <2>8, <3>1 DEF List!DeleteArrives
  <2>14. CASE rows = List!NoRows
    <3>1. PICK pg : pg = List!Cleared(deleted)
      OBVIOUS
    <3>2. pg.rows = rows /\ pg.modal = None /\ DOMAIN pg.rows = {}
      BY <2>5, <2>14, <3>1 DEF List!Cleared, ListPage, List!NoRows
    <3>3. page' = pg /\ calls' = cs
      BY <2>13, <2>14, <3>1, <3>2 DEF List!Render, List!SeriesDue
    <3>4. RowsStored(pg, server, Elems(cs)) /\ DeletesRow(pg, Elems(cs))
      BY <2>12, <3>2
    <3>5. TotalLinked(habits, pg, server, cs)
      BY <2>7, <3>2, <3>4 DEF TotalLinked
    <3>. QED BY <1>1, <3>3, <3>5 DEF TotalInv
  <2>15. CASE rows # List!NoRows
    <3>1. page' = List!SeriesPage(deleted) /\ calls' = List!SeriesCalls(deleted, cs)
      BY <2>5, <2>13, <2>15 DEF List!Render, List!SeriesDue
    <3>2. RowsStored(deleted, server, Elems(cs)) /\ DeletesRow(deleted, Elems(cs))
      BY <2>5, <2>12
    <3>. QED BY <1>1, <2>5, <2>9, <2>10, <3>1, <3>2, TotalAsked
  <2>. QED BY <2>14, <2>15
<1>. QED BY <1>2, <1>3

\* The answers that are not about the chart.
LEMMA TotalUnmoved ==
  ASSUME ListInv, TotalInv, "reorder" \notin habits, NEW i \in DOMAIN calls,
         \/ List!ValuationArrives(i) \/ List!SaveArrives(i) \/ List!ImportArrives(i)
         \/ List!RecalculateArrives(i) \/ List!ExportArrives(i)
  PROVE  TotalInv'
<1>1. /\ UNCHANGED <<habits, server>> /\ List!Arriving(habits, calls, i)
      /\ calls[i].kind \notin {"series", "delete"} /\ page \in ListPage
      /\ calls[i] \in Elems(calls) /\ RowsLinked(habits, page, server, Elems(calls))
  BY ListRest DEF List!ValuationArrives, List!SaveArrives, List!ImportArrives,
     List!RecalculateArrives, List!ExportArrives, List!Arrives, ListInv
<1>2. CASE List!ValuationArrives(i)
  <2>1. PICK rows : rows = [page.rows EXCEPT ![calls[i].about].valuation =
                              IF List!Succeeds(calls[i]) THEN "shown" ELSE "error"]
    OBVIOUS
  <2>2. DOMAIN rows = DOMAIN page.rows
    BY <2>1
  <2>3. PICK pg : pg = page'
    OBVIOUS
  <2>4. pg = page \/ pg = [page EXCEPT !.rows = rows]
    BY <1>1, <1>2, <2>1, <2>3 DEF List!ValuationArrives, ListPage
  <2>5. TotalSame(page, pg) /\ pg.modal = page.modal
    BY ONLY <1>1, <2>2, <2>4 DEF ListPage, TotalSame
  <2>6. calls' = List!Rest(i)
    BY <1>2 DEF List!ValuationArrives
  <2>. QED BY <1>1, <2>3, <2>5, <2>6, TotalGoesOn
<1>3. CASE List!SaveArrives(i)
  <2>1. PICK rows : rows = List!Renamed(calls[i].about.id, calls[i].answer)
    OBVIOUS
  <2>2. DOMAIN rows = DOMAIN page.rows
    BY <2>1 DEF List!Renamed
  <2>3. PICK pg : pg = page'
    OBVIOUS
  <2>4. \/ pg = [page EXCEPT !.left = TRUE, !.modal = None]
        \/ pg = [page EXCEPT !.rows = rows, !.modal = None]
        \/ pg = [page EXCEPT !.modal.working = FALSE] /\ page.modal \in ListModal
        \/ pg = page
    <3>1. calls[i].about.form => page.modal \in ListModal
      BY <1>1, <1>3 DEF RowsLinked, RowAnswered, List!SaveArrives, List!Arrives
    <3>. QED BY <1>3, <2>1, <2>3, <3>1 DEF List!SaveArrives
  <2>5. /\ TotalSame(page, pg)
        /\ \/ pg.modal = None
           \/ page.modal # None /\ pg.modal.type = page.modal.type /\ pg.modal.id = page.modal.id
    <3>1. PICK modal : modal = [page.modal EXCEPT !.working = FALSE]
      OBVIOUS
    <3>2. page.modal \in ListModal => modal.type = page.modal.type /\ modal.id = page.modal.id
      BY <3>1 DEF ListModal
    <3>6. None \notin ListModal
      BY FrontendAssumption DEF ListModal
    <3>3. CASE pg = [page EXCEPT !.modal.working = FALSE] /\ page.modal \in ListModal
      <4>1. pg = [page EXCEPT !.modal = modal]
        BY <1>1, <3>1, <3>3 DEF ListPage
      <4>2. TotalSame(page, pg) /\ pg.modal = modal
        BY ONLY <1>1, <4>1 DEF ListPage, TotalSame
      <4>. QED BY <3>2, <3>3, <3>6, <4>2
    <3>4. CASE \/ pg = [page EXCEPT !.left = TRUE, !.modal = None]
               \/ pg = [page EXCEPT !.rows = rows, !.modal = None]
      BY ONLY <1>1, <2>2, <3>4 DEF ListPage, TotalSame
    <3>5. CASE pg = page
      BY <3>5 DEF TotalSame
    <3>. QED BY <2>4, <3>3, <3>4, <3>5
  <2>6. calls' = List!Rest(i)
    <3>1. PICK cs \in Seq(ListCall) : cs = List!Rest(i)
      BY ListRest
    <3>2. \A c \in Elems(cs) : c.kind \notin {"create", "edit"}
      BY <1>3, <3>1, ListRest DEF List!SaveArrives, List!Arrives, Step
    <3>3. List!Orphaned(cs) = cs
      BY <3>2, ListOrphaned
    <3>. QED BY <1>3, <3>1, <3>3 DEF List!SaveArrives
  <2>. QED BY <1>1, <2>3, <2>5, <2>6, TotalGoesOn
<1>4. CASE List!ImportArrives(i) \/ List!RecalculateArrives(i) \/ List!ExportArrives(i)
  <2>1. PICK pg : pg = page'
    OBVIOUS
  <2>2. pg = page \/ pg = [page EXCEPT !.dialog = "open"]
    BY <1>4, <2>1 DEF List!ImportArrives, List!RecalculateArrives, List!ExportArrives
  <2>3. TotalSame(page, pg) /\ pg.modal = page.modal
    BY ONLY <1>1, <2>2 DEF ListPage, TotalSame
  <2>4. PICK cs \in Seq(ListCall) : cs = List!Rest(i)
    BY ListRest
  <2>5. CASE calls' = cs
    BY <1>1, <2>1, <2>3, <2>4, <2>5, TotalGoesOn
  <2>6. CASE \E kind \in {"list", "recalculate"} : calls' = List!Send(cs, kind, None)
    <3>1. PICK kind \in {"list", "recalculate"} : calls' = List!Send(cs, kind, None)
      BY <2>6
    <3>2. PICK c : c = [kind |-> kind, about |-> None, status |-> "sent", answer |-> None]
      OBVIOUS
    <3>3. c \in ListCall /\ c.kind \in Step /\ c.kind # "delete"
      BY <3>2 DEF ListCall, Status, Step
    <3>4. calls' = Append(cs, c)
      BY <3>1, <3>2 DEF List!Send, List!Call
    <3>5. /\ Latest(cs, "series") \subseteq Latest(calls, "series")
          /\ HasSeries(cs) <=> HasSeries(calls)
          /\ "hasty" \notin habits => Elems(cs) = {} /\ Len(cs) = 0
      <4>1. calls[i].kind \in Step
        BY <1>4 DEF List!ImportArrives, List!RecalculateArrives, List!ExportArrives,
           List!Arrives, Step
      <4>. QED BY <1>1, <2>4, <4>1, TotalRest
    <3>6. /\ Elems(cs) \subseteq Elems(calls)
          /\ Elems(calls) \subseteq Elems(cs) \cup {calls[i]}
      BY <2>4, ListRest
    <3>7. TotalLinked(habits, page, server, cs)
      <4>1. TotalSame(page, page) /\ SameSeries(calls, cs)
        BY <3>5 DEF TotalSame, SameSeries
      <4>. QED BY <1>1, <3>5, <3>6, <4>1, TotalKept DEF TotalInv
    <3>. QED BY <1>1, <2>1, <2>3, <3>3, <3>4, <3>5, <3>7, TotalSends
  <2>. QED BY <1>4, <2>4, <2>5, <2>6
       DEF List!ImportArrives, List!RecalculateArrives, List!ExportArrives
<1>. QED BY <1>2, <1>3, <1>4

LEMMA TotalUser ==
  ASSUME ListInv, TotalInv, "multitask" \notin habits, List!User
  PROVE  TotalInv'
<1>1. /\ page \in ListPage /\ calls \in Seq(ListCall)
      /\ TotalLinked(habits, page, server, calls)
  BY DEF ListInv, TotalInv
<1>2. UNCHANGED <<habits, server>> /\ List!Usable
  BY DEF List!User, List!SelectRange, List!ToggleExcluded, List!OpenModal, List!CloseModal,
     List!Save, List!ConfirmDelete, List!OpenOrCloseDialog, List!Transfer,
     List!UserChooses, List!UserChanges
<1>3. /\ ~page.error /\ RowsStored(page, server, Elems(calls)) /\ DeletesRow(page, Elems(calls))
  BY <1>1, <1>2 DEF TotalLinked, List!Usable
\* A choice, which is asked about.
<1>4. ASSUME NEW pg \in ListPage, NEW chosen, List!Render(pg, calls, chosen), List!SeriesDue(pg, chosen),
             pg.rows = page.rows, pg.modal = page.modal, pg.error = page.error, List!UserChooses
      PROVE  TotalInv'
  <2>1. page' = List!SeriesPage(pg) /\ calls' = List!SeriesCalls(pg, calls)
    BY <1>4 DEF List!Render
  <2>2. "hasty" \notin habits => Elems(calls) = {}
    BY <1>4, ElemsNone DEF List!UserChooses, List!Chooses
  <2>3. RowsStored(pg, server, Elems(calls)) /\ DeletesRow(pg, Elems(calls))
    BY <1>3, <1>4 DEF RowsStored, DeletesRow
  <2>. QED BY <1>1, <1>2, <1>3, <1>4, <2>1, <2>2, <2>3, TotalAsked
<1>5. ASSUME NEW r \in Period, List!SelectRange(r)
      PROVE  TotalInv'
  <2>1. PICK pg : pg = [page EXCEPT !.range = r] /\ List!Render(pg, calls, FALSE)
    BY <1>5 DEF List!SelectRange
  <2>2. pg \in ListPage /\ pg.rows = page.rows /\ pg.modal = page.modal /\ pg.error = page.error
        /\ pg.range = r
    BY ONLY <1>1, <2>1, r \in Period DEF ListPage, ListPeriod
  <2>3. List!SeriesDue(pg, FALSE) /\ List!UserChooses
    BY <1>5, <2>2 DEF List!SelectRange, List!SeriesDue
  <2>. QED BY <1>4, <2>1, <2>2, <2>3
<1>6. ASSUME NEW p \in Portfolio, List!ToggleExcluded(p)
      PROVE  TotalInv'
  <2>1. PICK excluded : excluded = IF p \in page.excluded THEN page.excluded \ {p}
                                   ELSE page.excluded \cup {p}
    OBVIOUS
  <2>2. PICK pg : pg = [page EXCEPT !.excluded = excluded] /\ List!Render(pg, calls, TRUE)
    BY <1>6, <2>1 DEF List!ToggleExcluded
  <2>3. excluded \in SUBSET Portfolio
    BY <1>1, <2>1 DEF ListPage
  <2>4. pg \in ListPage /\ pg.rows = page.rows /\ pg.modal = page.modal /\ pg.error = page.error
    BY ONLY <1>1, <2>2, <2>3 DEF ListPage
  <2>5. List!SeriesDue(pg, TRUE) /\ List!UserChooses
    BY <1>6, <2>4 DEF List!ToggleExcluded, List!SeriesDue, List!NoRows
  <2>. QED BY <1>4, <2>2, <2>4, <2>5
\* What is open, while the same calls are under way.
<1>7. ASSUME NEW pg, page' = pg, TotalSame(page, pg), calls' = calls,
             pg.modal # None /\ pg.modal.type = "delete" =>
                pg.modal.id \in DOMAIN page.rows \/ pg.modal = page.modal
      PROVE  TotalInv'
  <2>1. SameSeries(calls, calls)
    BY DEF SameSeries
  <2>2. "hasty" \notin habits /\ (\E c \in Elems(calls) : c.kind \in Step) => Len(calls) = 1
    BY <1>1 DEF TotalLinked
  <2>3. TotalLinked(habits, pg, server, calls)
    BY <1>1, <1>7, <2>1, <2>2, TotalKept
  <2>. QED BY <1>2, <1>7, <2>3 DEF TotalInv
<1>8. ASSUME NEW type \in {"create", "edit", "delete"}, NEW p \in Portfolio \cup {None},
             List!OpenModal(type, p)
      PROVE  TotalInv'
  <2>1. PICK modal : modal = [type |-> type, id |-> p, working |-> FALSE]
    OBVIOUS
  <2>2. PICK pg : pg = [page EXCEPT !.modal = modal]
    OBVIOUS
  <2>3. TotalSame(page, pg) /\ pg.modal = modal
    BY ONLY <1>1, <2>2 DEF ListPage, TotalSame
  <2>4. page' = pg /\ calls' = calls /\ (type = "delete" => p \in DOMAIN page.rows)
    BY <1>8, <2>1, <2>2 DEF List!OpenModal
  <2>. QED BY <1>7, <2>1, <2>3, <2>4
<1>9. ASSUME List!OpenOrCloseDialog
      PROVE  TotalInv'
  <2>1. PICK dialog : page' = [page EXCEPT !.dialog = dialog] /\ calls' = calls
    BY <1>9 DEF List!OpenOrCloseDialog
  <2>2. PICK pg : pg = [page EXCEPT !.dialog = dialog]
    OBVIOUS
  <2>3. TotalSame(page, pg) /\ pg.modal = page.modal
    BY ONLY <1>1, <2>2 DEF ListPage, TotalSame
  <2>. QED BY <1>7, <2>1, <2>2, <2>3
<1>10. ASSUME List!CloseModal
       PROVE  TotalInv'
  <2>1. PICK pg, os : pg = [page EXCEPT !.modal = None] /\ os = List!Orphaned(calls)
    OBVIOUS
  <2>2. page' = pg /\ calls' = os
    BY <1>10, <2>1 DEF List!CloseModal
  <2>3. TotalSame(page, pg) /\ pg.modal = None
    BY ONLY <1>1, <2>1 DEF ListPage, TotalSame
  <2>4. /\ os \in Seq(ListCall) /\ DOMAIN os = DOMAIN calls
        /\ \A j \in DOMAIN calls :
              /\ os[j].kind = calls[j].kind
              /\ calls[j].kind \notin {"create", "edit"} => os[j] = calls[j]
    BY <1>1, <2>1, ListOrphaned
  <2>5. Latest(os, "series") \subseteq Latest(calls, "series")
    BY <2>4 DEF Latest, IsLatest
  <2>6. SameSeries(calls, os)
    BY <2>4, <2>5 DEF SameSeries, HasSeries, Elems
  <2>7. /\ \A c \in Elems(calls) : c.kind = "delete" => c \in Elems(os)
        /\ \A c \in Elems(os) : c.kind = "delete" => c \in Elems(calls)
        /\ (\E c \in Elems(os) : c.kind \in Step) => \E c \in Elems(calls) : c.kind \in Step
    BY <2>4 DEF Elems
  <2>8. Len(os) = Len(calls)
    BY <1>1, <2>4
  <2>9. "hasty" \notin habits /\ (\E c \in Elems(os) : c.kind \in Step) => Len(os) = 1
    BY <1>1, <2>7, <2>8 DEF TotalLinked
  <2>10. TotalLinked(habits, pg, server, os)
    BY <1>1, <2>3, <2>6, <2>7, <2>9, TotalKept
  <2>. QED BY <1>2, <2>2, <2>10 DEF TotalInv
\* A change is sent when nothing is under way.
<1>11. ASSUME NEW pg, page' = pg, TotalSame(page, pg), List!UserChanges,
              pg.modal # None /\ pg.modal.type = "delete" =>
                 page.modal # None /\ page.modal.type = "delete" /\ pg.modal.id = page.modal.id,
              NEW c \in ListCall, c.kind \in Step,
              c.kind = "delete" => c.about.id \in DOMAIN page.rows, calls' = Append(calls, c)
       PROVE  TotalInv'
  <2>1. Len(calls) = 0
    BY <1>11 DEF List!UserChanges, List!Changes
  <2>. QED BY <1>1, <1>2, <1>11, <2>1, TotalSends
<1>12. ASSUME NEW name \in Name, List!Save(name)
       PROVE  TotalInv'
  <2>1. page.modal \in ListModal /\ page.modal.type \in {"create", "edit"}
    BY <1>1, <1>12 DEF List!Save, ListPage
  <2>2. PICK modal : modal = [page.modal EXCEPT !.working = TRUE]
    OBVIOUS
  <2>3. modal.type # "delete"
    BY <2>1, <2>2 DEF ListModal
  <2>4. PICK pg : pg = [page EXCEPT !.modal = modal]
    OBVIOUS
  <2>5. TotalSame(page, pg) /\ pg.modal = modal
    BY ONLY <1>1, <2>4 DEF ListPage, TotalSame
  <2>6. page' = pg
    BY <1>1, <1>12, <2>2, <2>4 DEF List!Save, ListPage
  <2>7. PICK c : c = [kind |-> page.modal.type, status |-> "sent", answer |-> None,
                      about |-> [id |-> page.modal.id, name |-> name, form |-> TRUE]]
    OBVIOUS
  <2>8. c \in ListCall /\ c.kind \in Step /\ c.kind # "delete"
    BY <2>1, <2>7 DEF ListCall, ListForm, ListModal, Status, Step
  <2>9. List!UserChanges /\ calls' = Append(calls, c)
    BY <1>12, <2>7 DEF List!Save, List!Send, List!Call
  <2>. QED BY <1>11, <2>3, <2>5, <2>6, <2>8, <2>9
<1>13. ASSUME List!ConfirmDelete
       PROVE  TotalInv'
  <2>1. page.modal \in ListModal /\ page.modal # None /\ page.modal.type = "delete"
    BY <1>1, <1>13 DEF List!ConfirmDelete, ListPage
  <2>2. PICK modal : modal = [page.modal EXCEPT !.working = TRUE]
    OBVIOUS
  <2>3. modal.id = page.modal.id
    BY <2>1, <2>2 DEF ListModal
  <2>4. PICK pg : pg = [page EXCEPT !.modal = modal]
    OBVIOUS
  <2>5. TotalSame(page, pg) /\ pg.modal = modal
    BY ONLY <1>1, <2>4 DEF ListPage, TotalSame
  <2>6. page' = pg
    BY <1>1, <1>13, <2>2, <2>4 DEF List!ConfirmDelete, ListPage
  <2>7. PICK c : c = [kind |-> "delete", status |-> "sent", answer |-> None,
                      about |-> [id |-> page.modal.id, rows |-> page.rows]]
    OBVIOUS
  <2>8. c \in ListCall /\ c.kind \in Step
    BY <1>1, <2>1, <2>7 DEF ListCall, ListPage, ListModal, Status, Step
  <2>9. c.about.id \in DOMAIN page.rows
    BY <1>3, <2>1, <2>7 DEF DeletesRow
  <2>10. List!UserChanges /\ calls' = Append(calls, c)
    BY <1>13, <2>7 DEF List!ConfirmDelete, List!Send, List!Call
  <2>. QED BY <1>11, <2>1, <2>3, <2>5, <2>6, <2>8, <2>9, <2>10
<1>14. ASSUME NEW kind \in {"import", "export"}, List!Transfer(kind)
       PROVE  TotalInv'
  <2>1. PICK pg : pg = [page EXCEPT !.dialog = "working"]
    OBVIOUS
  <2>2. TotalSame(page, pg) /\ pg.modal = page.modal
    BY ONLY <1>1, <2>1 DEF ListPage, TotalSame
  <2>3. PICK c : c = [kind |-> kind, status |-> "sent", answer |-> None, about |-> None]
    OBVIOUS
  <2>4. c \in ListCall /\ c.kind \in Step /\ c.kind # "delete"
    BY <2>3 DEF ListCall, Status, Step
  <2>5. page' = pg /\ List!UserChanges /\ calls' = Append(calls, c)
    BY <1>14, <2>1, <2>3 DEF List!Transfer, List!Send, List!Call
  <2>. QED BY <1>11, <2>2, <2>4, <2>5
<1>. QED BY <1>5, <1>6, <1>8, <1>9, <1>10, <1>12, <1>13, <1>14 DEF List!User

TotalAlways ==
    view = "list" /\ habits \cap {"multitask", "reorder"} = {} => TotalInv

\* When all is answered, the chart of the start page shows the total of the portfolios
\* that are included for the range that is selected, or says that it failed: for any
\* number of portfolios and ranges, also when the user does not wait for the answers.
THEOREM ListChartAtRest == Spec => []ListChartFollowsChoice
<1>1. Init => TotalAlways
  BY InitTotal DEF Init, TotalAlways
<1>2. ASSUME ListAlways, TotalAlways, Next
      PROVE  TotalAlways'
  <2>1. ASSUME ListInv, TotalInv, "multitask" \notin habits, "reorder" \notin habits, List!Next
        PROVE  TotalInv'
    BY <2>1, TotalServed, TotalLost, TotalListed, TotalArrived, TotalDeleted, TotalUnmoved, TotalUser
    DEF List!Next, List!Network
  <2>. QED BY <1>2, <2>1, ListHabits DEF Next, ListAlways, TotalAlways
<1>3. ASSUME TotalAlways, UNCHANGED vars
      PROVE  TotalAlways'
  BY <1>3 DEF vars, TotalAlways, TotalInv
<1>4. TotalAlways => ListChartFollowsChoice
  <2>1. ASSUME TotalInv, List!AtRest, page.rows # List!NoRows, DOMAIN page.rows = StoredIn(server),
               "hasty" \in habits => List!Included(page) # {}
        PROVE  /\ ~page.seriesLoading
               /\ \/ page.seriesError
                  \/ page.series = IF List!AsksNothing(page) THEN None ELSE ListWanted(page)
    <3>1. calls = <<>> /\ Elems(calls) = {} /\ ~page.error
      BY <2>1, ElemsNone DEF List!AtRest, List!Usable
    <3>2. ~HasSeries(calls)
      BY <3>1 DEF HasSeries
    <3>3. DOMAIN page.rows # {}
      BY <2>1 DEF List!NoRows
    <3>4. TotalFollows(habits, page, server, calls)
      BY <2>1, <3>1, <3>3 DEF TotalInv, TotalLinked
    <3>. QED BY <2>1, <3>2, <3>4 DEF TotalFollows, TotalComes, List!AsksNothing
  <2>2. List!Stored = StoredIn(server)
    BY DEF List!Stored, List!Deleted, StoredIn
  <2>. QED BY <2>1, <2>2
       DEF TotalAlways, ListChartFollowsChoice, List!ChartFollowsChoice, ListWanted
<1>5. (ListAlways /\ TotalAlways) /\ [Next]_vars => TotalAlways'
  BY <1>2, <1>3
<1>. QED BY <1>1, <1>4, <1>5, ListIsAlways, PTL DEF Spec
================================================================================
