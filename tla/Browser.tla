-------------------------------- MODULE Browser --------------------------------
(***************************************************************************)
(* What the views of the browser have in common: the requests a view has   *)
(* sent through api/client.ts, oldest first.  A call has a kind, what it   *)
(* is about (its parameters, and what its continuation keeps of the render *)
(* it was made in), and an answer once the backend has handled it.         *)
(***************************************************************************)
EXTENDS Naturals, FiniteSets, Sequences, Functions

CONSTANTS
    MaxCalls,   \* bound: a user does nothing with this many calls under way
    None

\* "hasty"      the user chooses, types, opens and closes while calls are under way
\* "close"      the user closes a form that is being saved
\* "multitask"  the user has the backend change something while calls are under way
\* "reorder"    calls of one kind overtake each other
\* "fail"       calls fail, before or after the backend has handled them
Habits == {"hasty", "close", "multitask", "reorder", "fail"}

Call(kind, about) == [kind |-> kind, about |-> about, status |-> "sent", answer |-> None]
Send(cs, kind, about) == Append(cs, Call(kind, about))

\* A set as a sequence, in any one order.
Ordered(S) == CHOOSE s \in [1..Cardinality(S) -> S] : IsInjective(s)

\* All calls of a set of parameters.
SendAll(cs, kind, abouts) ==
    cs \o [i \in 1..Cardinality(abouts) |-> Call(kind, Ordered(abouts)[i])]

\* Call i is no longer under way.
RemoveAt(cs, i) == SubSeq(cs, 1, i - 1) \o SubSeq(cs, i + 1, Len(cs))

\* Calls of one kind are handled and answered in turn, unless they overtake each other.
InTurn(habits, cs, i) ==
    \/ "reorder" \in habits
    \/ \A j \in 1..(i - 1) : cs[j].kind # cs[i].kind

Waiting(habits, cs, i)  == cs[i].status = "sent" /\ InTurn(habits, cs, i)
Arriving(habits, cs, i) == cs[i].status # "sent" /\ InTurn(habits, cs, i)
Succeeds(c) == c.status = "served"

\* The backend has handled call i.
Served(cs, i, answer) == [cs EXCEPT ![i].status = "served", ![i].answer = answer]

\* Call i fails: the backend refuses it, or the network loses it or its answer.
Lost(cs, i) == [cs EXCEPT ![i].status = "failed", ![i].answer = None]

Chooses(habits, cs) == Len(cs) < MaxCalls /\ ("hasty" \in habits \/ cs = <<>>)
Changes(habits, cs) == Len(cs) < MaxCalls /\ ("multitask" \in habits \/ cs = <<>>)
================================================================================
