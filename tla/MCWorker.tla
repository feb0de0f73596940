------------------------------ MODULE MCWorker ------------------------------
(* An instance of Worker for TLC: one setup per store, since each is kept   *)
(* from the others by nothing but the order the worker feeds them in.       *)
EXTENDS Worker

Other(service, template, severity) ==
    [service |-> service, template |-> template, severity |-> severity]

Trace(id, age, spans, others) == [id |-> id, age |-> age, spans |-> spans, others |-> others]

Spanned(id, key, dur) == [id |-> id, key |-> key, dur |-> dur]
Key(service, template) == [service |-> service, template |-> template]

Setup(stores, batches, most, until) ==
    [stores |-> stores, batches |-> batches, most |-> most, until |-> until, windows |-> {}]

Fast(id) == Spanned(id, Key("a", "p"), 0)
Found == {Other("a", "p", 2)}

\* Three traces in fragments that overlap, two of them in one batch with a
\* trace nothing points at.
Fragments ==
    LET Flushed(t, ids) == Trace(t, 0, [i \in DOMAIN ids |-> Fast(ids[i])], Found)
    IN  {<<Flushed(t, ids)>> : t \in 1..3, ids \in {<<1, 2>>, <<2, 3>>}}
        \cup {<<Flushed(1, <<4>>), Flushed(2, <<4, 5>>)>>,
              <<Flushed(2, <<4>>), Trace(4, 0, <<Fast(1)>>, {}), Flushed(3, <<1>>)>>}

\* Findings of two services and two severities, one or two to a batch.
Graded ==
    LET Of(t, others) == Trace(t, 0, <<Fast(1)>>, others)
    IN  {<<Of(t, {Other("a", "p", t)})>> : t \in 1..2}
        \cup {<<Of(1, {Other("b", "p", 1)})>>,
              <<Of(3, {Other("a", "p", 2), Other("a", "q", 1)})>>}

Window == {[service |-> "a", from |-> 2, to |-> 3]}

\* One slow span in a trace of its own, or two of one template.
Slow ==
    LET At(t, key, dur) == Trace(t, 0, <<Spanned(1, key, dur)>>, {})
    IN  {<<At(1, Key("a", "p"), 2)>>, <<At(2, Key("a", "p"), 2)>>, <<At(1, Key("a", "p"), 9)>>,
         <<At(3, Key("a", "q"), 2)>>,
         <<At(1, Key("a", "p"), 2), At(2, Key("b", "p"), 2)>>}

\* Findings of three services that started now or some time ago.
Chained ==
    LET Of(t, age, service) == Trace(t, age, <<>>, {Other(service, "p", 2)})
    IN  {<<Of(1, 0, "a")>>, <<Of(1, 1, "a")>>, <<Of(2, 0, "b")>>, <<Of(2, 1, "b")>>,
         <<Of(1, 0, "a"), Of(2, 0, "b")>>, <<Of(1, 1, "a"), Of(3, 0, "c")>>}

\* Pairs that come, stay away and come back, and a source on its own.
Returning ==
    LET Of(t, service) == Trace(t, 0, <<>>, {Other(service, "p", 2)})
    IN  {<<Of(1, "a")>>, <<Of(1, "a"), Of(2, "b")>>, <<Of(2, "b"), Of(3, "c")>>}

\* Calls of a service with the parameters given, one after the other, from
\* one endpoint; what a batch changes of it is said where it does.
Call(i, service, params) ==
    [id |-> i, key |-> Key(service, "p"), dur |-> 1, at |-> i, parent |-> NoParent, kind |-> "sql",
     session |-> FALSE, params |-> params, marked |-> TRUE, orm |-> FALSE,
     endpoint |-> "e", grouping |-> NoGrouping]

Calls(n, Of(_)) == Trace(1, 0, [i \in 1..n |-> Of(i)], {})

\* Four calls of one template by their parameters, from one endpoint and
\* service or from two, in the window of detection or past it.
Repeated ==
    {<<Calls(4, LAMBDA i : [Call(i, IF two /\ i = 2 THEN 2 ELSE 1, params[i]) EXCEPT
                              !.endpoint = IF two /\ i > 1 THEN "f" ELSE "e",
                              !.at = IF i = 4 THEN last ELSE i])>> :
       params \in [1..4 -> {"x", "y", "z"}], two \in BOOLEAN, last \in {4, 20}}

\* Calls whose parameters are gone, by the signs that tell them from repeats.
Sanitized ==
    {<<Calls(n, LAMBDA i : [Call(i, 1, NoParams) EXCEPT
                              !.kind = kind, !.orm = orm, !.marked = marked, !.parent = parent,
                              !.dur = IF varies /\ i = n THEN 9 ELSE 1,
                              !.at = IF together THEN 1 ELSE i])>> :
       n \in {2, 3, 9}, kind \in {"sql", "http", "messaging"}, orm \in BOOLEAN, marked \in BOOLEAN,
       parent \in {"root", NoParent}, varies \in BOOLEAN, together \in BOOLEAN}

\* Two fragments of one trace, or two traces, each with two calls of two
\* parameters; and session statements among calls.
Split ==
    {<<Calls(4, LAMBDA i : Call(i, 1, IF i < 3 THEN "x" ELSE "y")),
       [Calls(4, LAMBDA i : Call(i, 1, IF i < 3 THEN "x" ELSE "z")) EXCEPT !.id = id]>> : id \in 1..2}
    \cup {<<Calls(4, LAMBDA i : [Call(i, 1, NoParams) EXCEPT !.session = i > k])>> : k \in 0..3}

\* Repeats by three services in two groupings, on their own or together.
Labelled ==
    LET Of(service, grouping) ==
            Calls(3, LAMBDA i : [Call(i, service, "x") EXCEPT !.grouping = grouping])
    IN  {<<Of(s, g)>> : s \in 1..3, g \in 0..2}
        \cup {<<Calls(4, LAMBDA i : [Call(i, ((i + s) % 3) + 1, "x") EXCEPT !.grouping = g])>> :
                 s \in 0..2, g \in 1..2}

\* Four calls of two templates under one parent, by when they start and how
\* long they last; the last may be a session statement or another service's.
Timed(starts, durs) ==
    {<<Calls(4, LAMBDA i : [Call(i, IF last = "other" /\ i = 4 THEN 2 ELSE 1, "x") EXCEPT
                              !.key.template = IF i \in 2..3 THEN "q" ELSE "p", !.parent = "root",
                              !.session = last = "session" /\ i = 4,
                              !.at = at[i], !.dur = dur[i]])>> :
       at \in {a \in [1..4 -> starts] : \A i \in 1..3 : a[i] <= a[i + 1]}, dur \in [1..4 -> durs],
       last \in {"call", "session", "other"}}

ByName ==
    [traces     |-> Setup({"traces"}, Fragments, 4, 0),
     findings   |-> [Setup({"findings"}, Graded, 4, 2) EXCEPT !.windows = Window],
     slow       |-> Setup({"slow"}, Slow, 4, 6),
     correlator |-> Setup({"correlator"}, Chained, 3, 6),
     episodes   |-> Setup({"correlator", "episodes"}, Returning, 3, 6),
     broker     |-> Setup({"broker"}, {}, 0, 12),
     waste      |-> Setup({"waste"}, Repeated \cup Sanitized \cup Split, 1, 0),
     labels     |-> Setup({"waste"}, Labelled, 3, 0),
     structure  |-> Setup({"structure"}, Timed(0..2, 1..3), 1, 0)]

\* As a function, which TLC evaluates once and for all.
Stores == [name \in DOMAIN ByName |-> ByName[name]]

\* Spans of a cache or a driver that round down to no time at all.
Instants == [instants |-> Setup({"structure"}, Timed(0..1, 0..2), 1, 0)]
=============================================================================
