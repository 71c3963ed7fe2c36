--------------------------- MODULE MCServiceRequest ---------------------------
(***************************************************************************)
(* Bodies for ServiceRequest: one request written in several ways, things  *)
(* that are almost requests, literals that look like punctuation, and all  *)
(* of what damage at one place can make of a document.                     *)
(***************************************************************************)
EXTENDS ServiceRequest

View == "https://aggregator.example/transformations#QueryView"
Query == "#QueryParameter"
Source == "#SourceParameter"
Service == "https://aggregator.example/requested-service"
Function == "https://aggregator.example/applied"

\* The last four are declared by the documents.
Names ==
  ("aggr:Service" :> "aggregator#Service") @@ ("aggr:performs" :> "aggregator#performs") @@
  ("aggr:applies" :> "aggregator#applies") @@ ("fno:AppliedFunction" :> "ontology#AppliedFunction") @@
  ("fnoc:applies" :> "composition#applies") @@
  ("fnoc:parameterBindings" :> "composition#parameterBindings") @@
  ("fnoc:boundParameter" :> "composition#boundParameter") @@
  ("fnoc:boundToTerm" :> "composition#boundToTerm") @@
  ("old:applies" :> "0.1.0/applies") @@ ("old:parameterBindings" :> "0.1.0/parameterBindings") @@
  ("old:boundParameter" :> "0.1.0/boundParameter") @@ ("old:boundToTerm" :> "0.1.0/boundToTerm") @@
  ("dcat:title" :> "dcat#title")

Unknown == {"_:svc", "dct:title"}
Absolute == {Service, Function, View}
QuerySet == {Query, "#Query"}
SourceSet == {Source, "#Sources", "#Source"}
Queries == {"SELECT", "CONSTRUCT"}

N(n) == Plain(Name(n))
I(i) == Plain(Iri(i))
L(l) == Plain(Literal(l))
-----------------------------------------------------------------------------
\* How a request is written: all in one statement, or one statement for each
\* node, read from the front or from the back; the vocabulary of the bindings.
Manners == [layout : {"nested", "spread", "backwards"}, vocabulary : {"fnoc:", "old:"},
            queryFirst : BOOLEAN]

Plainly == [layout |-> "nested", vocabulary |-> "fnoc:", queryFirst |-> TRUE]

Asked(q, xs) == [transformation |-> View, query |-> q, sources |-> xs]

Binding(m, parameter, v) ==
  <<Say(m.vocabulary \o "boundParameter", <<I(parameter)>>), Say(m.vocabulary \o "boundToTerm", <<v>>)>>

BindingsOf(m, req) ==
  LET ofQuery == <<Binding(m, Query, L(req.query))>>
      ofSources == [i \in DOMAIN req.sources |-> Binding(m, Source, I(req.sources[i]))]
  IN IF m.queryFirst THEN ofQuery \o ofSources ELSE ofSources \o ofQuery

FunctionSays(m, view, terms) ==
  <<Say("a", <<N("fno:AppliedFunction")>>), Say(m.vocabulary \o "applies", <<I(view)>>),
    Say(m.vocabulary \o "parameterBindings", <<List(terms)>>)>>

ServiceSays(view, function) ==
  <<Say("a", <<N("aggr:Service")>>), Say("aggr:performs", <<I(view)>>),
    Say("aggr:applies", <<function>>)>>

Label(i) == I("urn:binding" \o ToString(i))

St(subject, says) == [subject |-> subject, says |-> says]

\* The views that the service performs and the function applies may differ.
Deployment(m, req, performed, applied) ==
  LET bindings == BindingsOf(m, req)
      service == St(I(Service), ServiceSays(performed, I(Function)))
      function == St(I(Function),
        FunctionSays(m, applied, [i \in DOMAIN bindings |-> Label(i)]))
      statements == <<service, function>> \o [i \in DOMAIN bindings |-> St(Label(i), bindings[i])]
  IN CASE m.layout = "nested" ->
            <<St(Blank(<< >>), ServiceSays(performed,
                Blank(FunctionSays(m, applied, Mapped(Blank, bindings)))))>>
       [] m.layout = "spread" -> statements
       [] m.layout = "backwards" -> Reverse(statements)

Ask(q, xs, m) == Deployment(m, Asked(q, xs), View, View)
-----------------------------------------------------------------------------
Turtled(doc, ts, req) == [format |-> "turtle", document |-> doc, tokens |-> ts, request |-> req]
Whole(doc, req) == Turtled(doc, WrittenDocument(doc), req)

Swapped(ts, i) == [ts EXCEPT ![i] = ts[i + 1], ![i + 1] = ts[i]]

\* A list with another member, or one less, would be as well-formed: the members
\* that are names are left alone.
Fragile(ts) == {i \in DOMAIN ts : \A k \in 1 .. 3 : ts[i] # Label(k).token}

Damaged(ts) ==
  {SubSeq(ts, 1, n) : n \in 0 .. Len(ts)} \cup
  {RemoveAt(ts, i) : i \in Fragile(ts)} \cup
  {InsertAt(ts, i, ts[i]) : i \in Fragile(ts)} \cup
  {Swapped(ts, i) : i \in {k \in Fragile(ts) : k + 1 \in Fragile(ts)}}

OneOrTwo == {<<"urn:x1">>, <<"urn:x1", "urn:x2">>}

Requests ==
  UNION {LET doc == Ask("SELECT", xs, m) IN
           {Turtled(doc, ts, Asked("SELECT", xs)) : ts \in Damaged(WrittenDocument(doc))}
         : xs \in OneOrTwo, m \in Manners}

\* A title, or several, with a literal that may read as punctuation.
Titled ==
  {Whole(<<St(I(Service), <<Say("dcat:title", terms)>>)>> \o Ask("SELECT", <<"urn:x1">>, Plainly),
         Asked("SELECT", <<"urn:x1">>))
   : terms \in UNION {{<<L(c)>>, <<L("x"), L(c)>>, <<List(<<L(c), L("x")>>)>>, <<List(<<L("x"), L(c)>>)>>}
                      : c \in {"x", "a", ".", ";", ",", "[", "]", "(", ")"}}}

\* Other documents: terms in terms, in every place where a term may be.
Simple == {I("urn:x1"), L("x"), Blank(<< >>), List(<< >>)}
Nested ==
  Simple \cup {Blank(<<Say("dcat:title", <<t>>)>>) : t \in Simple}
         \cup {List(<<t, u>>) : t, u \in Simple}

Shapes ==
  {Whole(<<St(s, <<Say("dcat:title", os)>>)>>, NoRequest)
   : s \in Nested \ {L("x")}, os \in {<<o>> : o \in Nested} \cup (Nested \X Simple)}
  \cup {Whole(<<St(Blank(<<Say("dcat:title", <<o>>)>>), << >>)>>, NoRequest) : o \in Nested}

\* Documents that ask for nothing the server does.
NoRequests ==
  LET xs == <<"urn:x1">>
      one == Ask("SELECT", xs, [Plainly EXCEPT !.layout = "spread"])
      other == "https://aggregator.example/transformations#Other"
      Without(i) == [one EXCEPT ![1].says = RemoveAt(@, i)]
  IN {Whole(doc, NoRequest) : doc \in
       {<< >>, Without(1), Without(2), Without(3), Tail(one), Front(one),
        one \o <<St(Blank(<< >>), <<Say("a", <<N("aggr:Service")>>)>>)>>,
        [one EXCEPT ![1].subject = I("requested-service")],
        [one EXCEPT ![1].subject = N("_:svc")],
        Ask("SELECT", << >>, Plainly), Ask("ASK", xs, Plainly), Ask("", xs, Plainly),
        Deployment(Plainly, Asked("SELECT", xs), other, View),
        Deployment(Plainly, Asked("SELECT", xs), View, other),
        Deployment(Plainly, Asked("SELECT", xs), other, other)}}

Others ==
  {[format |-> "json", document |-> << >>, tokens |-> << >>, request |-> r] :
     r \in [transformation : {View, Nothing}, query : {"SELECT", "ASK", Nothing},
            sources : {<< >>, <<"urn:x1">>}]}
  \cup {[format |-> "other", document |-> << >>, tokens |-> << >>, request |-> NoRequest]}

AllBodies == Requests \cup Titled \cup Shapes \cup NoRequests \cup Others
=============================================================================
