---------------------------- MODULE ServiceRequest ----------------------------
(***************************************************************************)
(* How the body of a POST to a service collection becomes a request for a  *)
(* service: parseCreateServiceRequest and the checks of                    *)
(* handleCreateService (routes.go), and for text/turtle the recursive      *)
(* descent of turtleParser and serviceRequestFromTriples                   *)
(* (service_request_turtle.go).                                            *)
(*                                                                         *)
(* The calls of the parser that have not returned are a stack. A step      *)
(* reads a token or returns. What a document says comes from Turtle, which *)
(* does not know the parser. How characters make tokens is left out.       *)
(***************************************************************************)
EXTENDS Turtle

CONSTANTS
  Bodies,          \* what may be posted, see BodiesAssumption
  Expansion,       \* the IRI of each prefixed name whose prefix is known
  UnknownNames,    \* names with a prefix that is not
  AbsoluteIris,
  Transformation,  \* supportedTransformationURL
  QueryParameters, SourceParameters,  \* the IRIs of parameters
  ValidQueries     \* what validateQuery lets pass

\* A body is JSON that says a request, a document of which "tokens" arrived, or
\* something else; "document" says how it was before it was damaged.
ASSUME BodiesAssumption ==
  \A b \in Bodies : {"format", "document", "tokens", "request"} = DOMAIN b
ASSUME NamesAssumption == UnknownNames \cap DOMAIN Expansion = {}

VARIABLES
  body,
  \* Fields of turtleParser.
  index, nextBlank, nextList, triples,
  stack,   \* the calls that wait: in a statement, a blank node, a list
  at,      \* what the call at work does next
  value,   \* what parseObject returned
  request, \* what the body was read as
  outcome  \* "pending", or the answer

parserVars == <<index, nextBlank, nextList, triples, stack, at, value>>
vars == <<body, parserVars, request, outcome>>

rdfType == "rdf-syntax-ns#type"
aggrService == "aggregator#Service"
aggrPerforms == "aggregator#performs"
aggrApplies == "aggregator#applies"
fnoAppliedFunction == "ontology#AppliedFunction"
fnocApplies == <<"composition#applies", "0.1.0/applies">>  \* and the legacy name
fnocParameterBindings == <<"composition#parameterBindings", "0.1.0/parameterBindings">>
fnocBoundParameter == <<"composition#boundParameter", "0.1.0/boundParameter">>
fnocBoundToTerm == <<"composition#boundToTerm", "0.1.0/boundToTerm">>
listMember == "listMember"

Nothing == ""
NoRequest == [transformation |-> Nothing, query |-> Nothing, sources |-> << >>]

tokens == body.tokens

Init ==
  /\ body \in Bodies
  /\ index = 1 /\ nextBlank = 0 /\ nextList = 0 /\ triples = << >>
  /\ stack = << >> /\ value = Nothing
  /\ at = IF body.format = "turtle" THEN "statement" ELSE "decode"
  /\ request = NoRequest /\ outcome = "pending"
-----------------------------------------------------------------------------
\* A token is known by its text alone.
Peek(text) == index <= Len(tokens) /\ tokens[index].value = text
AtEnd == index > Len(tokens)

\* expandTurtleToken
Known(t) == ~(t.kind = "name" /\ t.value \in UnknownNames)
Expand(t) == IF t.kind = "name" /\ t.value \in DOMAIN Expansion THEN Expansion[t.value] ELSE t.value

Working(l) == outcome = "pending" /\ at = l
Top == Last(stack)
Call(where, node) == Append(stack, [in |-> where, node |-> node, predicate |-> Nothing])
WithTop(frame) == Append(Front(stack), frame)

Quiet == UNCHANGED <<body, request, outcome>>
-----------------------------------------------------------------------------
(***************************************************************************)
(* parseDocument                                                           *)
(***************************************************************************)
\* Mutant: a full stop between statements is seen, but not consumed.
SkipDot_mutant ==
  /\ Working("statement") /\ Peek(".")
  /\ UNCHANGED parserVars /\ Quiet

SkipDot ==
  /\ Working("statement") /\ Peek(".")
  /\ index' = index + 1
  /\ UNCHANGED <<nextBlank, nextList, triples, stack, at, value>> /\ Quiet

BeginStatement ==
  /\ Working("statement") /\ ~AtEnd /\ ~Peek(".")
  /\ stack' = Call("document", Nothing)
  /\ at' = "object"
  /\ UNCHANGED <<index, nextBlank, nextList, triples, value>> /\ Quiet

\* Mutant: what follows the statement is skipped, whatever it is.
EndStatement_mutant ==
  /\ Working("end") /\ Top.in = "document"
  /\ index' = index + 1
  /\ stack' = Front(stack) /\ at' = "statement"
  /\ UNCHANGED <<nextBlank, nextList, triples, value>> /\ Quiet

EndStatement ==
  /\ Working("end") /\ Top.in = "document"
  /\ Peek(".") \/ AtEnd
  /\ index' = IF AtEnd THEN index ELSE index + 1
  /\ stack' = Front(stack) /\ at' = "statement"
  /\ UNCHANGED <<nextBlank, nextList, triples, value>> /\ Quiet

EndDocument ==
  /\ Working("statement") /\ AtEnd
  /\ at' = "extract"
  /\ UNCHANGED <<index, nextBlank, nextList, triples, stack, value>> /\ Quiet
-----------------------------------------------------------------------------
(***************************************************************************)
(* parseObject. A token that is no bracket is taken for what it expands to,*)
(* whatever its kind.                                                      *)
(***************************************************************************)
ReadTerm ==
  /\ Working("object") /\ ~AtEnd /\ ~Peek("[") /\ ~Peek("(")
  /\ Known(tokens[index])
  /\ value' = Expand(tokens[index])
  /\ index' = index + 1
  /\ at' = "given"
  /\ UNCHANGED <<nextBlank, nextList, triples, stack>> /\ Quiet

OpenBlank ==
  /\ Working("object") /\ Peek("[")
  /\ index' = index + 1
  /\ nextBlank' = nextBlank + 1
  /\ stack' = Call("blank", "_:b" \o ToString(nextBlank'))
  /\ at' = "predicates"
  /\ UNCHANGED <<nextList, triples, value>> /\ Quiet

\* Mutant: a blank node is closed whatever comes next.
CloseBlank_mutant ==
  /\ Working("end") /\ Top.in = "blank"
  /\ index' = IF Peek("]") THEN index + 1 ELSE index
  /\ value' = Top.node /\ stack' = Front(stack)
  /\ at' = "given"
  /\ UNCHANGED <<nextBlank, nextList, triples>> /\ Quiet

CloseBlank ==
  /\ Working("end") /\ Top.in = "blank" /\ Peek("]")
  /\ index' = index + 1
  /\ value' = Top.node /\ stack' = Front(stack)
  /\ at' = "given"
  /\ UNCHANGED <<nextBlank, nextList, triples>> /\ Quiet

OpenList ==
  /\ Working("object") /\ Peek("(")
  /\ index' = index + 1
  /\ nextList' = nextList + 1
  /\ stack' = Call("list", "_:list" \o ToString(nextList'))
  /\ at' = "members"
  /\ UNCHANGED <<nextBlank, triples, value>> /\ Quiet

NextMember ==
  /\ Working("members") /\ ~Peek(")") /\ ~AtEnd
  /\ at' = "object"
  /\ UNCHANGED <<index, nextBlank, nextList, triples, stack, value>> /\ Quiet

CloseList ==
  /\ Working("members") /\ Peek(")")
  /\ index' = index + 1
  /\ value' = Top.node /\ stack' = Front(stack)
  /\ at' = "given"
  /\ UNCHANGED <<nextBlank, nextList, triples>> /\ Quiet
-----------------------------------------------------------------------------
(***************************************************************************)
(* What parseObject returned goes to the call on top of the stack.         *)
(***************************************************************************)
TakeSubject ==
  /\ Working("given") /\ Top.in = "document" /\ Top.predicate = Nothing
  /\ stack' = WithTop([Top EXCEPT !.node = value])
  /\ at' = "predicates"
  /\ UNCHANGED <<index, nextBlank, nextList, triples, value>> /\ Quiet

\* Mutant: a member is put before those that were read.
TakeMember_mutant ==
  /\ Working("given") /\ Top.in = "list"
  /\ triples' = <<[subject |-> Top.node, predicate |-> listMember, object |-> value]>> \o triples
  /\ at' = "members"
  /\ UNCHANGED <<index, nextBlank, nextList, stack, value>> /\ Quiet

TakeMember ==
  /\ Working("given") /\ Top.in = "list"
  /\ triples' = Append(triples, [subject |-> Top.node, predicate |-> listMember, object |-> value])
  /\ at' = "members"
  /\ UNCHANGED <<index, nextBlank, nextList, stack, value>> /\ Quiet

\* The first token after a run of semicolons.
PastSemicolons ==
  CHOOSE n \in index .. Len(tokens) + 1 :
    /\ n <= Len(tokens) => tokens[n].value # ";"
    /\ \A m \in index .. n - 1 : tokens[m].value = ";"

TakeObject ==
  /\ Working("given") /\ Top.in # "list" /\ Top.predicate # Nothing
  /\ triples' = Append(triples,
       [subject |-> Top.node, predicate |-> Top.predicate, object |-> value])
  /\ at' = CASE Peek(",") -> "object" [] Peek(";") -> "predicates" [] OTHER -> "end"
  /\ index' = IF Peek(",") THEN index + 1 ELSE PastSemicolons
  /\ UNCHANGED <<nextBlank, nextList, stack, value>> /\ Quiet

\* parsePredicateObjectList and parsePredicate
EndPredicates ==
  /\ Working("predicates") /\ (Peek("]") \/ Peek("."))
  /\ at' = "end"
  /\ UNCHANGED <<index, nextBlank, nextList, triples, stack, value>> /\ Quiet

ReadPredicate ==
  /\ Working("predicates") /\ ~AtEnd /\ ~Peek("]") /\ ~Peek(".")
  /\ Peek("a") \/ Known(tokens[index])
  /\ stack' = WithTop([Top EXCEPT
       !.predicate = IF Peek("a") THEN rdfType ELSE Expand(tokens[index])])
  /\ index' = index + 1
  /\ at' = "object"
  /\ UNCHANGED <<nextBlank, nextList, triples, value>> /\ Quiet

\* An error is returned through all the calls.
SyntaxError ==
  /\ outcome = "pending"
  /\ \/ at \in {"object", "predicates", "members"} /\ AtEnd
     \/ /\ at \in {"object", "predicates"} /\ ~AtEnd
        /\ ~Known(tokens[index])
     \/ at = "end" /\ Top.in = "blank" /\ ~Peek("]")
     \/ at = "end" /\ Top.in = "document" /\ ~Peek(".") /\ ~AtEnd
  /\ outcome' = "400"
  /\ UNCHANGED <<body, parserVars, request>>
-----------------------------------------------------------------------------
(***************************************************************************)
(* serviceRequestFromTriples                                               *)
(***************************************************************************)
subjectsWithObject(p, o) ==
  {triples[i].subject : i \in {j \in DOMAIN triples :
     triples[j].predicate = p /\ triples[j].object = o}}

hasTriple(s, p, o) == s \in subjectsWithObject(p, o)

Objects(s, p) ==
  Mapped(LAMBDA t : t.object, SelectSeq(triples, LAMBDA t : t.subject = s /\ t.predicate = p))

\* The first object; Nothing without one.
singleObject(s, p) == LET os == Objects(s, p) IN IF os = << >> THEN Nothing ELSE Head(os)

\* Mutant: the legacy name is forgotten.
singleObjectAny_mutant(s, names) == singleObject(s, names[1])

singleObjectAny(s, names) ==
  LET found == singleObject(s, names[1]) IN
    IF found # Nothing THEN found ELSE singleObject(s, names[2])

IsBlank(node) ==
  \/ \E k \in 1 .. nextBlank : node = "_:b" \o ToString(k)
  \/ \E k \in 1 .. nextList : node = "_:list" \o ToString(k)

Bindings(function) == Objects(singleObjectAny(function, fnocParameterBindings), listMember)

\* The query of the last binding counts, and the sources of all.
Bound(bindings) ==
  LET Value(b) == singleObjectAny(b, fnocBoundToTerm)
      Of(parameters) == Mapped(Value,
        SelectSeq(bindings, LAMBDA b : singleObjectAny(b, fnocBoundParameter) \in parameters))
      queries == Of(QueryParameters)
  IN [transformation |-> Transformation,
      query |-> IF queries = << >> THEN Nothing ELSE Last(queries),
      sources |-> Of(SourceParameters)]

Complete(function) ==
  /\ hasTriple(function, rdfType, fnoAppliedFunction)
  /\ singleObjectAny(function, fnocApplies) = Transformation
  /\ \A b \in ToSet(Bindings(function)) :
       /\ singleObjectAny(b, fnocBoundParameter) # Nothing
       /\ singleObjectAny(b, fnocBoundToTerm) # Nothing
  /\ LET req == Bound(Bindings(function)) IN req.query # Nothing /\ req.sources # << >>

Deploys(s) ==
  /\ IsBlank(s) \/ s \in AbsoluteIris
  /\ singleObject(s, aggrPerforms) = Transformation
  /\ singleObject(s, aggrApplies) # Nothing
  /\ Complete(singleObject(s, aggrApplies))

Extract ==
  /\ Working("extract")
  /\ LET services == subjectsWithObject(rdfType, aggrService) IN
     \/ \E s \in services :
          /\ services = {s} /\ Deploys(s)
          /\ request' = Bound(Bindings(singleObject(s, aggrApplies)))
          /\ at' = "validate" /\ UNCHANGED outcome
     \/ /\ ~ \E s \in services : services = {s} /\ Deploys(s)
        /\ outcome' = "400" /\ UNCHANGED <<request, at>>
  /\ UNCHANGED <<body, index, nextBlank, nextList, triples, stack, value>>
-----------------------------------------------------------------------------
(***************************************************************************)
(* parseCreateServiceRequest and handleCreateService                       *)
(***************************************************************************)
Decode ==
  /\ Working("decode")
  /\ \/ /\ body.format = "json"
        /\ request' = body.request
        /\ at' = "validate" /\ UNCHANGED outcome
     \/ /\ body.format \notin {"json", "turtle"}
        /\ outcome' = "415" /\ UNCHANGED <<request, at>>
  /\ UNCHANGED <<body, index, nextBlank, nextList, triples, stack, value>>

Valid(req) ==
  /\ req.transformation = Transformation
  /\ req.query \in ValidQueries
  /\ req.sources # << >>

Validate ==
  /\ Working("validate")
  /\ outcome' = IF Valid(request) THEN "accepted" ELSE "400"
  /\ UNCHANGED <<body, parserVars, request>>
-----------------------------------------------------------------------------
Next ==
  \/ SkipDot \/ BeginStatement \/ EndStatement \/ EndDocument
  \/ ReadTerm \/ OpenBlank \/ CloseBlank \/ OpenList \/ NextMember \/ CloseList
  \/ TakeSubject \/ TakeMember \/ TakeObject \/ EndPredicates \/ ReadPredicate
  \/ SyntaxError \/ Extract \/ Decode \/ Validate

Spec == Init /\ [][Next]_vars

\* The handler runs.
FairSpec == Spec /\ WF_vars(Next)
-----------------------------------------------------------------------------
(***************************************************************************)
(* Properties                                                              *)
(***************************************************************************)
Labels == {"decode", "statement", "object", "given", "predicates", "members", "end",
           "extract", "validate"}
Triples == [subject : STRING, predicate : STRING, object : STRING]
Frames == [in : {"document", "blank", "list"}, node : STRING, predicate : STRING]

\* The shape of the state. The brackets that are open are the calls that wait,
\* and what was read is never more than what was written.
TypeOK ==
  /\ index \in 1 .. Len(tokens) + 1 /\ nextBlank \in Nat /\ nextList \in Nat
  /\ nextBlank + nextList + Len(triples) <= 2 * Len(tokens)
  /\ \A i \in DOMAIN triples : triples[i] \in Triples
  /\ \A i \in DOMAIN stack : stack[i] \in Frames /\ (stack[i].in = "document") = (i = 1)
  /\ at \in Labels /\ value \in STRING
  /\ (stack = << >>) = (at \in {"decode", "statement", "extract", "validate"})
  /\ outcome \in {"pending", "accepted", "400", "415"}

Document == body.document
Intact == body.format = "turtle" /\ tokens = WrittenDocument(Document)

\* Tokens are compared by their text: a literal that reads as a bracket is one,
\* where a bracket may be.
ReadsAsBracket ==
  \E t \in Terms(Document) :
    \/ t \in {Plain(Literal("[")), Plain(Literal("("))}
    \/ t.form = "list" /\ Contains(t.terms, Plain(Literal(")")))

Denotes == [t \in ToSet(tokens) |-> IF t = Name("a") THEN rdfType ELSE Expand(t)]

Facts ==
  {LET t == triples[i]
       earlier == SelectSeq(SubSeq(triples, 1, i),
                            LAMBDA u : u.subject = t.subject /\ u.predicate = listMember)
   IN Fact(t.subject, t.predicate, t.object, IF t.predicate = listMember THEN Len(earlier) ELSE 0)
   : i \in DOMAIN triples}

\* The parser reads what is written: the triples of a well-formed document are
\* those that it states, its lists in their order, unless a literal reads as a
\* bracket; then, and only then, is it wrong. It stops at no well-formed
\* document without such a literal.
ParsedIsWritten ==
  /\ at = "extract" /\ outcome = "pending" /\ Intact =>
       (Facts = Stated(Document, Denotes, listMember)) # ReadsAsBracket
  /\ outcome = "400" /\ at \notin {"extract", "validate"} /\ Intact =>
       ReadsAsBracket \/ \E i \in DOMAIN tokens : ~Known(tokens[i])

\* A request is read as the one its writer meant, in JSON and in Turtle, nested
\* or spread over statements in any order, with the names of today or of before
\* (TestAGGRSVC034, TestAGGRSVC040, TestMilestone5TurtleServiceDeploymentAccepts-
\* AppliedFunctionVocabularyNamespace), and what is no request is refused
\* (TestAGGRSVC033, and 035 to 039).
ReadAsMeant ==
  outcome # "pending" /\ (body.format = "json" \/ (Intact /\ ~ReadsAsBracket)) =>
    /\ (outcome = "accepted") = Valid(body.request)
    /\ outcome = "accepted" => request = body.request

\* The full stop at the end was taken for the term that should precede it.
FullStopIsTerm == triples # << >> /\ Last(triples).object = "."

\* A document that lost its end, lost or doubled a token, or had two swapped,
\* is refused or read as it was, although the parser takes punctuation marks
\* for subjects, predicates and objects: it never becomes another request,
\* except when it ends in a predicate and a full stop (TestAGGRSVC032 cuts one
\* document at one place).
DamageIsNoticed ==
  outcome = "accepted" => request = body.request \/ FullStopIsTerm

\* Every body is answered: no loop of the parser goes on without a token.
EveryBodyIsAnswered == <>(outcome # "pending")
=============================================================================
