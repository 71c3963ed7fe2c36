-------------------------------- MODULE Turtle --------------------------------
(***************************************************************************)
(* Documents in the part of RDF Turtle that a service request uses: what   *)
(* is written, token by token, and what it says. This is the grammar, not  *)
(* the server's parser of it, which is ServiceRequest.                     *)
(*                                                                         *)
(* A document is a sequence of statements [subject, says]; "says" is a     *)
(* sequence of [predicate, objects]; a term is one token, a blank node     *)
(* with what is said about it, or a list of terms.                         *)
(***************************************************************************)
EXTENDS Naturals, Sequences, FiniteSets, SequencesExt

Punct(c) == [kind |-> "punct", value |-> c]
Name(n) == [kind |-> "name", value |-> n]
Iri(i) == [kind |-> "iri", value |-> i]
Literal(l) == [kind |-> "literal", value |-> l]

Plain(t) == [form |-> "plain", token |-> t]
Blank(says) == [form |-> "blank", says |-> says]
List(terms) == [form |-> "list", terms |-> terms]

Say(p, objects) == [predicate |-> Name(p), objects |-> objects]

Mapped(Op(_), s) == [i \in DOMAIN s |-> Op(s[i])]

\* The elements with a separator between them.
Separated(s, c) ==
  FlattenSeq([i \in DOMAIN s |-> IF i = 1 THEN s[i] ELSE <<Punct(c)>> \o s[i]])
-----------------------------------------------------------------------------
\* The tokens of a term, and of what is said about a node.
RECURSIVE Written(_)
WrittenSays(says) ==
  LET Property(p) == <<p.predicate>> \o Separated(Mapped(Written, p.objects), ",")
  IN Separated(Mapped(Property, says), ";")

Written(term) ==
  CASE term.form = "plain" -> <<term.token>>
    [] term.form = "blank" -> <<Punct("[")>> \o WrittenSays(term.says) \o <<Punct("]")>>
    [] term.form = "list" ->
         <<Punct("(")>> \o FlattenSeq(Mapped(Written, term.terms)) \o <<Punct(")")>>

WrittenStatement(st) == Written(st.subject) \o WrittenSays(st.says) \o <<Punct(".")>>

WrittenDocument(doc) == FlattenSeq(Mapped(WrittenStatement, doc))
-----------------------------------------------------------------------------
(***************************************************************************)
(* What a document says: a set of [subject, predicate, object, nth], where *)
(* nth is the place of a member in its list, and 0 for what is no member.  *)
(* A blank node, and a list, is named after its bracket: _:b3 is the third.*)
(***************************************************************************)
Ordinal(tokens, n, c) == Cardinality({m \in 1 .. n : tokens[m] = Punct(c)})

\* Where the i-th of some terms or properties starts, the first being at n,
\* with "gap" tokens between two.
Start(written, n, gap, i) ==
  n + FoldFunction(+, 0, [j \in 1 .. (i - 1) |-> Len(written[j]) + gap])

Fact(s, p, o, nth) == [subject |-> s, predicate |-> p, object |-> o, nth |-> nth]

\* The node of a term whose first token is the n-th. denotes[t] is what the token t
\* stands for, and Member the predicate of lists.
NodeOf(term, tokens, n, denotes) ==
  CASE term.form = "plain" -> denotes[term.token]
    [] term.form = "blank" -> "_:b" \o ToString(Ordinal(tokens, n, "["))
    [] term.form = "list" -> "_:list" \o ToString(Ordinal(tokens, n, "("))

RECURSIVE StatedIn(_, _, _, _, _)
StatedOf(node, says, tokens, n, denotes, Member) ==
  LET Property(p) == WrittenSays(<<p>>) IN
    UNION {
      LET p == says[i]
          first == Start(Mapped(Property, says), n, 1, i) + 1
          At(j) == Start(Mapped(Written, p.objects), first, 1, j)
      IN UNION {
           {Fact(node, denotes[p.predicate], NodeOf(p.objects[j], tokens, At(j), denotes), 0)}
             \cup StatedIn(p.objects[j], tokens, At(j), denotes, Member)
           : j \in DOMAIN p.objects}
      : i \in DOMAIN says}

StatedIn(term, tokens, n, denotes, Member) ==
  LET node == NodeOf(term, tokens, n, denotes) IN
  CASE term.form = "plain" -> {}
    [] term.form = "blank" -> StatedOf(node, term.says, tokens, n + 1, denotes, Member)
    [] term.form = "list" ->
         LET At(i) == Start(Mapped(Written, term.terms), n + 1, 0, i) IN
           UNION {
             {Fact(node, Member, NodeOf(term.terms[i], tokens, At(i), denotes), i)}
               \cup StatedIn(term.terms[i], tokens, At(i), denotes, Member)
             : i \in DOMAIN term.terms}

Stated(doc, denotes, Member) ==
  LET tokens == WrittenDocument(doc) IN
    UNION {
      LET st == doc[i]
          n == Start(Mapped(WrittenStatement, doc), 1, 0, i)
      IN StatedIn(st.subject, tokens, n, denotes, Member)
           \cup StatedOf(NodeOf(st.subject, tokens, n, denotes), st.says, tokens,
                         n + Len(Written(st.subject)), denotes, Member)
      : i \in DOMAIN doc}
-----------------------------------------------------------------------------
\* All the terms of a document, those inside others included.
RECURSIVE TermsIn(_)
TermsOf(says) == UNION {UNION {TermsIn(o) : o \in ToSet(says[i].objects)} : i \in DOMAIN says}

TermsIn(term) ==
  {term} \cup
  CASE term.form = "plain" -> {}
    [] term.form = "blank" -> TermsOf(term.says)
    [] term.form = "list" -> UNION {TermsIn(t) : t \in ToSet(term.terms)}

Terms(doc) == UNION {TermsIn(doc[i].subject) \cup TermsOf(doc[i].says) : i \in DOMAIN doc}
=============================================================================
