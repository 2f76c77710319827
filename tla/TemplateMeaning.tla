--------------------------- MODULE TemplateMeaning ---------------------------
(* What a template means, as a reference for the parser of Templates: a      *)
(* template is a sequence of nodes - texts, conditionals and loops with      *)
(* their bodies - and its expansion follows their structure.                 *)
EXTENDS Templates

CONSTANT
  Trees          \* the templates, as sequences of nodes

Text(exprs) == [stmt |-> "text", exprs |-> exprs]
Bare(stmt) == [stmt |-> stmt, exprs |-> <<>>]

RECURSIVE LinesOf(_)

(* The lines of a sequence of nodes.                                         *)
LinesOf(nodes) ==
  FlattenSeq([i \in DOMAIN nodes |->
    LET n == nodes[i]
    IN CASE n.node = "text" -> <<Text(n.exprs)>>
         [] n.node = "if" ->
              <<[stmt |-> "if", exprs |-> <<n.cond>>]>> \o LinesOf(n.yes)
                \o (IF n.else THEN <<Bare("else")>> \o LinesOf(n.no) ELSE <<>>) \o <<Bare("endif")>>
         [] n.node = "loop" ->
              <<[stmt |-> "loop", exprs |-> <<>>, vector |-> n.vector, iterator |-> n.iterator]>>
                \o LinesOf(n.body) \o <<Bare("endloop")>>])

Wrong == <<<<0>>>>
Both(a, b) == IF a = Wrong \/ b = Wrong THEN Wrong ELSE a \o b

RECURSIVE Expansion(_, _, _)

(* The output of the nodes whose first line is "line".                       *)
Expansion(nodes, line, vs) ==
  IF nodes = <<>> THEN <<>>
  ELSE LET n == Head(nodes)
           size == Len(LinesOf(<<n>>))
           first ==
             CASE n.node = "text" ->
                    LET values == [i \in DOMAIN n.exprs |-> evaluate(vs, n.exprs[i])]
                    IN IF SyntaxError \in Range(values) THEN Wrong ELSE <<<<line>> \o values>>
               [] n.node = "if" ->
                    LET value == evaluate(vs, n.cond)
                    IN CASE value = SyntaxError -> Wrong
                         [] value # SyntaxError /\ ~IsFalse(value) -> Expansion(n.yes, line + 1, vs)
                         [] OTHER -> Expansion(n.no, line + 2 + Len(LinesOf(n.yes)), vs)
               [] n.node = "loop" ->
                    FoldLeft(LAMBDA acc, i :
                               Both(acc, Expansion(n.body, line + 1,
                                                   add_variable(vs, n.iterator, Digits[i - 1]))),
                             <<>>, [i \in DOMAIN Vectors[n.vector] |-> i])
       IN Both(first, Expansion(Tail(nodes), line + size, vs))
-----------------------------------------------------------------------------
HasIf(nodes) == \E i \in DOMAIN nodes : nodes[i].node = "if"
NestsIfs(nodes) ==
  \E i \in DOMAIN nodes : nodes[i].node = "if" /\ (HasIf(nodes[i].yes) \/ HasIf(nodes[i].no))

(* The parser writes what the structure of the template calls for: each body *)
(* as often as its loop iterates, the branch that its condition selects, no  *)
(* line of a branch or loop that is skipped, and the iterators defined       *)
(* within their loops only; otherwise it reports a syntax error.  Only with  *)
(* conditionals within conditionals may its assertion on the level of the    *)
(* skipped one fail (templates_parser::instantiate(), handle_skip()).        *)
ExpandsAsStructured ==
  expanding \in {"done", "syntax_error", "abort"} =>
    LET tree == CHOOSE t \in Trees : LinesOf(t) = template
        meaning == Expansion(tree, 1, Variables)
    IN CASE expanding = "abort" -> NestsIfs(tree)
         [] expanding = "syntax_error" -> meaning = Wrong
         [] expanding = "done" -> output = meaning
=============================================================================
