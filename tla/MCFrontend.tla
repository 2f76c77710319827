------------------------------ MODULE MCFrontend ------------------------------
(* The program from its command line to its exit code, the texts it prints   *)
(* and the templates of its HTML reports, each on its own in a part of the   *)
(* behaviours.                                                               *)
EXTENDS Frontend, Screen, TemplateMeaning

VARIABLE part

vars == <<part, frontend_vars, screen_vars, templates_vars>>

NoFrontend ==
  /\ words = <<>> /\ world = <<>> /\ pc = "off" /\ global = <<>> /\ command = <<>>
  /\ thrown = "" /\ did = <<>> /\ exit_code = 0
NoScreen == columns = 0 /\ terminal = 0 /\ width_done = FALSE /\ width = 0 /\ printed = Silent
NoTemplates ==
  /\ template = <<>> /\ at = 0 /\ variables = <<>> /\ skip = <<>> /\ if_level = 0
  /\ exit_if_level = 0 /\ loop_level = 0 /\ exit_loop_level = 0 /\ loops = <<>>
  /\ output = <<>> /\ expanding = "off"

Init ==
  \/ part = "frontend" /\ FrontendInit /\ NoScreen /\ NoTemplates
  \/ part = "screen" /\ ScreenInit /\ NoFrontend /\ NoTemplates
  \/ part = "templates" /\ TemplatesInit /\ NoFrontend /\ NoScreen

Next ==
  \/ part = "frontend" /\ FrontendNext /\ UNCHANGED <<part, screen_vars, templates_vars>>
  \/ part = "screen" /\ ScreenNext /\ UNCHANGED <<part, frontend_vars, templates_vars>>
  \/ part = "templates" /\ TemplatesNext /\ UNCHANGED <<part, frontend_vars, screen_vars>>

Spec == Init /\ [][Next]_vars
-----------------------------------------------------------------------------
Operand(text) == [text |-> text, opt |-> "", name |-> "", arg |-> NoText]
Dashes == [text |-> <<"--">>, opt |-> "end", name |-> "", arg |-> NoText]
Attached(arg) == IF arg = NoText THEN <<>> ELSE arg
Long(name, arg) == [text |-> <<"--", name>> \o Attached(arg), opt |-> "long", name |-> name, arg |-> arg]
Short(name, arg) == [text |-> <<"-", name>> \o Attached(arg), opt |-> "short", name |-> name, arg |-> arg]

MCGlobalWords ==
  {<<>>, <<Short("v", NoText), Operand(<<"K", "=", "V">>), Long("variable", <<"K", "=", "W">>)>>,
   <<Short("v", <<"K">>)>>, <<Long("variable", <<"=", "V">>)>>, <<Short("c", NoText)>>,
   <<Long("loglevel", <<"loud">>), Short("c", <<"f">>)>>, <<Long("unknown", NoText)>>, <<Dashes>>}
MCCommandNames == DOMAIN commands \cup {"nonsense"}
MCCommandWords ==
  {Short("v", NoText), Short("r", NoText), Long("results-file", <<"f">>), Long("results-file", <<>>),
   Short("k", <<"K">>), Long("output", <<"o">>), Long("force", NoText), Dashes,
   Long("results-filter", <<"failed", ",">>), Long("results-filter", <<>>),
   Operand(<<"p">>), Operand(<<"p", ":", "a">>), Operand(<<"q">>), Operand(<<"authors">>),
   Operand(<<"help">>)}
MCCommandLines ==
  {<<>>} \cup {<<w>> : w \in UNION {Range(g) : g \in MCGlobalWords}}
  \cup {g \o <<Operand(<<n>>)>> : g \in MCGlobalWords, n \in MCCommandNames}
  \cup {<<Operand(<<n>>)>> \o rest : n \in MCCommandNames,
          rest \in [1..1 -> MCCommandWords] \cup [1..2 -> MCCommandWords]}

MCWorld ==
  [logdir |-> TRUE, config |-> TRUE, historical |-> FALSE, results |-> "current", taken |-> FALSE,
   kyuafile |-> TRUE, interrupted |-> FALSE, docs |-> {"LICENSE", "AUTHORS", "CONTRIBUTORS"},
   tests |-> {[program |-> <<"p">>, case |-> "a", good |-> TRUE],
              [program |-> <<"p">>, case |-> "b", good |-> FALSE]},
   variables |-> {<<"p">>}, sql |-> TRUE, output |-> "exists"]
MCWorlds ==
  {MCWorld, [MCWorld EXCEPT !.logdir = FALSE], [MCWorld EXCEPT !.config = FALSE],
   [MCWorld EXCEPT !.historical = TRUE], [MCWorld EXCEPT !.results = "missing", !.sql = FALSE],
   [MCWorld EXCEPT !.results = "old", !.taken = TRUE], [MCWorld EXCEPT !.kyuafile = FALSE],
   [MCWorld EXCEPT !.interrupted = TRUE, !.docs = {"AUTHORS"}],
   [MCWorld EXCEPT !.output = "unwritable", !.sql = FALSE],
   [MCWorld EXCEPT !.output = "new", !.tests = {t \in @ : t.good}]}
-----------------------------------------------------------------------------
MCMessages == UNION {[1..n -> {" ", "x"}] : n \in 0..6}
Word(n) == [i \in 1..n |-> "x"]
MCTables ==
  {<<>>} \cup {<<<<Word(a), d>>, <<Word(b), e>>>> : a, b \in 1..2,
                 d \in {<<>>, <<"x", "x", " ", "x">>, <<"x", " ", "x", "x", "x", " ", "x">>},
                 e \in {<<"x", " ">>, Word(3)}}
MCTag == <<"x", " ">>
MCBlanks == <<" ", " ">>
MCColumns == {NoWidth, Invalid, 3, 12}
MCTerminals == {NoWidth} \cup 0..9
-----------------------------------------------------------------------------
TextNode(exprs) == [node |-> "text", exprs |-> exprs]
IfNode(c, y, e, n) == [node |-> "if", cond |-> c, yes |-> y, else |-> e, no |-> n]
LoopNode(v, b) == [node |-> "loop", vector |-> v, iterator |-> "i", body |-> b]
Conditions ==
  {[op |-> "variable", of |-> "yes"], [op |-> "defined", of |-> "i"], [op |-> "length", of |-> "none"]}
Plain == {TextNode(<<>>), TextNode(<<[op |-> "index", of |-> "two", by |-> "i"]>>)}

RECURSIVE Forest(_, _, _, _)

(* The sequences of nodes of n lines, with conditionals nested up to "ifs"   *)
(* and loops up to "deep".                                                   *)
Forest(n, ifs, deep, texts) ==
  LET Rest(m) == Forest(m, ifs, deep, texts)
      InIf(m) == Forest(m, ifs - 1, deep, texts)
      InLoop(m) == Forest(m, ifs, deep - 1, texts)
  IN IF n = 0 THEN {<<>>}
     ELSE {<<t>> \o rest : t \in texts, rest \in Rest(n - 1)}
       \cup (IF ifs = 0 THEN {} ELSE
             UNION {{<<IfNode(c, y, FALSE, <<>>)>> \o rest : c \in Conditions, y \in InIf(k),
                       rest \in Rest(n - 2 - k)} : k \in 0..(n - 2)}
             \cup UNION {{<<IfNode(c, y, TRUE, z)>> \o rest : c \in Conditions, y \in InIf(k[1]),
                       z \in InIf(k[2]), rest \in Rest(n - 3 - k[1] - k[2])} :
                       k \in {k \in (0..n) \X (0..1) : k[1] + k[2] <= n - 3}})
       \cup (IF deep = 0 THEN {} ELSE
             UNION {{<<LoopNode(v, b)>> \o rest : v \in {"none", "two"}, b \in InLoop(k),
                       rest \in Rest(n - 2 - k)} : k \in 0..(n - 2)})

(* Like those of misc/, without conditionals within conditionals; and with   *)
(* them.  Loops within loops take the same variable and are left out.        *)
MCTrees ==
  UNION {Forest(n, 1, 1, Plain) \cup Forest(n, 2, 1, {TextNode(<<>>)}) : n \in 0..5}
MCInputs == {LinesOf(t) : t \in Trees}
MCVariables == [n \in {"yes"} |-> "y"]
MCVectors == [n \in {"none", "two"} |-> IF n = "none" THEN <<>> ELSE <<"p", "q">>]
=============================================================================
