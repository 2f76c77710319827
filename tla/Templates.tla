------------------------------ MODULE Templates ------------------------------
(* utils/text/templates.cpp: the parser that expands the templates of the    *)
(* HTML reports.  It reads the input once, line by line, keeps a stack that  *)
(* says whether lines are skipped, and rewinds the input to loop.            *)
(* A line is a text (with the expressions in it) or a statement.  A text     *)
(* stands for its line number; what surrounds the expressions is left out.   *)
EXTENDS SequencesExt

CONSTANTS
  Inputs,        \* the template files: sequences of lines
  Variables,     \* templates_def::_variables, name |-> value
  Vectors        \* templates_def::_vectors, name |-> sequence of values

VARIABLES
  template,      \* the input
  at,            \* line to read next
  variables,     \* _variables, which also holds the iterators of the loops
  skip,          \* _skip, the top is the last element
  if_level, exit_if_level,
  loop_level, exit_loop_level,
  loops,         \* _loops: [vector, iterator, position]
  output,
  expanding      \* "running", "done", "syntax_error" or "abort"

templates_vars ==
  <<template, at, variables, skip, if_level, exit_if_level, loop_level, exit_loop_level,
    loops, output, expanding>>

(* Numbers are kept as texts.                                                *)
Digits == [n \in 0..3 |-> <<"0", "1", "2", "3">>[n + 1]]
to_index(s) == CHOOSE n \in 0..3 : Digits[n] = s
SyntaxError == "<syntax error>"
-----------------------------------------------------------------------------
(* templates_def.  An expression [op, of, by] is a variable, defined(of),    *)
(* length(of) or the element of a vector that the variable "by" indexes.     *)
exists(vs, name) == name \in DOMAIN vs \/ name \in DOMAIN Vectors
get_variable(vs, name) == IF name \in DOMAIN vs THEN vs[name] ELSE SyntaxError

get_vector(vs, name, index_name) ==
  IF name \notin DOMAIN Vectors \/ index_name \notin DOMAIN vs THEN SyntaxError
  ELSE LET index == to_index(vs[index_name])
       IN IF index < Len(Vectors[name]) THEN Vectors[name][index + 1] ELSE SyntaxError

evaluate(vs, e) ==
  CASE e.op = "variable" -> get_variable(vs, e.of)
    [] e.op = "defined" -> IF exists(vs, e.of) THEN "true" ELSE "false"
    [] e.op = "length" ->
         IF e.of \in DOMAIN Vectors THEN Digits[Len(Vectors[e.of])] ELSE SyntaxError
    [] e.op = "index" -> get_vector(vs, e.of, e.by)

IsFalse(value) == value \in {"", "0", "false"}

remove_variable(vs, name) == [n \in DOMAIN vs \ {name} |-> vs[n]]
add_variable(vs, name, value) == [n \in DOMAIN vs \cup {name} |-> IF n = name THEN value ELSE vs[n]]
-----------------------------------------------------------------------------
TemplatesInit ==
  /\ template \in Inputs /\ at = 1 /\ variables = Variables /\ skip = <<>>
  /\ if_level = 0 /\ exit_if_level = 0 /\ loop_level = 0 /\ exit_loop_level = 0
  /\ loops = <<>> /\ output = <<>> /\ expanding = "running"

Line == template[at]
Reading == expanding = "running" /\ at <= Len(template)
Skipping == skip # <<>> /\ Last(skip)
SetTop(b) == Front(skip) \o <<b>>

levels == <<if_level, exit_if_level, loop_level, exit_loop_level, loops>>

(* A text: handle_normal() writes it with its expressions evaluated.         *)
WriteLine ==
  /\ Reading /\ ~Skipping /\ Line.stmt = "text"
  /\ LET values == [i \in DOMAIN Line.exprs |-> evaluate(variables, Line.exprs[i])]
     IN IF SyntaxError \in Range(values)
        THEN expanding' = "syntax_error" /\ UNCHANGED <<at, output>>
        ELSE /\ output' = Append(output, <<at>> \o values)
             /\ at' = at + 1 /\ UNCHANGED expanding
  /\ UNCHANGED <<template, variables, skip, levels>>

(* handle_normal() of "%if": what is not true is skipped.                    *)
If ==
  /\ Reading /\ ~Skipping /\ Line.stmt = "if"
  /\ LET value == evaluate(variables, Line.exprs[1])
     IN IF value = SyntaxError
        THEN expanding' = "syntax_error" /\ UNCHANGED <<at, skip, if_level, exit_if_level>>
        ELSE /\ if_level' = if_level + 1
             /\ exit_if_level' = IF IsFalse(value) THEN if_level + 1 ELSE exit_if_level
             /\ skip' = Append(skip, IsFalse(value))
             /\ at' = at + 1 /\ UNCHANGED expanding
  /\ UNCHANGED <<template, variables, loop_level, exit_loop_level, loops, output>>

(* handle_normal() of "%else": the branch that was taken ends here.          *)
Else ==
  /\ Reading /\ ~Skipping /\ Line.stmt = "else"
  /\ skip' = SetTop(~Last(skip))
  /\ at' = at + 1
  /\ UNCHANGED <<template, variables, levels, output, expanding>>

(* handle_normal() of "%endif": the stack keeps its element.                 *)
EndIf ==
  /\ Reading /\ ~Skipping /\ Line.stmt = "endif"
  /\ if_level' = if_level - 1
  /\ at' = at + 1
  /\ UNCHANGED <<template, variables, skip, exit_if_level, loop_level, exit_loop_level, loops,
                 output, expanding>>

(* handle_normal() of "%loop".                                               *)
Loop ==
  /\ Reading /\ ~Skipping /\ Line.stmt = "loop"
  /\ loop_level' = loop_level + 1
  /\ CASE Line.vector \notin DOMAIN Vectors ->
            expanding' = "syntax_error" /\ UNCHANGED <<at, variables, skip, exit_loop_level, loops>>
       [] Line.vector \in DOMAIN Vectors /\ Vectors[Line.vector] = <<>> ->
            /\ exit_loop_level' = loop_level'
            /\ skip' = Append(skip, TRUE) /\ at' = at + 1
            /\ UNCHANGED <<variables, loops, expanding>>
       [] OTHER ->
            /\ variables' = add_variable(variables, Line.iterator, Digits[0])
            /\ loops' = Append(loops, [vector |-> Line.vector, iterator |-> Line.iterator,
                                       position |-> at + 1])
            /\ skip' = Append(skip, FALSE) /\ at' = at + 1
            /\ UNCHANGED <<exit_loop_level, expanding>>
  /\ UNCHANGED <<template, if_level, exit_if_level, output>>

(* The iterator's scope ends with its loop.                                  *)
EndOfLoop(loop) ==
  /\ loop_level' = loop_level - 1 /\ loops' = Front(loops)
  /\ variables' = remove_variable(variables, loop.iterator)
  /\ at' = at + 1

(* handle_normal() of "%endloop": the next iteration, or the end.            *)
EndLoop ==
  /\ Reading /\ ~Skipping /\ Line.stmt = "endloop"
  /\ LET loop == Last(loops)
         index == get_variable(variables, loop.iterator)
     IN CASE Len(loops) # loop_level ->
               expanding' = "abort" /\ UNCHANGED <<at, variables, loop_level, loops>>
          [] Len(loops) = loop_level /\ index = SyntaxError ->
               expanding' = "syntax_error" /\ UNCHANGED <<at, variables, loop_level, loops>>
          [] Len(loops) = loop_level /\ index # SyntaxError /\ to_index(index) + 1 < Len(Vectors[loop.vector]) ->
               /\ variables' = add_variable(variables, loop.iterator, Digits[to_index(index) + 1])
               /\ at' = loop.position
               /\ UNCHANGED <<loop_level, loops, expanding>>
          [] OTHER -> EndOfLoop(loop) /\ UNCHANGED expanding
  /\ UNCHANGED <<template, skip, if_level, exit_if_level, exit_loop_level, output>>

(* handle_skip(): texts are dropped, statements only tracked for nesting.    *)
SkipLine ==
  /\ Reading /\ Skipping /\ Line.stmt = "text"
  /\ at' = at + 1
  /\ UNCHANGED <<template, variables, skip, levels, output, expanding>>

SkipElse ==
  /\ Reading /\ Skipping /\ Line.stmt = "else"
  /\ skip' = IF exit_if_level = if_level THEN SetTop(~Last(skip)) ELSE skip
  /\ at' = at + 1
  /\ UNCHANGED <<template, variables, levels, output, expanding>>

(* The statement that closes a level; the assertion compares it with the     *)
(* level of the last conditional (or loop) that was false (or empty).        *)
SkipEnd(level, exit_level) ==
  IF level < exit_level
  THEN expanding' = "abort" /\ UNCHANGED <<at, skip>>
  ELSE skip' = Front(skip) /\ at' = at + 1 /\ UNCHANGED expanding

SkipEndIf ==
  /\ Reading /\ Skipping /\ Line.stmt = "endif"
  /\ SkipEnd(if_level, exit_if_level)
  /\ if_level' = if_level - 1
  /\ UNCHANGED <<template, variables, exit_if_level, loop_level, exit_loop_level, loops, output>>

SkipEndLoop ==
  /\ Reading /\ Skipping /\ Line.stmt = "endloop"
  /\ SkipEnd(loop_level, exit_loop_level)
  /\ loop_level' = loop_level - 1
  /\ UNCHANGED <<template, variables, if_level, exit_if_level, exit_loop_level, loops, output>>

(* Defect: a conditional among the lines skipped opens no level.             *)
SkipIfFlat ==
  /\ Reading /\ Skipping /\ Line.stmt = "if"
  /\ skip' = Append(skip, TRUE)
  /\ at' = at + 1
  /\ UNCHANGED <<template, variables, levels, output, expanding>>

SkipIf ==
  /\ Reading /\ Skipping /\ Line.stmt = "if"
  /\ if_level' = if_level + 1
  /\ skip' = Append(skip, TRUE)
  /\ at' = at + 1
  /\ UNCHANGED <<template, variables, exit_if_level, loop_level, exit_loop_level, loops, output,
                 expanding>>

SkipLoop ==
  /\ Reading /\ Skipping /\ Line.stmt = "loop"
  /\ loop_level' = loop_level + 1
  /\ skip' = Append(skip, TRUE)
  /\ at' = at + 1
  /\ UNCHANGED <<template, variables, if_level, exit_if_level, exit_loop_level, loops, output,
                 expanding>>

Finish ==
  /\ expanding = "running" /\ at > Len(template)
  /\ expanding' = "done"
  /\ UNCHANGED <<template, at, variables, skip, levels, output>>

TemplatesNext ==
  \/ WriteLine \/ If \/ Else \/ EndIf \/ Loop \/ EndLoop
  \/ SkipLine \/ SkipElse \/ SkipEndIf \/ SkipEndLoop \/ SkipIf \/ SkipLoop \/ Finish
=============================================================================
