------------------------------- MODULE Cmdline -------------------------------
(* utils/cmdline: how a command line is taken apart into options and         *)
(* operands.  A text is a sequence of pieces, among which the characters     *)
(* that matter ("=", ",", ":") stand alone.  A word of the command line is   *)
(* [text, opt, name, arg]: opt is "long", "short", "end" (for "--") or "",   *)
(* name the option it names and arg the value attached to it, if any.        *)
EXTENDS Filters

(* An option is [short, long, type, default]; NoText says that it has none.  *)
NoText == <<"<none>">>
NoName == ""
option(short, long, type, default) ==
  [short |-> short, long |-> long, type |-> type, default |-> default]
NoOption == option(NoName, NoName, "bool", NoText)

needs_arg(o) == o.type # "bool"
has_default_value(o) == o.default # NoText

Find(text, ch) == {i \in DOMAIN text : text[i] = ch}

(* text::split(): nothing for an empty text, else the words between.         *)
split(text, ch) ==
  LET cuts == SetToSortSeq(Find(text, ch) \cup {0, Len(text) + 1}, <)
  IN IF text = <<>> THEN <<>>
     ELSE [i \in 1..(Len(cuts) - 1) |-> SubSeq(text, cuts[i] + 1, cuts[i + 1] - 1)]

(* property_option::convert()                                                *)
property(raw) ==
  LET pos == Min(Find(raw, "="))
  IN <<SubSeq(raw, 1, pos - 1), SubSeq(raw, pos + 1, Len(raw))>>

(* base_option::validate() of each type.                                     *)
validate(o, raw) ==
  CASE o.type = "path" -> raw # <<>>
    [] o.type = "property" ->
         Find(raw, "=") # {} /\ property(raw)[1] # <<>> /\ property(raw)[2] # <<>>
    [] OTHER -> TRUE

convert(o, raw) ==
  CASE o.type = "list" -> split(raw, ",")
    [] o.type = "property" -> property(raw)
    [] OTHER -> raw
-----------------------------------------------------------------------------
(* getopt_long(3) with "+:" stops at the first operand and tells a missing   *)
(* argument from an unknown option.                                          *)
Matches(o, word) ==
  (word.opt = "long" /\ o.long = word.name) \/ (word.opt = "short" /\ o.short = word.name)

Start(options) ==
  [values |-> [l \in {o.long : o \in Range(options)} |->
                 LET o == CHOOSE o \in Range(options) : o.long = l
                 IN IF needs_arg(o) /\ has_default_value(o) THEN <<o.default>> ELSE <<>>],
   arguments |-> <<>>, pending |-> NoOption, stopped |-> FALSE, error |-> ""]

(* One value more for an option, unless its type refuses it.                 *)
Give(state, o, raw) ==
  IF validate(o, raw)
  THEN [state EXCEPT !.values[o.long] = Append(@, raw), !.pending = NoOption]
  ELSE [state EXCEPT !.error = "option_argument_value_error"]

Take(options, state, word) ==
  LET known == {o \in Range(options) : Matches(o, word)}
      o == CHOOSE o \in known : TRUE
  IN CASE state.error # "" -> state
       [] state.error = "" /\ state.pending # NoOption -> Give(state, state.pending, word.text)
       [] state.error = "" /\ state.pending = NoOption /\ state.stopped ->
            [state EXCEPT !.arguments = Append(@, word.text)]
       [] state.error = "" /\ state.pending = NoOption /\ ~state.stopped ->
            CASE word.opt = "end" -> [state EXCEPT !.stopped = TRUE]
              [] word.opt = "" ->
                   [state EXCEPT !.stopped = TRUE, !.arguments = <<word.text>>]
              [] word.opt \in {"long", "short"} /\ known = {} ->
                   [state EXCEPT !.error = "unknown_option_error"]
              [] word.opt \in {"long", "short"} /\ known # {} ->
                   CASE ~needs_arg(o) /\ word.arg = NoText -> Give(state, o, <<>>)
                     [] ~needs_arg(o) /\ word.arg # NoText ->
                          [state EXCEPT !.error = "unknown_option_error"]
                     [] needs_arg(o) /\ word.arg # NoText -> Give(state, o, word.arg)
                     [] needs_arg(o) /\ word.arg = NoText -> [state EXCEPT !.pending = o]

(* Defect: the options of the command are looked for after its operands too. *)
parsePermuting(words, options) ==
  LET isOption(w) == \E o \in Range(options) : Matches(o, w)
      sorted == SelectSeq(words, isOption) \o SelectSeq(words, LAMBDA w : ~isOption(w))
      last == FoldLeft(LAMBDA s, w : Take(options, s, w), Start(options), sorted)
  IN IF last.error = "" /\ last.pending # NoOption
     THEN [last EXCEPT !.error = "missing_option_argument_error"] ELSE last

(* cmdline::parse(), of the words after the name of the program or command.  *)
parse(words, options) ==
  LET last == FoldLeft(LAMBDA s, w : Take(options, s, w), Start(options), words)
  IN IF last.error = "" /\ last.pending # NoOption
     THEN [last EXCEPT !.error = "missing_option_argument_error"] ELSE last

(* parsed_cmdline: an option with a default value always counts as given.    *)
has_option(parsed, long) == parsed.values[long] # <<>>

get_option(parsed, o) == convert(o, Last(parsed.values[o.long]))
get_multi_option(parsed, o) ==
  [i \in DOMAIN parsed.values[o.long] |-> convert(o, parsed.values[o.long][i])]
-----------------------------------------------------------------------------
(* Reference: the part that each word plays in a command line.               *)
Parts(words, options) ==
  LET Takes(w) == w.arg = NoText /\ \E o \in Range(options) : Matches(o, w) /\ needs_arg(o)
      part[i \in 0..Len(words)] ==
        CASE i = 0 -> "value"
          [] i > 0 /\ part[i - 1] = "option" /\ Takes(words[i - 1]) -> "value"
          [] i > 0 /\ part[i - 1] \in {"end", "operand"} -> "operand"
          [] OTHER -> CASE words[i].opt = "end" -> "end"
                        [] words[i].opt = "" -> "operand"
                        [] OTHER -> "option"
  IN part

(* The values that the words give to an option, in their order.              *)
Given(words, options, o) ==
  LET part == Parts(words, options)
      uses == SetToSortSeq({i \in DOMAIN words : part[i] = "option" /\ Matches(o, words[i])}, <)
  IN [k \in DOMAIN uses |->
        LET w == words[uses[k]]
        IN CASE ~needs_arg(o) -> <<>>
             [] needs_arg(o) /\ w.arg # NoText -> w.arg
             [] needs_arg(o) /\ w.arg = NoText -> words[uses[k] + 1].text]

Operands(words, options) ==
  LET part == Parts(words, options)
      from == SetToSortSeq({i \in DOMAIN words : part[i] = "operand"}, <)
  IN [k \in DOMAIN from |-> words[from[k]].text]
=============================================================================
