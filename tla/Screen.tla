-------------------------------- MODULE Screen --------------------------------
(* What cmdline::ui prints (utils/cmdline/ui.cpp) and how it fits the text   *)
(* in the width of the screen (utils/text/operations.cpp, table.cpp).  A     *)
(* text is a sequence of characters, of which only the space is told apart.  *)
EXTENDS SequencesExt

CONSTANTS
  Messages,      \* texts given to out_wrap() and out_tag_wrap()
  Tables,        \* tables given to out_table(): sequences of rows of two cells
  Tag, Prefix,   \* the tag of out_tag_wrap() and the prefix of out_table()
  Separator,     \* table_formatter::_separator
  Columns,       \* what COLUMNS may hold, NoWidth or Invalid included
  Terminals,     \* widths of the terminal, or NoWidth if stdout is not one
  Wide           \* the width from which a margin is left (80 in the code)

NoWidth == -1
Invalid == -2
Margin == 5
Huge == 1000     \* stands for what is left of a size_t after an underflow
Minus(a, b) == IF a >= b THEN a - b ELSE Huge

VARIABLES
  columns, terminal,   \* the environment
  width_done, width,   \* the statics of screen_width()
  printed              \* what the last call wrote: [call, text, lines] or "abort"

screen_vars == <<columns, terminal, width_done, width, printed>>

Spaces(n) == [i \in 1..n |-> " "]
Silent == [call |-> "none", text |-> <<>>, lines |-> <<>>]
-----------------------------------------------------------------------------
(* Defect: a line that ends right before a space is broken before its word.  *)
line_widthShort(input, start, target) ==
  LET n == Len(input)
      spaces == {i \in 0..(n - 1) : input[i + 1] = " "}
      before == {i \in spaces : start + target = 0 \/ i <= start + target - 1}
      after == {i \in spaces : i >= start + target}
  IN CASE start + target >= n - 1 -> n - start
       [] start + target < n - 1 /\ (before = {} \/ Max(before) < start + 1) ->
            IF after = {} THEN n - start ELSE Min(after) - start
       [] OTHER -> Max(before) - start

(* Characters of the line that begins at "start", counted from 0.  With a    *)
(* target of zero find_last_of() searches all of the text at first.          *)
line_width(input, start, target) ==
  LET n == Len(input)
      spaces == {i \in 0..(n - 1) : input[i + 1] = " "}
      before == {i \in spaces : start + target = 0 \/ i <= start + target - 1}
      after == {i \in spaces : i >= start + target}
  IN CASE start + target >= n -> n - start
       [] start + target < n /\ input[start + target + 1] = " " -> target
       [] start + target < n /\ input[start + target + 1] # " "
            /\ (before = {} \/ Max(before) < start + 1) ->
            IF after = {} THEN n - start ELSE Min(after) - start
       [] OTHER -> Max(before) - start

refill(input, target) ==
  LET n == Len(input)
      from[start \in 0..(n + 1)] ==
        IF start >= n THEN <<>>
        ELSE LET w == line_width(input, start, target)
             IN <<SubSeq(input, start + 1, start + w)>> \o from[start + w + 1]
  IN IF n = 0 THEN <<<<>>>> ELSE from[0]

join(texts, delimiter) ==
  FoldLeft(LAMBDA acc, i : acc \o (IF i > 1 THEN delimiter ELSE <<>>) \o texts[i],
           <<>>, [i \in DOMAIN texts |-> i])
-----------------------------------------------------------------------------
(* Tables.  The second column of the help is the one to refill.              *)
column_width(table, c) == IF table = <<>> THEN 0 ELSE Max({Len(table[r][c]) : r \in DOMAIN table})
width_refill == Huge

override_column_widths(table, user_widths) ==
  [c \in DOMAIN user_widths |->
     IF user_widths[c] = 0 THEN column_width(table, c) ELSE user_widths[c]]

find_refill_column(widths) ==
  IF \E c \in DOMAIN widths : widths[c] = width_refill
  THEN Min({c \in DOMAIN widths : widths[c] = width_refill}) ELSE Len(widths)

refill_widths(widths, user_max_width, column_padding) ==
  LET padding == column_padding * (Len(widths) - 1)
      max_width == Max({user_max_width, padding}) - padding
      column == find_refill_column(widths)
      taken == FoldLeft(LAMBDA acc, c : IF c = column THEN acc ELSE acc + widths[c],
                        0, [c \in DOMAIN widths |-> c])
  IN [widths EXCEPT ![column] = Minus(max_width, taken)]

pad_cell(input, length, is_last) ==
  IF is_last \/ Len(input) >= length THEN input ELSE input \o Spaces(length - Len(input))

format_row(row, widths, separator) ==
  LET cell == [c \in DOMAIN row |->
                 IF widths[c] > Len(row[c]) THEN <<row[c]>> ELSE refill(row[c], widths[c])]
      height == Max({Len(cell[c]) : c \in DOMAIN row})
      part(i, c) == pad_cell(IF i <= Len(cell[c]) THEN cell[c][i] ELSE <<>>, widths[c], c = Len(row))
  IN [i \in 1..height |-> join([c \in DOMAIN row |-> part(i, c)], separator)]

format(table, user_widths, table_width, separator) ==
  LET overridden == override_column_widths(table, user_widths)
      widths == IF table_width = 0 THEN overridden
                ELSE refill_widths(overridden, table_width, Len(separator))
  IN FlattenSeq([r \in DOMAIN table |-> format_row(table[r], widths, separator)])
-----------------------------------------------------------------------------
(* screen_width(): COLUMNS if it is a number, else the terminal.             *)
query_width ==
  LET found == IF columns \notin {NoWidth, Invalid} THEN columns ELSE terminal
  IN IF found >= Wide THEN found - Margin ELSE found

(* The width, looked for in the first call only.                             *)
screen_width == IF width_done THEN width ELSE query_width
QueryWidth == width_done' = TRUE /\ width' = screen_width

ScreenInit ==
  /\ columns \in Columns /\ terminal \in Terminals
  /\ width_done = FALSE /\ width = NoWidth /\ printed = Silent

Resize ==
  /\ \E w \in Terminals : terminal' = w
  /\ UNCHANGED <<columns, width_done, width, printed>>

OutWrap ==
  /\ printed = Silent
  /\ \E m \in Messages :
       printed' = [call |-> "wrap", text |-> m,
                   lines |-> IF screen_width = NoWidth THEN <<m>> ELSE refill(m, screen_width)]
  /\ QueryWidth
  /\ UNCHANGED <<columns, terminal>>

(* The tag is repeated or, on the lines after the first, replaced by blanks. *)
out_tag_wrap(message, repeat, w) ==
  IF w # NoWidth /\ w > Len(Tag)
  THEN LET lines == refill(message, w - Len(Tag))
       IN [i \in DOMAIN lines |->
             (IF repeat \/ i = 1 THEN Tag ELSE Spaces(Len(Tag))) \o lines[i]]
  ELSE <<Tag \o message>>

OutTagWrap ==
  /\ printed = Silent
  /\ \E m \in Messages, repeat \in BOOLEAN :
       printed' = [call |-> "tag", text |-> m, lines |-> out_tag_wrap(m, repeat, screen_width)]
  /\ QueryWidth
  /\ UNCHANGED <<columns, terminal>>

(* The formatter of cmd_help: the first column is as wide as its widest      *)
(* cell, the second takes what is left of the screen.                        *)
HelpWidths(table) == <<column_width(table, 1), width_refill>>

(* An empty table prints nothing, and the width is not asked for.  A width   *)
(* of zero for the table fails the precondition of set_table_width().        *)
OutTable ==
  /\ printed = Silent
  /\ \E t \in Tables :
       LET w == screen_width
           table_width == IF w = NoWidth THEN 0 ELSE Minus(w, Len(Prefix))
           lines == format(t, HelpWidths(t), table_width, Separator)
       IN IF t = <<>> THEN printed' = Silent /\ UNCHANGED <<width_done, width>>
          ELSE /\ QueryWidth
               /\ IF w # NoWidth /\ table_width = 0
                  THEN printed' = [Silent EXCEPT !.call = "abort"]
                  ELSE printed' = [call |-> "table", text |-> t,
                                   lines |-> [i \in DOMAIN lines |-> Prefix \o lines[i]]]
  /\ UNCHANGED <<columns, terminal>>

(* std::cout takes the lines.                                                *)
Flush == printed # Silent /\ printed' = Silent /\ UNCHANGED <<columns, terminal, width_done, width>>

ScreenNext == Resize \/ Flush \/ OutWrap \/ OutTagWrap \/ OutTable
-----------------------------------------------------------------------------
(* A text up to the blanks at which it may have been broken.                 *)
Words(text) ==
  LET breaks == {i \in DOMAIN text : text[i] = " "}
      starts == {i \in DOMAIN text : i \notin breaks /\ (i = 1 \/ i - 1 \in breaks)}
      stop(i) == CHOOSE j \in DOMAIN text :
                   i <= j /\ (i..j) \cap breaks = {} /\ (j = Len(text) \/ j + 1 \in breaks)
  IN [k \in 1..Cardinality(starts) |->
        LET i == CHOOSE i \in starts : Cardinality({s \in starts : s < i}) = k - 1
        IN SubSeq(text, i, stop(i))]

AllWords(texts) == FlattenSeq([i \in DOMAIN texts |-> Words(texts[i])])
Fits(line, indent) == Len(line) <= width \/ Len(Words(SubSeq(line, indent + 1, Len(line)))) <= 1

(* Whatever width the screen has, no word of a message is lost, repeated or  *)
(* cut; and if the screen is wider than what surrounds the text, a line only *)
(* exceeds it when it is one word (ui::out_wrap(), out_tag_wrap(),           *)
(* out_table(), text::refill(), table_formatter::format()).                  *)
FitsTheScreen ==
  LET p == printed
      margin == CASE p.call = "tag" -> Len(Tag)
                  [] p.call = "table" -> Len(Prefix) + column_width(p.text, 1) + Len(Separator)
                  [] OTHER -> 0
      body == [i \in DOMAIN p.lines |-> SubSeq(p.lines[i], margin + 1, Len(p.lines[i]))]
  IN /\ p.call \in {"wrap", "tag"} => AllWords(body) = Words(p.text)
     /\ p.call = "table" =>
          AllWords(body) = AllWords([r \in DOMAIN p.text |-> p.text[r][2]])
     /\ p.call # "abort" /\ width > margin =>
          \A i \in DOMAIN p.lines : Fits(p.lines[i], margin)
=============================================================================
