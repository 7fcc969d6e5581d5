--------------------------------- MODULE Wrap ---------------------------------
(***************************************************************************)
(* How lltop breaks a text into the lines of an area: wrap of              *)
(* lltop/src/tui/format.rs, and the widths and indents draw_list and       *)
(* detail_lines give it.  A text is a sequence of characters; of a         *)
(* character only its terminal cells and whether it separates matter.      *)
(* Whether a text fits is decided by the width of the whole text, where it *)
(* is cut by those of its characters; the two differ for emoji sequences.  *)
(***************************************************************************)
EXTENDS Naturals, Sequences, FiniteSetsExt

\* The cells ratatui gives a character by itself: an emoji ("wide") and a skin
\* tone take two, combining marks and the emoji selector (U+FE0F) none.
Cells(character) ==
  CASE character \in {"wide", "tone"} -> 2 [] character \in {"mark", "selector"} -> 0 [] OTHER -> 1

\* The cells it gives the i-th character in a text: a selector makes the symbol
\* before it an emoji of two cells, a skin tone is part of the emoji before it.
CellsIn(text, i) ==
  CASE i > 1 /\ text[i] = "selector" /\ text[i - 1] = "symbol" -> 1
    [] i > 1 /\ text[i] = "tone" /\ text[i - 1] = "wide" -> 0
    [] OTHER -> Cells(text[i])

display_width(text) == MapThenSumSet(LAMBDA i : CellsIn(text, i), DOMAIN text)

\* What wrap adds up to cut a text: the cells of its characters one by one.
used_width(text) == MapThenSumSet(LAMBDA i : Cells(text[i]), DOMAIN text)

Monus0(a, b) == IF a < b THEN 0 ELSE a - b
AtLeast1(width) == IF width = 0 THEN 1 ELSE width

\* The characters that fit; the first is taken even where it does not.
Fitting(text, width) ==
  AtLeast1(Max({n \in 0 .. Len(text) : used_width(SubSeq(text, 1, n)) <= width}))

Ends(text, limit, separator) ==
  {n \in Len(separator) .. limit : SubSeq(text, n - Len(separator) + 1, n) = separator}

Split_AtByteLimit(text, width) ==
  Max({n \in 0 .. Len(text) : used_width(SubSeq(text, 1, n)) <= width})

\* Where a text too wide for its line is cut: after the last ", " that fits,
\* else the last "/", else the last space, else wherever the line is full.
Split(text, width) ==
  LET limit == Fitting(text, width)
      after == SelectSeq(<<<<",", " ">>, <<"/">>, <<" ">>>>,
                         LAMBDA separator : Ends(text, limit, separator) # {})
  IN IF after = <<>> THEN limit ELSE Max(Ends(text, limit, Head(after)))

\* The loop, from each character of the text on; as every turn takes at least
\* one character, Len(text) + 1 turns are enough.
wrap(text, first_width, continuation_width) ==
  LET rest(from) == SubSeq(text, from, Len(text))
      lines[turns \in 0 .. Len(text) + 1] ==
        [from \in 1 .. Len(text) + 1 |->
           LET width == AtLeast1(IF from = 1 THEN first_width ELSE continuation_width)
           IN IF display_width(rest(from)) <= width \/ turns = 0
              THEN <<rest(from)>>
              ELSE LET cut == Split(rest(from), width)
                   IN <<SubSeq(rest(from), 1, cut)>> \o lines[turns - 1][from + cut]]
  IN lines[Len(text) + 1][1]

\* A row of the list, content_width cells wide.
list_lines(text, indent, content_width) ==
  LET continuation == Min({indent, Monus0(content_width, 1)})
      lines == wrap(text, content_width, Monus0(content_width, continuation))
  IN [n \in DOMAIN lines |-> [before |-> IF n = 1 THEN 0 ELSE continuation, text |-> lines[n]]]

\* A field of the detail pane: its label, then its value.
field_lines(label, value, width) ==
  LET indent == Min({label + 4, Monus0(width, 1)})
      lines == wrap(value, Monus0(width, label), Monus0(width, indent))
  IN [n \in DOMAIN lines |-> [before |-> IF n = 1 THEN label ELSE indent, text |-> lines[n]]]
=============================================================================
