------------------------------- MODULE MultiLine -------------------------------
(***************************************************************************)
(* Text across several lines: multi_line (utility_classes/multi_line.cpp). *)
(* The statements of a document, their <prepare> statements, the custom    *)
(* header and the built-in grammar pass through it: they lose the blank    *)
(* lines around them and the indentation their lines have in common.       *)
(*                                                                         *)
(* A text is a sequence of characters; its last line need not end in NL.   *)
(***************************************************************************)
EXTENDS Naturals, Sequences, SequencesExt

NL == "\n"
SPACE == " "
Isspace(c) == c \in {NL, SPACE}

\* std::getline until the end: an empty rest is not a line.  rtrim has no
\* effect on the split, which reads on to the end of the string it is part of
Add(lines, c) ==
  IF c = NL THEN Append(lines, <<>>) ELSE [lines EXCEPT ![Len(lines)] = Append(@, c)]
Lines(lines, text) == FoldLeft(Add, lines, text)
split(text) ==
  LET lines == Lines(<<<<>>>>, text)
  IN IF Last(lines) = <<>> THEN Front(lines) ELSE lines

is_whitespace_line(l) == \A k \in DOMAIN l : Isspace(l[k])

\* rtrim, then ltrim
trim(l) ==
  IF is_whitespace_line(l) THEN <<>>
  ELSE SubSeq(l, SelectInSeq(l, LAMBDA c : ~Isspace(c)), SelectLastInSeq(l, LAMBDA c : ~Isspace(c)))

indent(l) == SelectInSeq(l, LAMBDA c : ~Isspace(c)) - 1

\* (Operators named Defect... are faulty variants of the definition that
\* follows them: the mutant runs of PROJECT.json put them in its place.)

\* the indentation of the first line, which later lines may not reach
Defectcommon(block) == indent(Head(block))

\* the indentation all lines of a block have, other than the blank ones
common(block) ==
  LET indents == {indent(l) : l \in {m \in ToSet(block) : ~is_whitespace_line(m)}}
  IN CHOOSE n \in indents : \A m \in indents : n <= m

minimize(o) ==
  LET first == SelectInSeq(o, LAMBDA l : ~is_whitespace_line(l))
      last == SelectLastInSeq(o, LAMBDA l : ~is_whitespace_line(l))
      block == SubSeq(o, first, last)
  IN IF first = 0 THEN <<>>
     ELSE [k \in DOMAIN block |-> SubSeq(block[k], common(block) + 1, Len(block[k]))]

to_vec(text) == minimize(split(text))

\* the lines run into each other
Defectone_line(lines) == FlattenSeq([k \in DOMAIN lines |-> trim(lines[k])])

\* operator std::string
one_line(lines) == FlattenSeq([k \in DOMAIN lines |-> Append(trim(lines[k]), SPACE)])

=============================================================================
