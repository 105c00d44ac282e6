------------------------------- MODULE CsvUtil -------------------------------
(***************************************************************************)
(* The CSV file of an export: tasksToCsv of the worker, on texts over the    *)
(* characters it tells apart, and a reader of RFC 4180 to read it back.      *)
(***************************************************************************)
EXTENDS Integers, SequencesExt

CONSTANT Chars  \* the characters of a text

Quote == "\""
Comma == ","
Cr == "\r"
Lf == "\n"

\* "x" is a character that means nothing in a CSV file.
ASSUME CharsAssumption == {"x", Quote, Comma, Cr, Lf} \subseteq Chars

\* The texts of at most n characters.
Text(n) == UNION {[1 .. k -> Chars] : k \in 0 .. n}

\* A title is trimmed and not empty; null as a description is written like "".
Titles(n) == {t \in Text(n) : t # <<>> /\ {t[1], t[Len(t)]} \cap {Cr, Lf} = {}}

Occurs(chars, text) == \E i \in DOMAIN text : text[i] \in chars

Doubled(text) ==
    FlattenSeq([i \in DOMAIN text |-> IF text[i] = Quote THEN <<Quote, Quote>> ELSE <<text[i]>>])

\* Mutant: the carriage return is missing in the expression.
EscapeButCr(value) ==
    IF Occurs({Quote, Comma, Lf}, value) THEN <<Quote>> \o Doubled(value) \o <<Quote>> ELSE value

Escape(value) ==
    IF Occurs({Quote, Comma, Cr, Lf}, value) THEN <<Quote>> \o Doubled(value) \o <<Quote>>
    ELSE value

\* A line: the cells, with commas between them, and CRLF.
Line(record) ==
    Escape(record[1])
    \o FlattenSeq([i \in 1 .. Len(record) - 1 |-> <<Comma>> \o Escape(record[i + 1])])
    \o <<Cr, Lf>>

\* The record of a task: between an id and dates, which need no quotes, its title
\* and its description.
Cells(task) == << <<"x">>, task.title, task.description, <<"x">> >>

Header == << <<"x">>, <<"x">>, <<"x">>, <<"x">> >>

Rows(tasks) == <<Header>> \o [i \in DOMAIN tasks |-> Cells(tasks[i])]

tasksToCsv(tasks) == FlattenSeq([i \in DOMAIN Rows(tasks) |-> Line(Rows(tasks)[i])])

-----------------------------------------------------------------------------
(* A reader of RFC 4180, one character at a time *)

Begin == [mode |-> "plain", cell |-> <<>>, record |-> <<>>, rows |-> <<>>]

EndCell(s) == [s EXCEPT !.mode = "plain", !.cell = <<>>, !.record = Append(@, s.cell)]
EndRow(s) == [EndCell(s) EXCEPT !.record = <<>>, !.rows = Append(@, EndCell(s).record)]
Take(s, c) == [s EXCEPT !.cell = Append(@, c)]

ReadChar(s, c) ==
    CASE s.mode = "quoted" -> IF c = Quote THEN [s EXCEPT !.mode = "closed"] ELSE Take(s, c)
      [] s.mode = "closed" /\ c = Quote -> [Take(s, c) EXCEPT !.mode = "quoted"]
      [] s.mode = "plain" /\ c = Quote /\ s.cell = <<>> -> [s EXCEPT !.mode = "quoted"]
      [] c = Comma /\ s.mode # "quoted" -> EndCell(s)
      [] c = Cr /\ s.mode # "quoted" -> s
      [] c = Lf /\ s.mode # "quoted" -> EndRow(s)
      [] OTHER -> Take(s, c)

\* What a reader in state s has read at the end of a text.
Scan(s, text) ==
    LET read[i \in 0 .. Len(text)] ==
          IF i = 0 THEN s ELSE ReadChar(read[i - 1], text[i])
    IN  read[Len(text)]

ReadCsv(text) == Scan(Begin, text).rows

\* Whatever separators, quotes and line breaks a title and a description hold,
\* alone or together, a reader of RFC 4180 gets them back, each in its cell.
ReadsBack(n, k) ==
    \A title \in Titles(n), description \in Text(k) :
        LET task == [title |-> title, description |-> description]
        IN  ReadCsv(tasksToCsv(<<task, task>>)) = Rows(<<task, task>>)

=============================================================================
