------------------------------ MODULE EnvFiles ------------------------------
(***************************************************************************)
(* The files through which the steps of a job set outputs, variables and   *)
(* PATH (src/src/process/EnvManager.cpp, and the end of StepRunner::run in *)
(* src/src/runner/StepRunner.cpp). A file is a sequence of pieces: "<<",   *)
(* "=", "LF" and "CR" (the ends of its lines) and words that hold none of  *)
(* these; the last line of a file need not be ended. A value is the        *)
(* sequence of its lines.                                                  *)
(***************************************************************************)
EXTENDS Integers, Sequences, SequencesExt, TLC

-----------------------------------------------------------------------------
(* parseKeyValueFile: the loop over the lines, with the heredoc it is in *)

NoEntries == [k \in {} |-> <<>>]

\* std::getline: what follows the last "LF" is a line unless it is empty.
Lines(file) ==
  LET read == FoldLeft(LAMBDA m, piece :
                         IF piece = "LF" THEN [lines |-> Append(m.lines, m.rest), rest |-> <<>>]
                         ELSE [m EXCEPT !.rest = Append(@, piece)],
                       [lines |-> <<>>, rest |-> <<>>], file)
  IN  IF read.rest = <<>> THEN read.lines ELSE Append(read.lines, read.rest)

Trimmed(raw) == IF raw # <<>> /\ Last(raw) = "CR" THEN Front(raw) ELSE raw
Holds(line, mark) == \E k \in DOMAIN line : line[k] = mark
Find(line, mark) == CHOOSE k \in DOMAIN line :
                      line[k] = mark /\ \A j \in 1..(k - 1) : line[j] # mark
Before(line, mark) == SubSeq(line, 1, Find(line, mark) - 1)
After(line, mark) == SubSeq(line, Find(line, mark) + 1, Len(line))

\* A text with no lines and a text with one empty line are the same string.
Joined(lines) == IF lines = <<>> THEN << <<>> >> ELSE lines

\* An entry without a name is dropped.
Put(entries, key, value) == IF key = <<>> THEN entries ELSE (key :> value) @@ entries

Closed(r) == [r EXCEPT !.open = FALSE, !.entries = Put(@, r.key, Joined(r.value))]

\* "<<" is looked for before "=", anywhere in the line.
Opened(r, line) == [r EXCEPT !.open = TRUE, !.key = Before(line, "<<"),
                             !.delimiter = After(line, "<<"), !.value = <<>>]

\* Faulty variant: the end of a heredoc is looked for with its \r.
ReadLineRaw(r, raw) ==
  LET line == Trimmed(raw) IN
  CASE r.open -> IF raw = r.delimiter THEN Closed(r) ELSE [r EXCEPT !.value = Append(@, line)]
    [] ~r.open /\ Holds(line, "<<") -> Opened(r, line)
    [] ~r.open /\ Holds(line, "=") /\ ~Holds(line, "<<") ->
         [r EXCEPT !.entries = Put(@, Before(line, "="), <<After(line, "=")>>)]
    [] OTHER -> r

\* A line outside a heredoc that holds neither mark, an empty one too, is
\* passed over; inside one it is part of the value.
ReadLine(r, raw) ==
  LET line == Trimmed(raw) IN
  CASE r.open -> IF line = r.delimiter THEN Closed(r) ELSE [r EXCEPT !.value = Append(@, line)]
    [] ~r.open /\ Holds(line, "<<") -> Opened(r, line)
    [] ~r.open /\ Holds(line, "=") /\ ~Holds(line, "<<") ->
         [r EXCEPT !.entries = Put(@, Before(line, "="), <<After(line, "=")>>)]
    [] OTHER -> r

\* A heredoc that the file does not end takes everything up to its end.
ParseKeyValueFile(file) ==
  LET r == FoldLeft(ReadLine, [entries |-> NoEntries, open |-> FALSE, key |-> <<>>,
                               delimiter |-> <<>>, value |-> <<>>], Lines(file))
  IN  IF r.open THEN Closed(r).entries ELSE r.entries

-----------------------------------------------------------------------------
(* EnvManager over the steps of a job *)

\* setup: the files exist and are empty. outputs is what the last step set.
FreshEnv == [output |-> <<>>, env |-> <<>>, path |-> <<>>,
             overrides |-> NoEntries, prepends |-> <<>>, outputs |-> NoEntries]

ParseOutputs(m) == ParseKeyValueFile(m.output)

\* Both read the whole file every time: it is never emptied.
ApplyEnvChanges(m) == [m EXCEPT !.overrides = ParseKeyValueFile(m.env) @@ @]
ApplyPathChanges(m) ==
  LET lines == [k \in DOMAIN Lines(m.path) |-> Trimmed(Lines(m.path)[k])]
  IN  [m EXCEPT !.prepends = @ \o SelectSeq(lines, LAMBDA l : l # <<>>)]

\* Only the outputs (and the summary) are emptied; EnvManager.h:75 says that
\* $GITHUB_ENV and $GITHUB_PATH are as well.
ResetBetweenSteps(m) == [m EXCEPT !.output = <<>>]

\* A step appends to the three files; StepRunner::run then collects.
AfterStep(m, step) ==
  LET written == [m EXCEPT !.output = @ \o step.output, !.env = @ \o step.env,
                           !.path = @ \o step.path]
      collected == [written EXCEPT !.outputs = ParseOutputs(written)]
  IN  ResetBetweenSteps(ApplyPathChanges(ApplyEnvChanges(collected)))

-----------------------------------------------------------------------------
(* What the files are compared with: entries, and how a step writes them *)

\* An entry [key, value, form, delimiter, crlf, bare] as the text of a file; a
\* bare one does not end its last line.
EntryLines(e) ==
  CASE e.form = "pair" -> <<e.key \o <<"=">> \o e.value[1]>>
    [] e.form = "heredoc" -> <<e.key \o <<"<<">> \o e.delimiter>> \o e.value \o <<e.delimiter>>
    [] e.form = "path" -> e.value
Ended(line, crlf) == line \o (IF crlf THEN <<"CR", "LF">> ELSE <<"LF">>)
EntryText(e) ==
  FlattenSeq([k \in DOMAIN EntryLines(e) |->
                IF e.bare /\ k = Len(EntryLines(e)) THEN EntryLines(e)[k]
                ELSE Ended(EntryLines(e)[k], e.crlf)])

FileOf(entries) == FlattenSeq([k \in DOMAIN entries |-> EntryText(entries[k])])

\* The formats cannot carry a pair whose value holds "<<", nor a heredoc with
\* its own delimiter among the lines of the value.
Carried(e) ==
  CASE e.form = "pair" -> ~Holds(e.value[1], "<<")
    [] e.form = "heredoc" -> \A k \in DOMAIN e.value : e.value[k] # e.delimiter
    [] e.form = "path" -> TRUE

\* The entries up to the first one that is not carried, or whose last line
\* runs into what is written after it.
Sound(entries) ==
  LET stands(k) == Carried(entries[k]) /\ (entries[k].bare => k = Len(entries))
  IN  SubSeq(entries, 1, Max({n \in 0..Len(entries) : \A k \in 1..n : stands(k)}))

LastWrites(entries) ==
  FoldLeft(LAMBDA m, e : (e.key :> Joined(e.value)) @@ m, NoEntries, entries)

\* Everything in a sequence, at its first place.
FirstSeen(s) ==
  FoldLeft(LAMBDA seen, x : IF Contains(seen, x) THEN seen ELSE Append(seen, x), <<>>, s)
=============================================================================
