-------------------------------- MODULE Input --------------------------------
(***************************************************************************)
(* How text becomes words: reading lines (core/src/kernel/io.c), parsing   *)
(* (e4__mem_parse of core/src/util/mem.c), the words that parse or skip    *)
(* text, and the strings they store.  One program is read, from a file or  *)
(* from a string, by the loops of core/src/kernel/evaluate.c.              *)
(*                                                                         *)
(* A text is a sequence of characters.  The names of the words that matter *)
(* here are characters of their own, and [IF] has two, one for each flag a *)
(* program puts before it; any other name is an ordinary word.             *)
(***************************************************************************)
EXTENDS StringBuffer

CONSTANTS
  Letters,      \* the characters of programs
  Programs,     \* records: sid, text, and sz, the size of the input buffer
  CountedMax,   \* longest counted string (255)
  ReadsFail     \* may reading a file fail?

ASSUME InputAssumption ==
  /\ Programs \subseteq [sid : {"file", "string"}, text : Seq(Letters), sz : Nat \ {0}]
  /\ CountedMax \in Nat \ {0, 1} /\ ReadsFail \in BOOLEAN

VARIABLES
  program,  \* what is evaluated
  pos,      \* characters of the file that are read
  source,   \* io_src: buffer, length and in
  from,     \* history: where the line in the buffer begins in the text
  mode,     \* where the interpreter is: refill, words, skip, ended
  skip,     \* depth, and does an [ELSE] end it?
  seen      \* history: the pieces of the text that were parsed

inputVars == <<tsbVars, program, pos, source, from, mode, skip, seen>>

NL == "\n"
IFs   == {<<"true[IF]">>, <<"false[IF]">>}
ELSE_ == <<"[ELSE]">>
THEN_ == <<"[THEN]">>

IsString == program.sid = "string"
NoSkip   == [depth |-> 0, elseEnds |-> FALSE]

InputInit ==
  /\ tsbInit
  /\ program \in Programs
  /\ pos = 0 /\ from = 0
  /\ source = IF IsString
              THEN [buffer |-> program.text, length |-> Len(program.text), in |-> 0]
              ELSE [buffer |-> [i \in 1..program.sz |-> "junk"], length |-> 0, in |-> 0]
  /\ mode = IF IsString THEN "words" ELSE "refill"
  /\ skip = NoSkip
  /\ seen = <<>>

-----------------------------------------------------------------------------
(* Reading a line. *)

Rest == SubSeq(program.text, pos + 1, Len(program.text))
\* The rest of the file up to and with the end of its first line.
Line == SelectInSeq(Rest, LAMBDA c: c = NL)
LineLength == IF Line = 0 THEN Len(Rest) ELSE Line

\* What does not fit into the buffer is discarded.
Kept(n) == IF n < program.sz THEN n ELSE program.sz

\* Fault: parsing goes on where it was in the line before.
InAfterRefill_Same == source.in
InAfterRefill == 0

\* e4__io_file_readline and its caller e4__io_refill.
ReadLine ==
  /\ ~IsString /\ Rest # <<>>
  /\ source' = [buffer |-> Written(source.buffer, 0, SubSeq(Rest, 1, Kept(LineLength))),
                length |-> Kept(LineLength), in |-> InAfterRefill]
  /\ pos' = pos + LineLength
  /\ from' = pos

\* How much of a line may have been read when reading fails, or the file ends:
\* all of a last line that no NL ends, since reading goes on behind it.
PartialReads ==
  IF Rest = <<>> THEN {0}
  ELSE IF ReadsFail THEN 0..(IF Line = 0 THEN LineLength ELSE LineLength - 1)
  ELSE {}
ReadFails ==
  /\ ~IsString
  /\ \E n \in PartialReads :
       /\ source' = [buffer |-> Written(source.buffer, 0, SubSeq(Rest, 1, Kept(n))),
                     length |-> 0, in |-> 0]
       /\ pos' = pos + n
  /\ UNCHANGED from

-----------------------------------------------------------------------------
(* Parsing. *)

\* e4__mem_parse: how many delimiters it skips, and the length of the piece
\* behind them.
mem_parse(chars, delim, skipLeading, ignoreEsc) ==
  LET n == Len(chars)
      lead == CHOOSE k \in 0..n : /\ \A j \in 1..k : skipLeading /\ chars[j] = delim
                                  /\ k < n /\ skipLeading => chars[k + 1] # delim
      \* an odd number of backslashes comes before i
      Escapes(i) == {k \in (lead + 1)..(i - 1) : \A j \in k..(i - 1) : chars[j] = ESC}
      Stop(i) == /\ chars[i] \in {delim, NL}
                 /\ ~(ignoreEsc /\ Cardinality(Escapes(i)) % 2 = 1)
      stop == SelectInSubSeq([i \in 1..n |-> Stop(i)], lead + 1, n, LAMBDA b: b)
  IN  [lead |-> lead, size |-> (IF stop = 0 THEN n + 1 ELSE stop) - lead - 1]

\* e4__io_parse on the populated part of the buffer behind its first `in'
\* characters.  >IN is left behind the delimiter, or one past the length.
Piece(in, delim, skipLeading, ignoreEsc) ==
  LET chars == SubSeq(source.buffer, in + 1, source.length)
      piece == mem_parse(chars, delim, skipLeading, ignoreEsc)
  IN  [at |-> from + in + piece.lead, end |-> in + piece.lead + piece.size + 1,
       text |-> SubSeq(chars, piece.lead + 1, piece.lead + piece.size)]

\* e4__io_word(task, ' '), and the counted string it makes.
Next_ == Piece(source.in, " ", TRUE, FALSE)
Counted(text) == SubSeq(text, 1, IF Len(text) < CountedMax THEN Len(text) ELSE CountedMax)
Name  == Counted(Next_.text)

Seen(piece, how) == [at |-> piece.at, text |-> piece.text, how |-> how]
Noted(pieces, piece) == IF piece.text = <<>> THEN pieces ELSE Append(pieces, piece)
Note(piece) == seen' = Noted(seen, piece)
NoteBoth(piece, text) == seen' = Noted(Noted(seen, piece), text)

-----------------------------------------------------------------------------
(* The loop of e4__evaluate_internal. *)

\* The name is parsed, its word is executed.
Execute(names) == mode = "words" /\ source.in < source.length /\ Name \in names

Ordinary ==
  /\ mode = "words" /\ source.in < source.length
  /\ Name \notin IFs \cup {ELSE_, <<"(">>, <<ESC>>, <<"S_QUOTE">>, <<"S_ESC_QUOTE">>,
                           <<"REFILL">>, <<"CATCH">>}
  /\ source' = [source EXCEPT !.in = Next_.end]
  /\ Note(Seen(Next_, "executed"))
  /\ UNCHANGED <<tsbVars, program, pos, from, mode, skip>>

\* ( and \ take the rest with WORD.
Comment ==
  /\ Execute({<<"(">>, <<ESC>>})
  /\ \E text \in {Piece(Next_.end, IF Name = <<ESC>> THEN NL ELSE ")", TRUE, FALSE)} :
       /\ source' = [source EXCEPT !.in = text.end]
       /\ NoteBoth(Seen(Next_, "executed"), Seen(text, "parsed"))
  /\ UNCHANGED <<tsbVars, program, pos, from, mode, skip>>

Quoted(ignoreEsc) == Piece(Next_.end, QUOTE, FALSE, ignoreEsc)
Take(text) ==
  /\ source' = [source EXCEPT !.in = text.end]
  /\ NoteBoth(Seen(Next_, "executed"), Seen(text, "parsed"))
  /\ UNCHANGED <<program, pos, from, skip>>

S_QUOTE ==
  /\ Execute({<<"S_QUOTE">>})
  /\ \E quoted \in {Quoted(FALSE)} :
       /\ Take(quoted)
       /\ IF Pushable(quoted.text) THEN push(quoted.text) /\ UNCHANGED mode
          ELSE mode' = "ended" /\ UNCHANGED tsbVars     \* e4__E_PSTROVERFLOW

S_BACKSLASH_QUOTE ==
  /\ Execute({<<"S_ESC_QUOTE">>})
  /\ \E quoted \in {Quoted(TRUE)} :
       /\ Take(quoted)
       /\ \E e \in {Escaping(quoted.text)} :
            /\ epush(quoted.text, e)
            /\ mode' = IF e.ok THEN mode ELSE "ended"

\* e4__io_refill does nothing to a string.
REFILL ==
  /\ Execute({<<"REFILL">>})
  /\ \/ IsString /\ source' = [source EXCEPT !.in = Next_.end] /\ UNCHANGED <<pos, from, mode>>
     \/ ReadLine /\ UNCHANGED mode
     \/ ReadFails /\ mode' = "ended"
  /\ Note(Seen(Next_, "executed"))
  /\ UNCHANGED <<tsbVars, program, skip>>

\* A word that refills and then throws, executed by CATCH: io_src is put back,
\* but not what is in its buffer.
CATCH ==
  /\ Execute({<<"CATCH">>})
  /\ \E n \in IF IsString THEN {0} ELSE PartialReads \cup {LineLength} :
       /\ source' = [source EXCEPT !.in = Next_.end,
                       !.buffer = Written(@, 0, SubSeq(Rest, 1, Kept(n)))]
       /\ pos' = pos + n
  /\ Note(Seen(Next_, "executed"))
  /\ UNCHANGED <<tsbVars, program, from, mode, skip>>

BRACKET_IF ==
  /\ Execute(IFs)
  /\ source' = [source EXCEPT !.in = Next_.end]
  /\ IF Name = <<"true[IF]">> THEN UNCHANGED <<mode, skip>>
     ELSE mode' = "skip" /\ skip' = [depth |-> 1, elseEnds |-> TRUE]
  /\ Note(Seen(Next_, "executed"))
  /\ UNCHANGED <<tsbVars, program, pos, from>>

BRACKET_ELSE ==
  /\ Execute({ELSE_})
  /\ source' = [source EXCEPT !.in = Next_.end]
  /\ mode' = "skip" /\ skip' = [depth |-> 1, elseEnds |-> FALSE]
  /\ Note(Seen(Next_, "executed"))
  /\ UNCHANGED <<tsbVars, program, pos, from>>

LineEnds ==
  /\ mode = "words" /\ source.in >= source.length
  /\ mode' = IF IsString THEN "ended" ELSE "refill"
  /\ UNCHANGED <<tsbVars, program, pos, source, from, skip, seen>>

\* The loop over the lines of a file.
Refill ==
  /\ mode = "refill"
  /\ (ReadLine /\ mode' = "words") \/ (ReadFails /\ mode' = "ended")
  /\ UNCHANGED <<tsbVars, program, skip, seen>>

-----------------------------------------------------------------------------
(* The loop of [IF] and [ELSE]. *)

\* Fault: a nested [IF] is skipped like any word.
DepthAfter_Flat(name) ==
  CASE name = THEN_ -> skip.depth - 1
    [] name = ELSE_ /\ skip.elseEnds -> skip.depth - 1
    [] OTHER -> skip.depth
DepthAfter(name) ==
  CASE name \in IFs -> skip.depth + 1
    [] name = THEN_ -> skip.depth - 1
    [] name = ELSE_ /\ skip.elseEnds /\ skip.depth = 1 -> 0
    [] OTHER -> skip.depth

\* At the end of a string, whose end >IN passes and keeps on counting (here it
\* stays one past the end), it sees empty names for ever.
SkipWord ==
  /\ mode = "skip" /\ (source.in < source.length \/ IsString)
  /\ source' = [source EXCEPT !.in = IF @ > source.length THEN @ ELSE Next_.end]
  /\ LET depth == DepthAfter(Name)
     IN  /\ skip' = IF depth = 0 THEN NoSkip ELSE [skip EXCEPT !.depth = depth]
         /\ mode' = IF depth = 0 THEN "words" ELSE "skip"
  /\ Note(Seen(Next_, "skipped"))
  /\ UNCHANGED <<tsbVars, program, pos, from>>

\* Fault: the loop does not look at the outcome of the refill.
AfterFailure_Ignored == "skip"
AfterFailure == "ended"

SkipRefill ==
  /\ mode = "skip" /\ source.in >= source.length
  /\ (ReadLine /\ UNCHANGED mode) \/ (ReadFails /\ mode' = AfterFailure)
  /\ UNCHANGED <<tsbVars, program, skip, seen>>

Skip == SkipWord \/ SkipRefill

Ended == mode = "ended" /\ UNCHANGED inputVars

InputNext ==
  \/ Ordinary \/ Comment \/ S_QUOTE \/ S_BACKSLASH_QUOTE \/ REFILL \/ CATCH
  \/ BRACKET_IF \/ BRACKET_ELSE \/ LineEnds \/ Refill \/ Skip \/ Ended

\* The loop of [IF] goes on: reads of a file return.
InputSpec == InputInit /\ [][InputNext]_inputVars /\ WF_inputVars(Skip)

-----------------------------------------------------------------------------
(* Properties. *)

InputTypeOK ==
  /\ source.length \in 0..Len(source.buffer) /\ source.in \in Nat
  /\ ~IsString => Len(source.buffer) = program.sz
  /\ pos \in 0..Len(program.text) /\ from \in 0..pos
  /\ mode \in {"refill", "words", "skip", "ended"} /\ skip.depth \in Nat

\* Characters between two pieces: separators, and the ends of lines longer
\* than the buffer.
Separators == {" ", NL, ")", QUOTE}
LineStart(p) == Max({0} \cup {i \in 1..(p - 1) : program.text[i] = NL})
Skippable(p) == \/ program.text[p] \in Separators
                \/ ~IsString /\ p - LineStart(p) > program.sz

\* What REFILL, the i-th piece, leaves of its line is never parsed.
LeftBy(i, p) == /\ ~IsString /\ seen[i].how = "executed" /\ seen[i].text = <<"REFILL">>
                /\ LineStart(p) <= seen[i].at
Passed(i, p) == Skippable(p) \/ LeftBy(i, p)

\* Every piece that is parsed, as a name or by a word, is a piece of the text;
\* the pieces come in the order of the text and none is parsed twice; they are
\* apart, unless the first one is a string that escapes the end of its line;
\* and nothing but separators, the ends of long lines and of lines with a
\* REFILL is passed over, however lines end, are cut off or are skipped.
PiecesAreOfTheText ==
  LET Start(i) == seen[i].at
      End(i) == seen[i].at + Len(seen[i].text)
  IN  /\ \A i \in DOMAIN seen : SubSeq(program.text, Start(i) + 1, End(i)) = seen[i].text
      /\ \A i \in 2..Len(seen) :
           /\ Start(i) > End(i - 1) \/ (Start(i) = End(i - 1) /\ program.text[Start(i)] = NL)
           /\ \A p \in (End(i - 1) + 1)..Start(i) : Passed(i - 1, p)
      /\ mode = "refill" =>
           IF seen = <<>> THEN \A p \in 1..pos : Skippable(p)
           ELSE \A p \in (End(Len(seen)) + 1)..pos : Passed(Len(seen), p)

\* The input stays what it is and every piece of it is parsed once, in order.
InputInv == InputTypeOK /\ PiecesAreOfTheText

Names == [i \in DOMAIN seen |-> IF seen[i].how = "parsed" THEN <<>> ELSE seen[i].text]
Newest  == Len(seen)
\* How many structures that begin at piece j or later are open after piece i.
Nesting(j, i) == Cardinality({k \in j..i : Names[k] \in IFs})
                   - Cardinality({k \in j..i : Names[k] = THEN_})
\* Is the last piece inside of the [IF] at j?
Encloses(j) == Names[j] \in IFs /\ \A k \in j..(Newest - 1) : Nesting(j, k) >= 1
ElsesOf(j)  == {k \in (j + 1)..(Newest - 1) : Names[k] = ELSE_ /\ Nesting(j, k) = 1}
\* Is it in the branch that the flag before this [IF] chose?
Chosen(j)   == Cardinality(ElsesOf(j)) = IF Names[j] = <<"true[IF]">> THEN 0 ELSE 1
\* No [ELSE] or [THEN] without its [IF].
Structured  == \A i \in DOMAIN seen : Names[i] \in {ELSE_, THEN_} =>
                 \E j \in 1..(i - 1) : Names[j] \in IFs /\ \A k \in j..(i - 1) : Nesting(j, k) >= 1

\* As long as every [ELSE] and [THEN] belongs to an [IF], a word is executed
\* exactly if every [IF] around it chose the branch it is in, at any nesting
\* and across any number of lines; the other words are skipped.
ChosenWordsAreExecuted ==
  Newest > 0 /\ seen[Newest].how # "parsed" /\ Names[Newest] \notin {ELSE_, THEN_} /\ Structured =>
    (seen[Newest].how = "executed") = \A j \in 1..(Newest - 1) : Encloses(j) => Chosen(j)

\* Skipping comes to an end: with the [THEN] or [ELSE] that is looked for, or
\* with an exception at the end of the file.
SkippingEnds == (mode = "skip") ~> (mode # "skip")

\* A comment is the text up to the first delimiter; it may be empty.
CommentsEndAtTheirDelimiter ==
  [][Comment =>
       LET delims == IF Name = <<ESC>> THEN {NL} ELSE {")", NL}
       IN  \A i \in (Next_.end + 1)..(source'.in - 1) :
             i <= source.length => source.buffer[i] \notin delims]_inputVars
=============================================================================
