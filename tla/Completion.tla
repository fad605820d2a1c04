----------------------------- MODULE Completion -----------------------------
(***************************************************************************)
(* Tab completion of the REPL (repl/src/main.c, e4__dict_suggest): the     *)
(* text of the line, the header that was suggested last, and the           *)
(* dictionary, which programs change between two lines.                    *)
(*                                                                         *)
(* A header is known by its place, which is used again when it has been    *)
(* forgotten; 0 is NULL.                                                   *)
(***************************************************************************)
EXTENDS Naturals, SequencesExt

CONSTANTS
  Builtins,     \* the names of the builtin words, the oldest first
  Names,        \* the names programs give to words
  Characters,   \* the characters of lines and names
  Typed,        \* those that are typed
  LongestPrefix,  \* sizeof(rd->sug_prefix) - 1
  MaxLine,      \* bound on the line that more is typed into or that is completed
  MaxWords      \* bound on the dictionary

ASSUME CompletionAssumption ==
  /\ Typed \cup {" "} \subseteq Characters
  /\ Builtins \in Seq(Seq(Characters \ {" "})) \ {<<>>} /\ Names \subseteq Seq(Characters \ {" "})
  /\ LongestPrefix \in Nat /\ MaxLine \in Nat /\ MaxWords \in Nat

VARIABLES
  dict,         \* the headers, the newest last
  editing,      \* in el_gets
  left, right,  \* the line before and after the cursor
  sug,          \* rd->sug
  sug_prefix    \* rd->sug_prefix

completionVars == <<dict, editing, left, right, sug, sug_prefix>>

NULL == 0
Header(name, compiling) == [name |-> name, compiling |-> compiling]

CompletionInit ==
  /\ dict = [i \in DOMAIN Builtins |-> Header(Builtins[i], FALSE)]
  /\ editing = FALSE /\ left = <<>> /\ right = <<>> /\ sug = NULL /\ sug_prefix = <<>>

-----------------------------------------------------------------------------
(* The dictionary. *)

tolower(c) == CASE c = "A" -> "a" [] c = "B" -> "b" [] OTHER -> c
Lower(text) == [i \in DOMAIN text |-> tolower(text[i])]
Begins(name, prefix) == IsPrefix(Lower(prefix), Lower(name))

\* Where the search begins: below the last suggestion, or at the newest word
\* unless it is being compiled.
From == IF sug # NULL THEN sug - 1
        ELSE IF dict[Len(dict)].compiling THEN Len(dict) - 1 ELSE Len(dict)

mem_dict_suggest(from, prefix) ==
  LET fit == {i \in 1..from : Begins(dict[i].name, prefix)}
  IN  IF fit = {} THEN NULL ELSE CHOOSE i \in fit : \A j \in fit : j <= i

-----------------------------------------------------------------------------
(* Typing. *)

\* The first character of the word that is replaced, less one: the space that
\* follows a suggestion is part of it.  Fault: it is not.
WordStart_Space == CHOOSE i \in 0..Len(left) : /\ i > 0 => left[i] = " "
                                               /\ \A j \in (i + 1)..Len(left) : left[j] # " "
WordStart ==
  LET end == IF sug # NULL THEN Len(left) - 1 ELSE Len(left)
  IN  CHOOSE i \in 0..end : /\ i > 0 => left[i] = " "
                            /\ \A j \in (i + 1)..end : left[j] # " "

TooLong(n) == n > LongestPrefix

\* repl_suggest
Suggest ==
  editing /\ \E i \in {WordStart} :
    /\ ~(sug = NULL /\ (TooLong(Len(left) - i) \/ Len(left) + Len(right) > MaxLine))
    /\ sug_prefix' = IF sug = NULL THEN SubSeq(left, i + 1, Len(left)) ELSE sug_prefix
    /\ sug' = mem_dict_suggest(From, sug_prefix')
    /\ left' = SubSeq(left, 1, i) \o IF sug' # NULL THEN Append(dict[sug'].name, " ") ELSE sug_prefix'
    /\ UNCHANGED <<dict, editing, right>>

\* repl_wgetc, when it reads another key.
wgetc == sug' = NULL

Type == \E c \in Typed : /\ editing /\ Len(left) + Len(right) < MaxLine /\ left' = Append(left, c) /\ wgetc
                         /\ UNCHANGED <<dict, editing, right, sug_prefix>>
CursorLeft == /\ editing /\ left # <<>> /\ wgetc
              /\ left' = Front(left) /\ right' = <<left[Len(left)]>> \o right
              /\ UNCHANGED <<dict, editing, sug_prefix>>
CursorRight == /\ editing /\ right # <<>> /\ wgetc
               /\ left' = Append(left, Head(right)) /\ right' = Tail(right)
               /\ UNCHANGED <<dict, editing, sug_prefix>>

\* el_gets returns: the line is entered, or the read was interrupted or failed.
Leave       == editing /\ editing' = FALSE /\ left' = <<>> /\ right' = <<>> /\ UNCHANGED <<dict, sug_prefix>>
Enter       == Leave /\ wgetc
Interrupted == Leave /\ UNCHANGED sug

\* repl_accept.  Fault: the suggestion of an interrupted line is kept.
Accept_Kept == ~editing /\ editing' = TRUE /\ UNCHANGED <<dict, left, right, sug, sug_prefix>>
Accept      == ~editing /\ editing' = TRUE /\ sug' = NULL /\ UNCHANGED <<dict, left, right, sug_prefix>>

-----------------------------------------------------------------------------
(* Between two lines. *)

Words(chain) == ~editing /\ dict' = chain /\ UNCHANGED <<editing, left, right, sug, sug_prefix>>
Compiling == dict[Len(dict)].compiling

Define == \E name \in Names, compiling \in BOOLEAN :
            Len(dict) < MaxWords /\ ~Compiling /\ Words(Append(dict, Header(name, compiling)))
Finish == Compiling /\ Words([dict EXCEPT ![Len(dict)].compiling = FALSE])
Forget == \E i \in (Len(Builtins) + 1)..Len(dict) : Words(SubSeq(dict, 1, i - 1))

\* repl_key reads a character with repl_wgetc, too.
Key == ~editing /\ wgetc /\ UNCHANGED <<dict, editing, left, right, sug_prefix>>

CompletionNext == Suggest \/ Type \/ CursorLeft \/ CursorRight \/ Enter \/ Interrupted \/ Accept
          \/ Define \/ Finish \/ Forget \/ Key
CompletionSpec == CompletionInit /\ [][CompletionNext]_completionVars

-----------------------------------------------------------------------------
(* Properties. *)

\* What was typed fits where it is kept, with the character that ends it.
CompletionTypeOK ==
  /\ dict \in Seq([name : Names \cup Range(Builtins), compiling : BOOLEAN]) /\ editing \in BOOLEAN
  /\ left \in Seq(Characters) /\ right \in Seq(Characters)
  /\ sug \in Nat /\ Len(sug_prefix) <= LongestPrefix

\* While a line is typed, the last suggestion is a word that can be found, and
\* it is what stands before the cursor: the pointer never outlives a word that
\* was forgotten, or the text that was put in for it.
SuggestionIsShown ==
  editing /\ sug # NULL =>
    /\ sug \in DOMAIN dict /\ ~dict[sug].compiling
    /\ Begins(dict[sug].name, sug_prefix)
    /\ IsSuffix(Append(dict[sug].name, " "), left)

\* What was typed fits, and what was suggested is there.
CompletionInv == CompletionTypeOK /\ SuggestionIsShown

Offers == LET older(i) == i < sug /\ Begins(dict[i].name, sug_prefix)
              found == SelectSeq(Reverse([i \in DOMAIN dict |-> i]), older)
          IN  Append([k \in DOMAIN found |-> Append(dict[found[k]].name, " ")], sug_prefix)
Completing == editing /\ sug # NULL
FoundWords == LET found == IF Compiling THEN Front(dict) ELSE dict IN [i \in DOMAIN found |-> found[i].name]

Abstract == INSTANCE Suggestions WITH
  SPACE <- " ", Fold <- tolower, words <- FoundWords,
  kept <- IF Completing THEN SubSeq(left, 1, Len(left) - Len(dict[sug].name) - 1) ELSE <<>>,
  offers <- IF Completing THEN Offers ELSE <<>>

\* Every Tab replaces exactly what the last one put in, offers each word that
\* begins as typed once, the newest first, then puts back what was typed; the
\* rest of the line is never touched.
ImplementsSuggestions == Abstract!Spec
=============================================================================
