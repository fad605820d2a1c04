---------------------------- MODULE Suggestions -----------------------------
(***************************************************************************)
(* What the completion key of the REPL promises.  The first time it        *)
(* replaces the word before the cursor by the newest word that begins with *)
(* it, then by the older ones, then puts back what was typed, and begins   *)
(* again; any other key takes what is shown.  No pointer into the          *)
(* dictionary and no length is kept.  This is the abstract specification   *)
(* of Completion.                                                          *)
(***************************************************************************)
EXTENDS Sequences, Naturals, SequencesExt

CONSTANTS
  SPACE,          \* what separates words
  Fold(_),        \* a character without its case
  LongestPrefix   \* longer words are not completed

VARIABLES
  words,      \* the words that can be found, the oldest first
  editing,    \* a line is being typed
  left, right,  \* the line before and after the cursor
  kept,       \* while words are offered: the line before the completed word
  offers      \* what the next keys will show in its place

vars == <<words, editing, left, right, kept, offers>>

Init == words \in Seq(Seq(STRING)) /\ editing = FALSE /\ left = <<>> /\ right = <<>> /\ kept = <<>> /\ offers = <<>>

LastWord(line) == CHOOSE i \in 0..Len(line) : /\ i > 0 => line[i] = SPACE
                                              /\ \A j \in (i + 1)..Len(line) : line[j] # SPACE
Folded(text) == [i \in DOMAIN text |-> Fold(text[i])]
Offered(prefix) ==
  LET fits(name) == IsPrefix(Folded(prefix), Folded(name))
      names == SelectSeq(Reverse(words), fits)
  IN  Append([i \in DOMAIN names |-> Append(names[i], SPACE)], prefix)

Show(before, texts) ==
  /\ left' = before \o texts[1] /\ offers' = Tail(texts)
  /\ kept' = IF Len(texts) = 1 THEN <<>> ELSE before
  /\ UNCHANGED <<words, editing, right>>

Complete ==
  /\ editing
  /\ IF offers # <<>> THEN Show(kept, offers)
     ELSE LET i == LastWord(left)
              prefix == SubSeq(left, i + 1, Len(left))
          IN  Len(prefix) <= LongestPrefix /\ Show(SubSeq(left, 1, i), Offered(prefix))

Nothing == kept' = <<>> /\ offers' = <<>>

Key == /\ editing /\ Nothing /\ UNCHANGED <<words, editing>>
       /\ \/ Len(left') = Len(left) + 1 /\ IsPrefix(left, left') /\ UNCHANGED right
          \/ left' \o right' = left \o right
Leave == editing /\ editing' = FALSE /\ left' = <<>> /\ right' = <<>> /\ Nothing /\ UNCHANGED words
Begin == ~editing /\ editing' = TRUE /\ UNCHANGED <<words, left, right, kept, offers>>
Other == ~editing /\ UNCHANGED <<editing, left, right, kept, offers>>

Next == Complete \/ Key \/ Leave \/ Begin \/ Other
Spec == Init /\ [][Next]_vars
=============================================================================
