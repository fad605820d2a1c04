------------------------------ MODULE Compiler ------------------------------
(***************************************************************************)
(* The compiler and the dictionary of a task: core/src/kernel/compile.c,   *)
(* core/src/kernel/dict.c and the words that open, suspend, resume, finish *)
(* and abandon a definition, define words and forget them.                 *)
(*                                                                         *)
(* An address is a number; a header, an execution token and a compiled     *)
(* item take one each.  `dict' is the chain of headers that starts at      *)
(* task->dict, the newest last; empty, task->dict is a builtin.  A header  *)
(* and its execution token are identified by the header's address.         *)
(***************************************************************************)
EXTENDS Naturals, Sequences

CONSTANTS
  MaxHere,          \* bound on the dictionary
  MaxDepth,         \* cells of the data stack
  NestedColon,      \* programs run `:' and `:NONAME' in immediate words
  DefinesWhileOpen  \* programs add or forget words inside an open definition

ASSUME BoundsAssumption == MaxHere \in Nat /\ MaxDepth \in Nat
ASSUME ProgramAssumption == NestedColon \in BOOLEAN /\ DefinesWhileOpen \in BOOLEAN

VARIABLES
  here,       \* task->here
  dict,       \* task->dict and what it links to
  depth,      \* e4__stack_depth(task)
  state,      \* task->compile.state
  sus_state,  \* task->compile.sus_state
  s0,         \* task->compile.s0, as a depth
  here0,      \* task->compile.here0
  xt          \* task->compile.xt

compile == <<state, sus_state, s0, here0, xt>>
vars    == <<here, dict, depth, compile>>

NotCompiling == "0"
Named   == {"COLON", "DOES", "NONAME"}       \* e4__COMP_COLON, ...
Mode    == Named \cup {"ANONYMOUS"}
Code    == {"null", "threaded", "doesthunk", "variable", "marker"}
Header  == [at : Nat, compiling : BOOLEAN, code : Code]

Compiling == state # NotCompiling
Open      == state \in Named \/ sus_state \in Named
top       == dict[Len(dict)]

Init ==
  /\ here = 0 /\ dict = <<>> /\ depth = 0
  /\ state = NotCompiling /\ sus_state = NotCompiling
  /\ s0 = 0 /\ here0 = 0 /\ xt = 0

-----------------------------------------------------------------------------
\* What e4__dict_lookup searches: not the top entry while it is compiled.
\* Fault: the flag of the top entry is not looked at.
Visible_All == dict
Visible == IF dict # <<>> /\ top.compiling THEN SubSeq(dict, 1, Len(dict) - 1)
                                           ELSE dict

\* e4__dict_entry.
Entry(compiling, code) ==
  dict' = Append(dict, [at |-> here, compiling |-> compiling, code |-> code])

\* header i and everything above it are gone; its space is free again.
\* Fault: the header is unlinked, its space is not given back.
CutAt_HereKept(i) == dict' = SubSeq(dict, 1, i - 1) /\ UNCHANGED here
CutAt(i) == dict' = SubSeq(dict, 1, i - 1) /\ here' = dict[i].at

\* The dictionary d with token x's code set to c.
SetCode(d, x, c) ==
  [i \in DOMAIN d |-> IF d[i].at = x THEN [d[i] EXCEPT !.code = c] ELSE d[i]]

\* e4__compile_resume: what the state becomes when it is not compiling.
Resumed   == IF Compiling THEN state
             ELSE IF sus_state # NotCompiling THEN sus_state ELSE "ANONYMOUS"
\* Fault: the suspended state survives being resumed.
SusTaken_Kept == sus_state
SusTaken  == IF Compiling THEN sus_state ELSE NotCompiling

\* e4__compile_start, when it does not fail.
Start(mode, token, base) ==
  /\ state' = mode /\ s0' = depth /\ here0' = base /\ xt' = token
  /\ UNCHANGED sus_state

\* e4__compile_cancel.  The word a colon definition forgets is the newest.
Cancel ==
  /\ state' = NotCompiling /\ sus_state' = SusTaken
  /\ CASE Resumed = "ANONYMOUS"               -> UNCHANGED <<here, dict>>
       [] Resumed = "COLON" /\ dict # <<>>    -> CutAt(Len(dict))
       [] Resumed = "COLON" /\ dict = <<>>    -> UNCHANGED <<here, dict>>
       [] Resumed = "NONAME"                  -> here' = xt /\ UNCHANGED dict
       [] Resumed = "DOES"                    -> here' = here0 /\ UNCHANGED dict
  /\ UNCHANGED <<s0, here0, xt>>

-----------------------------------------------------------------------------
\* Whether a program may open a definition, or touch the chain, right now.
MayOpen == (Compiling => NestedColon) /\ (Open /\ ~Compiling => DefinesWhileOpen)
MayDefine == Open => DefinesWhileOpen

(* `:' -- the header is made before e4__compile_start may refuse.          *)
Colon ==
  /\ MayOpen /\ here < MaxHere
  /\ Entry(TRUE, "null") /\ here' = here + 1
  /\ IF Compiling THEN UNCHANGED compile        \* throws NESTEDCOMPILE
                  ELSE Start("COLON", here, here + 1)
  /\ UNCHANGED depth

(* `:NONAME' -- the token takes its space before the refusal, too.         *)
ColonNoname ==
  /\ MayOpen /\ here < MaxHere
  /\ here' = here + 1
  /\ IF Compiling THEN UNCHANGED compile
                  ELSE Start("NONAME", here, here + 1)
  /\ UNCHANGED <<dict, depth>>

(* `DOES>' outside a definition, for the newest word.                      *)
DoesInterpreted ==
  /\ ~Compiling /\ MayDefine
  /\ dict # <<>>                               \* else INVBUILTINMUT
  /\ Start("DOES", top.at, here)
  /\ UNCHANGED <<here, dict, depth>>

(* A word or a number is compiled; `DOES>' inside a definition; and, in    *)
(* either state, `,', `C,', ALLOT and the strings that are laid down.      *)
CompileCell ==
  /\ here < MaxHere /\ here' = here + 1
  /\ UNCHANGED <<dict, depth, compile>>

(* IF, BEGIN, WHILE, DO, CASE ... leave a reference on the data stack.     *)
OpenControl ==
  /\ Compiling /\ here < MaxHere /\ depth < MaxDepth
  /\ here' = here + 1 /\ depth' = depth + 1
  /\ UNCHANGED <<dict, compile>>

(* THEN, REPEAT, LOOP, ENDCASE ... take it, or cancel the definition.      *)
CloseControl ==
  /\ Compiling
  /\ IF depth = 0 THEN Cancel /\ UNCHANGED depth
     ELSE /\ here < MaxHere
          /\ here' = here + 1 /\ depth' = depth - 1
          /\ UNCHANGED <<dict, compile>>

(* `[' and `]'.                                                            *)
LeftBracket ==
  /\ Compiling                                 \* it is compile-only
  /\ sus_state' = state /\ state' = NotCompiling
  /\ UNCHANGED <<here, dict, depth, s0, here0, xt>>

RightBracket ==
  /\ ~Compiling                                \* else NESTEDCOMPILE
  /\ state' = Resumed /\ sus_state' = NotCompiling
  /\ UNCHANGED <<here, dict, depth, s0, here0, xt>>

\* What e4__compile_finish makes of the chain.
Finished ==
  CASE Resumed = "DOES"   -> SetCode(dict, xt, "doesthunk")
    [] Resumed = "NONAME" -> SetCode(dict, xt, "threaded")
    [] Resumed = "COLON"  ->
         SetCode([dict EXCEPT ![Len(dict)].compiling = FALSE], xt, "threaded")
    [] OTHER              -> dict

\* The token of a :NONAME definition is left on the stack, if there is room.
TokenPushed == IF Resumed = "NONAME" /\ depth < MaxDepth THEN depth + 1 ELSE depth

(* `;', or e4__compile_finish called by the embedding program, which may   *)
(* do so while compilation is suspended.                                   *)
Finish ==
  IF Resumed = "ANONYMOUS"
  THEN /\ state' = NotCompiling /\ sus_state' = SusTaken
       /\ UNCHANGED <<here, dict, depth, s0, here0, xt>>
  ELSE IF s0 # depth THEN Cancel /\ UNCHANGED depth      \* CSMISMATCH
  ELSE /\ here < MaxHere /\ here' = here + 1
       /\ dict' = Finished
       /\ depth' = TokenPushed
       /\ state' = NotCompiling /\ sus_state' = SusTaken
       /\ UNCHANGED <<s0, here0, xt>>

(* An exception nobody catches: the QUIT loop clears the data stack and    *)
(* cancels, as the caller of e4__evaluate has to.                          *)
Abandon ==
  /\ Cancel
  /\ depth' = 0

-----------------------------------------------------------------------------
(* CREATE, VARIABLE, VALUE, CONSTANT, DEFER and MARKER, with their data.   *)
Define ==
  /\ MayDefine
  /\ \E code \in {"variable", "marker"}, body \in 0..1 :
       /\ here + body < MaxHere
       /\ Entry(FALSE, code) /\ here' = here + 1 + body
  /\ UNCHANGED <<depth, compile>>

(* The run-time part of DOES>, executed by a defining word.                *)
LitDoes ==
  /\ ~Compiling /\ MayDefine                   \* else NESTEDCOMPILE
  /\ dict # <<>>                               \* else INVBUILTINMUT
  /\ dict' = SetCode(dict, top.at, "doesthunk")
  /\ UNCHANGED <<here, depth, compile>>

(* FORGET of any word that is not a builtin.                               *)
Forget ==
  /\ MayDefine
  /\ \E i \in DOMAIN dict : CutAt(i)
  /\ UNCHANGED <<depth, compile>>

(* Executing a marker.                                                     *)
RunMarker ==
  /\ MayDefine /\ ~Compiling
  /\ \E i \in DOMAIN Visible : Visible[i].code = "marker" /\ CutAt(i)
  /\ UNCHANGED <<depth, compile>>

(* Words that only use the data stack; a CATCH that restores it.           *)
DataWord ==
  /\ depth' \in 0..MaxDepth
  /\ UNCHANGED <<here, dict, compile>>

Next ==
  \/ Colon \/ ColonNoname \/ DoesInterpreted
  \/ CompileCell \/ OpenControl \/ CloseControl
  \/ LeftBracket \/ RightBracket \/ Finish \/ Abandon
  \/ Define \/ LitDoes \/ Forget \/ RunMarker
  \/ DataWord

Spec == Init /\ [][Next]_vars

-----------------------------------------------------------------------------
CompilerTypeOK ==
  /\ here \in Nat /\ here0 \in Nat /\ xt \in Nat
  /\ dict \in Seq(Header)
  /\ depth \in 0..MaxDepth /\ s0 \in 0..MaxDepth
  /\ {state, sus_state} \subseteq Mode \cup {NotCompiling}

(* The chain of headers runs downwards through allotted memory: nothing    *)
(* that is compiled, allotted or defined next can overwrite a header that  *)
(* lookups still visit, whatever was cancelled, forgotten or suspended.    *)
HeadersAreAllotted ==
  /\ \A i, j \in DOMAIN dict : i < j => dict[i].at < dict[j].at
  /\ \A i \in DOMAIN dict : dict[i].at < here

(* "Test that a dictionary entry is not available while it is being        *)
(* compiled": what a lookup finds can be executed.                         *)
FoundWordsRun ==
  \A i \in DOMAIN Visible : Visible[i].code # "null" /\ ~Visible[i].compiling

(* What holds between any two words of a program that keeps to both rules: *)
(* only the newest header can be half made, and then it is the word of the *)
(* open colon definition; the open definition lies above every other word. *)
OpenMode == IF state \in Named THEN state ELSE sus_state

OnlyTheOpenWordIsHidden ==
  /\ \A i \in DOMAIN dict :
       (dict[i].compiling \/ dict[i].code = "null") =>
          /\ i = Len(dict) /\ dict[i].compiling
          /\ Open /\ OpenMode = "COLON" /\ xt = dict[i].at
  /\ (Open /\ OpenMode = "COLON") => dict # <<>> /\ top.compiling

OpenIsOnTop ==
  /\ ~(state \in Named /\ sus_state \in Named)
  /\ (Open /\ OpenMode = "NONAME") =>
       xt < here /\ \A i \in DOMAIN dict : dict[i].at < xt
  /\ (Open /\ OpenMode = "DOES") =>
       here0 <= here /\ \A i \in DOMAIN dict : dict[i].at < here0

CompilerInv == CompilerTypeOK /\ HeadersAreAllotted /\ OnlyTheOpenWordIsHidden /\ OpenIsOnTop

(* A definition is a transaction (module Definitions): it is finished with *)
(* all of its effect or cancelled with none.                               *)
Transactions == INSTANCE Definitions WITH
  Semantics <- Code \ {"null"},
  words <- [i \in DOMAIN Visible |-> [at |-> Visible[i].at, code |-> Visible[i].code]],
  open  <- IF ~Open THEN [at |-> 0, is |-> FALSE]
           ELSE [at |-> IF OpenMode = "DOES" THEN here0 ELSE xt, is |-> TRUE]

DefinitionsAreTransactions == Transactions!Spec
=============================================================================
