# e4 in TLA+

e4 is an embeddable Forth written in C89: a library (`core/`) that keeps all
the state of a Forth system in one `struct e4__task`, and a REPL (`repl/`) on
top of it.  This directory holds a TLA+ model of its core: modules that follow
the code function by function, TLC configurations that check them on small
instances, and proofs checked by TLAPS.

## 1. The system

Everything runs on one thread.  What makes e4 hard to get right is not
parallelism but *non-local control flow over shared task state*: exceptions are
`setjmp`/`longjmp`, so any word can skip any number of C functions, each of
which has saved a part of the task to put back "at its end"; the return stack
that programs move items on is also where return addresses and thread roots
live; dictionary space is handed out to whoever asks, in the middle of
definitions; and the REPL throws exceptions out of a signal handler.

| component | state it keeps | operations | talks to |
|---|---|---|---|
| exceptions (`exception.c`) | `task->exception`: jump buffer, `valid`, `code`, `then`; locals of every active `e4__exception_catch` | catch, throw, throw with a callback | every function that can fail |
| inner interpreter (`execute.c`, `stack.c`) | `ip`, `rp`, `tr0`, the return stack, the data stack; local depth of every `e4__execute_threaded` | call, return, DOES>, EXECUTE, CATCH, `>R` ... `UNLOOP`, items of the data stack | exceptions (overflow, underflow, imbalance) |
| evaluation (`evaluate.c`) | `io_src`, `fib_depth`, `fex`, file buffers; locals of the nested evaluate functions | QUIT loop, EVALUATE, INCLUDED, REFILL | exceptions, platform files, compiler (errors cancel definitions) |
| compiler and dictionary (`compile.c`, `dict.c`, `mem.c`) | `here`, `dict`, `compile` (state, current definition) | open, suspend, resume, finish, cancel a definition; create, find, forget | task memory, evaluation |
| task memory and number output (`task.c`, `io.c`) | the regions of the task's buffer, `here`, `pno` | create, ALLOT, UNUSED, `<# # #S HOLD HOLDS SIGN #>`, `.` | dictionary, evaluation (error messages) |
| builtin words (`builtin/*.inc`) | none of their own | the words themselves | all of the above |
| input (`io.c`, `evaluate.c`, `mem.c`) | `io_src`: buffer, length, `>IN`; `tsb`, the circular buffer of strings | REFILL, PARSE, WORD, `(`, `\`, `S"`, `[IF]` | platform files, evaluation |
| REPL (`repl/src/main.c`) | signal mask, `no_jump`, `interrupted`, `sug`; libedit | accept, key, key?, completion, signal handler | exceptions, from a signal handler; the dictionary |
| utilities (`mem.c`, `double.c`, `usize.c`) | none | number parsing, escapes, double-cell arithmetic, calendar | builtin words |
| platform (`posix.c`), FFI, DLFCN, FACILITY | none | thin wrappers | evaluation (their failures) |

Behaviour that is hard to test, and what makes each component correct:

* *Exceptions*: handlers nest and are left by return, throw, rethrow (QUIT and
  BYE pass every nested handler) or from within a callback.  The jump buffer
  must always be that of the innermost call that is still active.
* *Inner interpreter*: whatever items are moved on the return stack and
  however a definition is left, a word must return to its caller with its
  caller's root.
* *Evaluation*: whoever executes must read its own input, after any mix of
  strings, files, errors and jumps; buffers and handles must be released.
* *Compiler*: a definition commits or rolls back as a whole; headers stay in
  allotted memory; lookups find only words that can run.
* *Task memory*: regions are disjoint; UNUSED tells the truth; the buffer of
  pictured numeric output never overlaps the dictionary.
* *Control structures*: branches are resolved by searching compiled code for
  a marker; each must be found by its own structure, and none may stay open.
* *Compiled code*: what the compiler reserves for numbers and strings, what the
  run-time code skips and what the branches of hand-made threaded words count
  must agree; a word must ask for every item and cell it is going to use, since
  the operations of the stack check nothing.
* *Input*: each piece of a text is parsed once and in order, however lines end,
  are cut, refilled or skipped; exactly the chosen branches of `[IF]` run.
* *Numbers*: products and divisions are exact or refused, loops end at their
  limit in wrapping arithmetic, numbers read back as they were printed, dates
  are civil.
* *REPL*: a signal between any two statements must neither jump out of
  libedit, nor jump to a dead frame, nor be lost, nor leave signals blocked; the
  completion key must not hold on to a header that was forgotten.

## 2. Modules

| module | models | correspondence |
|---|---|---|
| `Exceptions` | `exception.c` | `frames[i]` are the locals of the i-th active `e4__exception_catch`; its `phase` is the place in that function; `ctx` says whose `setjmp` filled the buffer |
| `HandlerStack` | abstract | a stack of machine states; raising pops to one |
| `Handlers` | code using exceptions | arbitrary work, throws, callbacks; `ImplementsHandlerStack` |
| `ExceptionsProofs` | | what each step of `Exceptions` does, for the two modules of proofs that use it |
| `HandlersProofs` | | proofs about `Handlers` |
| `Evaluation` | `evaluate.c`, the words that reach it | extends `Exceptions`; `acts[i]` are the locals of the i-th active evaluate function, with the number of frames below it, so that a jump cuts both stacks |
| `EvaluationProofs` | | proofs about `Evaluation` |
| `Definitions` | abstract | a dictionary in which a definition is a transaction |
| `Compiler` | `compile.c`, `dict.c`, defining words | headers with addresses, the link chain and the compile state with the suspended definition |
| `CompilerProofs` | | proofs about `Compiler`, and about `NumericWords` |
| `TaskMemory` | `task.c`, PNO of `io.c` | addresses of a machine whose arithmetic wraps at `Modulus` |
| `TaskMemoryProofs` | | proofs about `TaskMemory`, and about `Input` |
| `Threads` | `execute.c`, return stack words | the return stack cell by cell; `loops` are the activations of `e4__execute_threaded`; `calls` is a history of the active definitions |
| `Control` | the control structure words of `builtin/CORE*.inc` | the definition cell by cell, the data stack as records of what each word pushed; a history of where each branch has to go |
| `CallStack` | abstract | definitions with items of their own |
| `ThreadsProofs` | | proofs about `Threads` |
| `Signals` | `repl/src/main.c` signals | one step per statement of `e4__exception_catch` and of the input callbacks |
| `SignalsProofs` | | proofs about `Signals`, and about `Completion`, the other part of the REPL |
| `Stack` | `stack.c`, data stack | cells that are filled downwards, `sp` the next free one |
| `Threaded` | the words of `builtin/*.inc` that are arrays of cells | each array as a sequence of execution tokens and numbers |
| `Escapes` | `e4__mem_strnescape`, character codes | a character is a name; a text is a sequence |
| `Code` | `compile.c` (literals, strings), `execute.c`, the words of the data stack, memory and output | the dictionary cell by cell, `ip` as a word and a place in it, the data and return stacks |
| `Program` | abstract | a definition means what its items mean, one after the other |
| `CodeProofs` | | proofs about `Code`, and about `Control`, which compiles into it |
| `Arithmetic` | `double.c`, `usize.c` | functions on words of `W` bits, by half cells as in the code |
| `Numbers` | `e4__mem_number`, `e4__mem_pno_digits`, `e4__usize_format` | the text is longer than its length, as the input is |
| `Calendar` | `e4__usize_togmt` | the nested cycles of years from March |
| `NumericWords` | the words that use these three | one word with its operands per behaviour |
| `StringBuffer` | the circular buffer of `mem.c` | its characters, the offset, a history of what was pushed |
| `Input` | reading and parsing of `io.c`, comments, `S"`, `S\"`, REFILL, `[IF]`, `[ELSE]` | `source` is `io_src`; a history of the pieces that were parsed and where they lie in the text |
| `Completion` | `repl_suggest`, `repl_wgetc`, `e4__dict_suggest` | the line left and right of the cursor, `sug` as the place of a header |
| `Suggestions` | abstract | a list of words that is offered in turn |

`Exceptions` is shared: `Handlers` puts arbitrary code on top of it,
`Evaluation` the text interpreter.  `Threads` and `Signals` model the parts of
`e4__exception_catch` they need at another grain (the machine it puts back,
and the order of its assignments) because their properties are about that.

A definition whose comment begins with "Fault:" and whose name ends in a suffix
(`Propagates_QuitOnly`) is a plausible bug: it stands for the definition
without the suffix in the mutation tests, and no action uses it.

## 3. What the runs check

Passing runs:

* **Handlers** (three nested handlers, two values per machine register, one
  callback that may itself catch and throw): `HandlerInv` (below),
  `QuiescentWhenIdle` (nothing of an exception survives the last handler),
  `OnlyOutermostSeesQuit`, `OnlyThrownIsReported`, `ThenHonoured` (a callback
  thrown along does run), and the refinement `ImplementsHandlerStack`.  Three
  frames are the least where a rethrow passes a middle handler.
* **Evaluation** (three nested evaluate functions, four handlers, two file
  buffers, three handles, lines of up to one word; throws, QUIT, BYE and
  interrupts at any step): `SourceIsOwn`, `LeaksOnlyByJumps`, and `EvalInv`: no
  line is read over (`LinesAreSafe`), and `HandlerInv` again, for the real users
  of the handlers.  Two buffers and three functions let INCLUDED meet its limit,
  and a file include a file from a string; a longer line adds nothing, as words
  only differ in what they do.
* **Compiler** (five cells of dictionary, two of data stack): `CompilerInv`
  (headers are allotted, the chain descends, a suspended definition lies below
  HERE), `FoundWordsRun`,
  `DefinitionsAreTransactions` (refinement of `Definitions`).
* **Signals** (three nested handlers, SIGINT at any statement, those of
  `e4__exception_catch` included, SIGSEGV in any word): `SignalsInv` (wherever a
  signal may jump, the buffer is that of the innermost handler, but in the window
  where it is written), `SignalsAreUnblocked`, `NoJumpOutOfInput`,
  `NotedIsReported`.  A jump out of the window is undefined: the run reaches
  those states and lets nothing follow them.
* **TaskMemory** (tasks of ten sizes on a small machine): `MemoryInv`
  (`LayoutIsOrdered`, `ReserveIsKept`), `UnusedIsWhatAllotGives`,
  `BufferIsMutable`, `DotIsPrinted`. The sizes leave the reserve and about as
  much again, so that the dictionary meets the PNO buffer from both sides in a
  few steps.
* **Threads** (nine cells of return stack, definitions started with and without
  a handler, interrupts between any two instructions): `ThreadsInv`
  (`ReturnsToCaller`, `FramesAreWhole`), `CaughtInstructionsEnd`, refinement of
  `CallStack`.  Nine cells hold four nested definitions, or three with items
  between them, and every way the stack can be short by one, two or three cells.
* **Control** (every definition of up to seven control structure words that are
  closed by their own words, on a data stack of six cells): `ControlInv`
  (`BranchesBelong`, `FinishedIsResolved`), `PathsAreBalanced`.  Seven words
  hold a CASE with an OF in a loop, or two loops with a LEAVE and an IF; six
  cells can be used up by them, so that every overflow check fires.
* **NumericWords** (all cells of a machine of four bits, texts of up to five
  characters in four bases, days around the years 1970, 1972, 2000, 2004, 2100,
  2104 and 2400 in which the cycles end): `ResultsAreExact` (`ProductsAreExact`, `DivisionIsExact`,
  `RangeErrorsAreJustified`), `LoopsEndAtTheLimit`, `NumbersAreSpelled`,
  `PrintedNumbersReadBack`, `DatesAreCivil`, all against definitions over the
  integers.  Four bits are two half cells of two: every carry, every correction
  of an estimated digit and every sign happens.  With `W = 8`, `EdgeCells`,
  `MoreBases` and rooms of 0, 1, 3 and 17 characters, which take longer, the
  same properties hold.
* **Input** (texts of up to five pieces of three kinds: conditionals over
  several lines in an input buffer of seven characters, comments, strings and
  refills, and strings that fill a circular buffer of nine characters again and
  again; files whose reads may fail, and strings): `InputInv`
  (`PiecesAreOfTheText`), `ChosenWordsAreExecuted`, `LatestStringsAreKept`,
  `SkippingEnds`.  Lines are longer than the buffer, and a conditional holds
  another one with its `[ELSE]`; a REFILL comes before the end of its line, and
  a string escapes it.
* **Code** (definitions of two items out of all words of the model, four numbers
  and nine texts with every kind of escape, executed with seven stacks of up to
  six cells, one of them full; cells of two characters and bytes as words):
  `StackIsInBounds`, `CodeInv` (`InstructionsAreWhole`), `DefinitionsEnd` and
  the refinement `ImplementsProgram`.  Two items are the least where one finds
  what the other left, on the stack, in a variable or behind a string; the texts
  fill their cells and do not; with six cells there are too few items, or too
  little room, for every word.
* **Completion** (two builtin words and up to two more out of three names that
  begin alike; lines of three characters, more once completed): `CompletionInv`
  (`SuggestionIsShown`) and the refinement `ImplementsSuggestions`.  With four
  words two or more fit, in either case, and a forgotten word's place is used
  again.

The violation run, a disagreement between the code and its own text:

* **Evaluation_leak**: a QUIT typed in an included file (or an interrupt)
  skips the end of `e4__evaluate_file_internal`; the buffer and the handle are
  lost.  After four of them no file can be included any more.

Further behaviours the same modules exhibit.  The passing runs exclude exactly
these, or ask for less (Signals, the window of `SignalsInv`); to see one, change
the main configuration of the module as the last column says and check the one
property.  For three of them there is a configuration.

| property that fails | what the code does | change |
|---|---|---|
| `FoundWordsRun` | `:` run by an immediate word makes its header before the nesting is refused; the word being compiled becomes visible and can be executed through a null code pointer | `Compiler_nested.cfg` |
| `HeadersAreAllotted` | cancelling a `:NONAME` definition during which a word was created leaves that header above HERE | Compiler: `DefinesWhileOpen = TRUE`, `MaxDepth = 1` |
| `WritesFreeMemory` | with the PNO offset at HERE the room left is computed as a huge number (`io.c:89`) | `TaskMemory_digits.cfg` |
| `PadHolds84` | tasks near the smallest accepted size have a PAD below the 84 characters `e4-internal.h` promises | TaskMemory: `Sizes <- MinSizes`, `CELL = 8`, `TASK = 1408`, `TASK_MIN_SZ = 1024`, `PNO_MIN_SZ = 130`, `Modulus = 65536`, `MaxDigits = 2`, `MaxLen = 1` |
| `TimeAndDateIsCivil` | the first of March of almost every year is reported as 29 February, and 29 February of 2104, 2204, 2304, 2504, ... as the first of March (`usize.c:296`) | `NumericWords_march.cfg` |
| `NumbersAreSpelled` | `>NUMBER` multiplies the number it goes on from by the base once, however many digits follow | NumericWords: `Initials = {1}` |
| `JumpsAreDefined` | `exception.valid` is set before `setjmp` has filled the buffer, and buffers are copied while it is set | Signals: no change |
| `NoJumpOutOfLibedit` | KEY? enters libedit with signals unblocked and no flag set | Signals: `Calls = {"keyq"}` |
| `InterruptIsReported` | KEY forgets an interrupt that arrives between its two assignments | Signals: `Calls = {"key"}` |
| `InstructionsEnd` | without a handler, a word met when the return stack is exactly full is fetched again for ever | Threads: `MaxR = 8`, `Hosts = {"plain"}`, `Instructions = {}`, `Uncaught = {"word", "call", "exit"}` |
| `HostStackIsKept` | without a handler ABORT overwrites saved thread roots | the same, with "abort" in `Uncaught` |
| `ReturnsToCaller` | without a handler QUIT in a definition returns past the bottom of the return stack | the same, with "quit" in `Uncaught` |
| `BranchesBelong` | a LEAVE inside a CASE inside a loop is resolved by ENDCASE ("Handle intermediary ENDOF and branch to here", `CORE-EXT.def.inc:154`), so it leaves the CASE and not the loop | Control: `LeaveAnywhere = TRUE` |
| `FinishedIsResolved` | `: foo if until ;` is accepted with an open branch, although `tests/src/test/compile.c:91` expects every unbalanced control structure to fail | Control: `Mismatched = TRUE` |
| `CommentsEndAtTheirDelimiter` | an empty comment `( )` swallows what follows, as leading delimiters are skipped | Input: `Programs <- EmptyComments`, `ReadsFail = FALSE` |
| `SkippingEnds` | `0 [IF]` without its `[THEN]` in a string is skipped for ever | Input: `Programs <- OpenConditional`, `ReadsFail = FALSE` |
| `PiecesAreOfTheText` | CATCH puts back `>IN` and the length, but not the line: after a REFILL within it, the rest of the old line is parsed from the middle of the new one | Input: `Programs <- Caught` |
| `PreviousStringsAreKept` | the circular buffer overwrites entries that its comment (`mem.c:20`) says are kept | Input: `Programs <- StoredStrings`, `ReadsFail = FALSE` |
| `InstructionsAreWhole` | the count of a `C"` string is read as a char; above 127 execution goes on before the string (`SYSTEM.def.inc:105`) | Code: `SignedFrom = 2` |
| `OnlyMemoryIsUndefined` | PICK and ROLL add two to the top item, and the check passes for the two largest numbers | Code |
| `StackIsInBounds` | FIND asks for one cell and pushes two, UNUSED pushes without asking | Code: `Words = {"FIND", "UNUSED", "DUP"}`, `SPECIFICATION UncheckedSpec` |
| `ThenHonoured` | a callback thrown along with QUIT or BYE through a nested handler never runs | Handlers: `Cell = {0}`, `MaxFrames = 2`, `ThenCode = {QUIT, ERR}`, `CallbackCatches = FALSE` |
| `SuccessLeavesNoException` | a file that catches the failure of a file it includes, and then ends well, is reported as failed | Evaluation: `MaxFrames = 3`, `UserCode = {ERR}`, `Interrupts = FALSE`, `MaxFd = 2` |

Four more are left out of the definition of a property.  `+LOOP` ends early when
index and limit are more than half the numbers apart (hence the range in
`LoopsEndAtTheLimit`); a then-callback that catches sees the exception being
handled reported by code that returned normally (hence the exception in
`OnlyThrownIsReported`).  REFILL leaves the rest of its own line unparsed (hence
`LeftBy` in `PiecesAreOfTheText`).  And a backslash at the end of a line in an
`S\"` string escapes the end of the line (`mem.c:624`): the string ends with it,
because the buffer does, and the next line follows without a separator (hence
the second disjunct there).  The last two were found by the proof; the texts of
the run had been too short for them, and now include them (`Refilled`).  So was
the leap day of 2104: a day left over when a year counted from March is full is
29 February if `!days && (fyears || !(cents % 4))`, but the first four years of a
century that begins without a leap day (`fyears` is 0, `cents` is 1) end with
one, too.  `DatesAreCivil` leaves it out, and the days of the run now include
it.  And three results are what the code means, if not what one expects: a signed
division whose quotient is the most negative number is refused (`double.c:122`),
`MIN-INT -1 /` wraps, and `-0b` in hexadecimal is not a number, because the `b`
is taken for a prefix with nothing behind it (`mem.c:565`).

## 4. Fairness and deadlock

All liveness properties use weak fairness of straight-line C code that needs
nobody else to go on: the landing of a longjmp (`Unwinding` in `Handlers`), the
statements of the program and the arrival of the input it waits for
(`Program` in `Signals`), the steps of the inner interpreter (`Step` in
`Threads`, `Run` in `Code`), the loop of `[IF]` that reads and skips words (`Skip`
in `Input`; a read of a file returns).  Nothing is assumed of signals, errors or
of what programs choose to do.  The deadlock check is off where the system
stops: in `Signals` the program exits, in `Code` the definition has ended.

## 5. What is proved

The proofs hold for every value of the constants that the named ASSUMEs of the
modules allow: any nesting, any number of cells, names, buffers or handlers, any
width of a machine word.  Where a theorem needs more, it says so as a hypothesis,
and the hypothesis is one of the failures listed in section 3 (`PowersOfTwo` is
no such thing, but arithmetic: see below).  TLC has checked
each inductive invariant on the run of its module before it was proved.

| theorem | states | under |
|---|---|---|
| `HandlersAlwaysSound` | `Spec => [](ExcTypeOK /\ HandlerInv)` | |
| `IdleTasksAreQuiescent` | `Spec => []QuiescentWhenIdle` | |
| `NormalReturnsAreOK` | `Spec => OnlyThrownIsReported` | |
| `QuitReachesOutermost` | `Spec => OnlyOutermostSeesQuit` | no callback is thrown along with QUIT or BYE |
| `HandlersAreAStack` | `Spec => Abstract!SafeSpec` (`HandlerStack`) | |
| `LinesAreNeverReadOver` | `Spec => []EvalInv` | |
| `SourcesStayOwn` | `Spec => []SourceIsOwn` | |
| `LeaksAreJumps` | `Spec => LeaksOnlyByJumps` | |
| `ChainIsSound` | `Spec => []CompilerInv` | `~NestedColon`, `~DefinesWhileOpen` |
| `HiddenWordsAreNotFound` | `Spec => []FoundWordsRun` | the same |
| `DefinitionsAreImplemented` | `Spec => DefinitionsAreTransactions` (`Definitions`) | the same |
| `WordsReturnToTheirCallers` | `Spec => []ThreadsInv` | `HandlersForLooseWords` |
| `HostFindsItsStack` | `Spec => []HostStackIsKept` | the same |
| `ReturnStackIsACallStack` | `Spec => ImplementsCallStack` (`CallStack`) | the same |
| `MemoryIsLaidOut` | `Spec => []MemoryInv` | `Roomy` |
| `UnusedIsExact` | `Spec => []UnusedIsWhatAllotGives` | the same |
| `NumbersArePrinted` | `Spec => []DotIsPrinted` | the same |
| `StringsAreMutable` | `Spec => BufferIsMutable` | the same |
| `JumpsStayDefined` | `Spec => []SignalsInv`, and only steps from `Window` are undefined jumps | |
| `SignalsComeThrough` | `Spec => []SignalsAreUnblocked` | |
| `InputIsNotLeft` | `Spec => NoJumpOutOfInput` | |
| `ResultsAreRight` | `NumericSpec => []ResultsAreExact` | `PowersOfTwo` |
| `LoopsEndInTime` | `NumericSpec => []LoopsEndAtTheLimit` | the same |
| `DatesAreRight` | `NumericSpec => []DatesAreCivil` | |
| `StackStaysInBounds` | `Spec => []StackIsInBounds` | |
| `BranchesAreResolved` | `ControlSpec => []ControlInv` | `~LeaveAnywhere`, `~Mismatched` |
| `SuggestionsAreWords` | `CompletionSpec => []CompletionInv` | |
| `BranchesAreChosen` | `InputSpec => []ChosenWordsAreExecuted` | |
| `PiecesAreParsedInOrder` | `InputSpec => []InputInv` | `CatchesOnLastLines` |

### Exceptions (`ExceptionsProofs`, `HandlersProofs`)

`HandlerInv` has three parts.  `CtxIsInnermost` is what matters: the jump buffer
is that of the innermost frame a longjmp may go to, and there is one exactly
when `valid` is set.  It is not inductive alone: when the innermost handler
returns, `ctx` becomes its `old_ctx`, so `OldIsEnclosing` says that every frame
remembers the live handler around it; and when a frame has landed it is not a
target any more, so `OnlyTopLands` says that only the innermost frame can be
between its landing and its return (a callback may run frames above it, and a
throw from there cuts them).  The proof has one lemma per action, most of which
split into the three parts.

On top of it come the other safety properties of `Handlers`, with one lemma,
`FrameSteps`, that says what each kind of step does to the frames.
`QuiescentWhenIdle` follows from: the outermost frame saved "no exception", and
a callback that waits has a frame that will clear it.  `OnlyThrownIsReported`
follows from: without a callback running, no exception is current while code
runs, and a frame set up under no callback saved that there was none.
`OnlyOutermostSeesQuit`: while QUIT or BYE is current, the innermost frame is on
its landing, or the outermost one is about to report it.  Its hypothesis is
needed: a callback that runs for a QUIT could set up nested handlers while QUIT
is the current code.  The two callers of `e4__exception_throw_then`
(`repl/src/main.c:84` and `94`) throw a memory fault and an interrupt.

`HandlersAreAStack` is the step part of `ImplementsHandlerStack`: initial states
are mapped to initial states, and each step to a step of `HandlerStack` or to
none.  The handlers of the abstract stack are the live frames in their order,
and the k-th of them is defined by counting (`Ranked`), so that the proof needs
no induction: `TopIsLast` says that a number above all others comes last in the
count and moves no other, from which `LivePushed` and `LivePopped` say what a
new frame, and the loss of the innermost one, do to the stack of saved states.
A throw leaves the live frames alone, a rethrow takes one away that the pending
QUIT had discarded already.  `ThrowKeepsLive`, `RethrowPopsLive` and
`RestorePopsLive` get that from `HandlerInv`.  The fairness of `Handle` stays
with TLC.

### Evaluation (`EvaluationProofs`)

No hypotheses: QUIT, BYE and interrupts come at any step.  What has to be
strengthened is `SourceIsOwn`: it speaks of `task->io_src` only, but the next
return or jump overwrites that with a copy made long before.  `SourcesAreOwn`
says of every copy (each handler's `saved_io_src`, each evaluation's own) that
it belongs to the activation that will be executing again when the copy is put
back; which one that is follows from the number of frames that each activation
has below it (`SetUpBy`), and `ActsAreNested` keeps these in order and says
where an activation can be standing while others run above it.  A jump cuts both
stacks at the same place, and the two invariants give the new innermost
activation its source.  For `LinesAreSafe`, `BuffersAreStacked` says that nested
files take their buffers in turn, so that the next buffer handed out is
nobody's: a buffer lost to a jump makes the count too high, never too low.
`LeaksOnlyByJumps` is proved step by step (`Accounted`).  `CutActs` is written
as a function over the activations that stay, which for an ordered stack is the
cut the longjmp makes.

### Compiler (`CompilerProofs`)

`CompilerInv` is almost inductive; `OneIsOpen` adds that nothing is compiled
while a named definition is suspended, and that DOES> code belongs to the newest
header. The two hypotheses are the two ways that section 3 lists in which the
code breaks it: a colon that an immediate word runs (`Compiler_nested.cfg` is
the counterexample), and a word created while a `:NONAME` definition is open
that is cancelled.  The refinement maps a state to the words a lookup finds
(`Words`) and the place where the open definition began (`Begun`):
`WordsAreSeen` says that the visible words are all headers but the one being
compiled, so opening, suspending and resuming map to steps that leave the words
alone, finishing adds one and cancelling none, and each FORGET or marker cuts
both sequences at the same place.

### Numbers and dates (`CompilerProofs`)

One word is executed per behaviour, so the invariants need no strengthening: the
work is in what the functions return, for every operand and every size of a cell
from 2 to 64 bits.  `PowersOfTwo` is what these proofs use of the powers of two
(`2^0`, `2^1`, and that exponents up to `W` add up), which the provers do not
know; it is true of the numbers, and TLC evaluates it in the run.

*Products.*  `LongProduct` follows the carries of `e4__usize_mul`: a half times a
half plus two halves fits a cell (`ProductOfHalves`), so one carry, the one the
code tests for, is all there is.  `MulIsExact` adds the signs.

*Divisions.*  The long division of `e4__double_ndiv` takes two digits of half a
cell.  `ClzIs`: the leading zeros make the divisor normalised (`HalvingsAgree` and
`SearchIs` unfold the binary search); `ShiftIs`: the shift changes neither
quotient nor fit.  For a normalised divisor the first estimate of a digit is at
most two too large, and the loop that lowers it stops at the digit (`EstimateIs`, `DigitIs`); the remainders are computed by cells that
wrap, but the true one fits (`DigitAndRest`, `LongDivisionIs`).  `QuotientOfIs`
and `EndedIs` do the signs, the floor and the refusal; `DdivIs` puts two such
divisions together for a quotient of two cells, where the one that wraps, the
most negative number by -1, is the exception that `DivisionIsExact` makes.
`DivisionsNext` reduces each word to one of them.

*Loops.*  `+LOOP` adds the most negative number to the distance of the index from
the limit and asks whether the step changes the sign.  `CrossesIs` shows that
this turns the boundary between limit - 1 and limit into the one between negative
and other cells, and `CellIs` says what number a cell stands for.

*Dates.*  `CyclesAre` says what the nested divisions of `e4__usize_togmt` leave,
`LaterDates` and `EarlierDates` (before 2000 the cycles run backwards) compare
that with the number of leap days up to a year, `MonthIs` and `MarchIs` the table
of days before a month with the lengths of the months.  In the case the code gets
wrong the comparison could not be proved; that is how the leap day of 2104 was
found.

*Types.*  That `>NUMBER` never counts more characters than there are is about a
recursive function.  `SmallestIs`, the least number of a set of natural numbers,
stands in for the induction that the provers cannot instantiate (`CountIs`).

### Return stack (`ThreadsProofs`)

`ThreadsInv` says of each active definition that its root and return address are
on the return stack where the C code will look for them.  To keep that through
any mix of calls, exits, items and jumps, the invariant must know which
definitions each activation of `e4__execute_threaded` will return from
(`ActivationsAreNested`: a count of at least one, in one piece, the pieces in
order, with the stack depth, the root and the handler that the activation will
put back), that frames lie above each other with only their own items between
them (`FramesAreNested`), and that the instructions which could put something
else there run under a handler (`InstructionsAreRun`).  `HandlersForLooseWords`
is the hypothesis that makes the last one true at the start; without it
`HostStackIsKept` and `ReturnsToCaller` fail, as section 3 shows.
`ReturnStackIsACallStack` counts the items of each definition (`Active`) and
shows that each step changes the count of the innermost one only, or drops whole
definitions.

### Task memory (`TaskMemoryProofs`)

All addresses are numbers below `Modulus`, and each address expression is proved
not to wrap before it is used (`WrapKeeps`), or, in ALLOT of a negative number
and in the room left of the PNO buffer, to wrap into what the comparison
refuses.  The regions are percentages of the size rounded down to cells:
`Quotient` and the lemmas after it bound such a division from both sides, which
is all that `LayoutIsOrdered` needs.  `Known` says where the PNO buffer can be,
`HereIsInBuffer` and `ReserveIsKept` where the dictionary is, and then `.` has
room for every digit. `Roomy` says that the dictionary region of an accepted
task has room for the task structure and the reserve.  `SizesAssumption` does
not imply it because the code does not: `TASK_MIN_SZ` (1024) is less than the
structure on a 64 bit build (1408 bytes), and with the percentages of `task.c` a
task needs about 2,200 bytes.  Any size from there on is covered, and so are the
sizes of the run.

### Signals (`SignalsProofs`)

`BufferIsKnown` says, for each statement the program can be at, whose `setjmp`
filled the buffer.  Signals may arrive at every statement, and
`e4__exception_catch` blocks none, so one may arrive in the middle of the set-up
of a handler: before its `setjmp` the buffer is still that of the enclosing
handler, and a jump goes there.  `Window` names the places where there is none to
go to: the outermost call between `valid = 1` and `setjmp`, `setjmp` filling the
buffer, and the two copies of the saved context.  `InnermostIsKnown` shows that
anywhere else the buffer is the innermost handler's, and `LostInTheWindow` that a
jump is undefined from the window only; that it is undefined there is the failure
of `JumpsAreDefined` (section 3).  `CallbackIsKept` says that a callback never comes with an
exception that handlers pass on, so the mask is undone by the handler that
reports it.  `NoJumpOutOfInput` needs only that `no_jump` is set, or signals are
blocked, wherever libedit runs, and holds for every signal.

### Data stack (`CodeProofs`)

The stack pointer is a number between 0 and `StackSize`, the cells of the stack
have their domain and so has every operation of `Stack`: lemmas `Pointers` and
`PointersOfTwo` say where each one leaves the pointer.  `Room` and `WordIsDone`
are the argument: `Expect` lets a word go on only with the items and the cells
it names, and each word's operations move the pointer by no more than that.
`RunKeepsBounds` has one step per instruction.  A word that is threaded code
needs no lemma of its own: it is executed instruction by instruction, each of
which checks again.  FIND and UNUSED, which would break it, are not part of
`Next`.

### Control structures (`CodeProofs`)

A branch is compiled before anyone knows where it goes, and the word that fills
it in finds it by an address on the data stack (IF, WHILE, OF) or by searching
the code for cells that hold a SENTINEL (LEAVE, `?DO`, ENDOF).  `Structured`,
the inductive invariant, ties the two together (`Sound`).  `ItemIsOpen`: an item
with an address points to an open branch made for it, a `dest` to the place of
its label.  `CellIsOwned`: a branch whose label has its place goes there, and
any other has an item that will find it (`Owns`): by its address, or because it
holds a SENTINEL behind the place where that item's search begins and before the
place where any search above it does.  `MarksMatch` says that CASE and OF items
come with their marks.  The proof has one lemma for each word; those on `Sound`
say what each kind of cell, item and place does to it, and what a search fills
in is all that its structure left open.  The hypotheses are the two ways section
3 lists to get a branch wrong: without them LEAVE in a CASE, or an IF closed by
UNTIL, is the counterexample.

### Completion (`SignalsProofs`)

`Completed` adds to `CompletionInv` that only the newest header can be under
compilation and that no builtin word is forgotten.  Words are forgotten between
two lines only, and a line begins without a suggestion, so that the pointer is
never used after the word it points to is gone (`DictionaryKeeps`,
`LeavingKeeps`).  While a line is edited, `LastOfSome` gives the word the search
of `e4__dict_suggest` meets first, and the lemmas on suffixes (`SuffixOf`,
`SuffixIsThere`) say that its name takes the place of the one before.

### Input (`TaskMemoryProofs`)

Three invariants.  `InputTypes` says what the variables hold and that a line is
read to where the next begins; most of it rests on `PieceFacts`, which says what
`mem_parse` returns for any text and delimiter.

`Choice` is for `ChosenWordsAreExecuted`.  The property counts `[IF]`s and
`[THEN]`s over the whole history, the code keeps one number, so the invariant
says what the number means: while words are executed, every open `[IF]` is in
the branch it chose (`AllTaken`); while they are skipped, there is an outermost
`[IF]` that is not, the depth is the nesting from there, and whether an `[ELSE]`
may end it is whether that `[IF]` still waits for its branch (`Skips`).
`NestStep` and `StructuresSame` say what one more name does to any of these
counts.  No hypothesis is needed: comments, strings and lines have no influence.

`Order` is for `PiecesAreOfTheText`.  It says where the buffer lies in the text:
`Lined` (the buffer holds a line of the text, up to its end or to the size of
the buffer), `OnLine` (what was parsed ends before `>IN`, and between the two
there are only characters that may be passed over), and `AtEnd` (the same for
the end of the line, with what did not fit).  Then `PieceOnLine` is the step: a
piece that is parsed from the buffer is the next piece of the text.
`CatchesOnLastLines`, the hypothesis, says that no file has a line behind a
CATCH of a word that refills and throws: otherwise the buffer holds another line
than `>IN` and the length say (`Caught` in section 3).  The texts of the run
satisfy it.

### Only model-checked

* Liveness (`ThenHonoured`, `CaughtInstructionsEnd`, `NotedIsReported`,
  `SkippingEnds`, `DefinitionsEnd`) and the fairness of
  `ImplementsHandlerStack`: the prover has no rules for weak fairness over
  ENABLED.
* `NumbersAreSpelled` and `PrintedNumbersReadBack`: a number of any length of
  text is a polynomial, a sum over its digits, and the digits are computed by
  recursion; both need induction over the text together with laws of sums and
  powers that the library does not have.
* `CodeInv` and `ImplementsProgram`: the layout of compiled items rests on sums
  over sequences of any length, which is induction again.  So are
  `PathsAreBalanced` (it follows every path through a definition),
  `LatestStringsAreKept` (an entry is put together by a fold over its chunks,
  and with it where the entry ends) and `ImplementsSuggestions` (the list of the
  words that fit is a `SelectSeq`).

## 6. What is not modelled

* Formatting of messages, line numbers, history files, argument handling: data
  no property is about.  Names matter only to `Completion`.
* The C stack: recursion of EVALUATE and of the inner interpreter is bounded in
  the models, not by the code.
* `posix.c`, `FACILITY*`, `DLFCN`, `FFI`: they pass an operation on; their
  failures are inputs of `Evaluation` and `Input` (`IOERR`, `EOF`).
* AND, OR, XOR and the shifts, and words that move memory (FILL, MOVE, C,): one C
  operator or library call each.  What SEE, DUMP and WORDS print, the table of
  exception names, and `e4__task_eq`, which describes a task for tests.
* VALUE and 2VALUE: constants whose cell can be written.
* Calls without a handler in `Code`: a throw returns there, and the word goes on
  to its caller; `Threads` has that for the return stack.

## 7. Plan

Done, most important behaviour first: `Exceptions`/`Handlers`, `Evaluation`,
`Compiler`, `Signals`, `TaskMemory` and `Threads`, each with its proofs;
`Control`, `Input` and `Completion` with the proofs of their invariants,
`NumericWords` with the proofs about arithmetic and dates, and `Code` with the
proof of its stack.

Next:

1. Proofs: the parts of `CodeInv` that need no sums over sequences, for any
   definition; that the words a completion offers are those of `Suggestions`.
2. `Code` with two activations, so that CATCH and EXECUTE meet the data stack.
