----------------------------- MODULE Evaluation -----------------------------
(***************************************************************************)
(* The text interpreter of a task on top of its exceptions                 *)
(* (core/src/kernel/evaluate.c and the words that reach it): the QUIT      *)
(* loop, e4__evaluate, e4__evaluate_file and e4__evaluate_path, the words  *)
(* EVALUATE, INCLUDED, CATCH, THROW, QUIT, BYE and REFILL, and an          *)
(* asynchronous interrupt thrown by a signal handler.                      *)
(*                                                                         *)
(* `acts' holds the C activations of those functions, `frames' (module     *)
(* Exceptions) those of e4__exception_catch.  An activation remembers how  *)
(* many frames were below it, so that a longjmp, which cuts the C stack,   *)
(* drops the activations above its target too.                             *)
(***************************************************************************)
EXTENDS Exceptions, FiniteSets

CONSTANTS
  EOF,           \* e4__E_EOF
  INCFOVERFLOW,  \* e4__E_INCFOVERFLOW
  IOERR,         \* a platform error of file_open, file_read or file_close
  USERINTERRUPT, \* e4__E_USERINTERRUPT
  UserCode,      \* the codes programs throw
  Interrupts,    \* whether a signal handler may throw USERINTERRUPT
  S0, R0,        \* bottoms of the data stack and of the return stack
  FIB_MAXDEPTH,  \* e4__FIB_MAXDEPTH, the number of file input buffers
  MaxFd,         \* file handles are 1..MaxFd
  MaxWords,      \* words in the longest line
  MaxActs        \* bound on the nesting of the evaluate functions

ASSUME EvalCodesAssumption ==
  {EOF, INCFOVERFLOW, IOERR, USERINTERRUPT} \cup UserCode \subseteq Code
ASSUME EvalBoundsAssumption ==
  /\ FIB_MAXDEPTH \in Nat \ {0} /\ MaxFd \in Nat \ {0} /\ MaxWords \in Nat \ {0}
  /\ {S0, R0} \subseteq Cell
  /\ Interrupts \in BOOLEAN

VARIABLES
  acts,       \* activations of the evaluate functions, innermost last
  fib_depth,  \* task->fib_depth
  fex,        \* task->fex.ex
  open        \* handles that file_open gave and file_close has not had

evalVars == <<acts, fib_depth, fex, open>>
vars     == <<excVars, evalVars>>

\* task->io_src: which buffer, which SOURCE-ID, and how far it is parsed.
Tib == FIB_MAXDEPTH          \* buffers 0..FIB_MAXDEPTH-1 are task->fib
Str == FIB_MAXDEPTH + 1
SID_UID == 0
SID_STR == MaxFd + 1         \* (e4__usize)-1, above every handle
Source == [buf : 0..Str, sid : 0..SID_STR, in : 0..MaxWords, len : 0..MaxWords]

ASSUME SourceAssumption == InputSource = Source

Empty(buf, sid) == [buf |-> buf, sid |-> sid, in |-> 0, len |-> 0]

Activation ==
  [kind : {"quit", "file", "string"},
   depth : 0..MaxFrames,      \* frames below the activation
   caught : BOOLEAN,          \* it has called e4__exception_catch
   step : {"reset", "ready", "refill", "refilled", "loop", "word", "closed"},
   slot : 0..FIB_MAXDEPTH,    \* its file input buffer
   fd : 0..MaxFd,
   ended : CodeOrOK,          \* how the last line of a file ended
   report : CodeOrOK,         \* what INCLUDED is going to throw
   old : Source]              \* old_io_src

nActs == Len(acts)
act   == acts[nActs]
base  == act.depth + IF act.caught THEN 1 ELSE 0

Push(a)      == acts' = Append(acts, a)
Pop          == acts' = SubSeq(acts, 1, nActs - 1)
SetAct(a)    == acts' = [acts EXCEPT ![nActs] = a]
Goto(s)      == SetAct([act EXCEPT !.step = s])
\* A longjmp to frame c drops the activations above it; the depths never
\* decrease along acts, so those that stay are the first ones.
CutActs(c)   == acts' = [i \in {j \in 1..nActs : acts[j].depth < c} |-> acts[i]]

NewAct(kind) ==
  [kind |-> kind, depth |-> depth, caught |-> FALSE, step |-> "reset",
   slot |-> 0, fd |-> 0, ended |-> OK, report |-> OK, old |-> src]

\* The innermost activation itself is executing, at step s.
ActIn(kinds, s) == nActs > 0 /\ depth = act.depth /\ ~act.caught
                   /\ act.kind \in kinds /\ act.step = s /\ Running
\* The catch it called has returned to it; `result' is the outcome.
ActGot(kinds, steps) == nActs > 0 /\ depth = act.depth /\ act.caught
                   /\ act.kind \in kinds /\ act.step \in steps /\ Running
\* e4__evaluate_internal's loop or the refill thunk is executing, at step s.
ActRuns(s) == nActs > 0 /\ depth = base /\ act.step = s /\ Running

-----------------------------------------------------------------------------
EvalInit ==
  /\ ExcInit
  /\ src = Empty(Tib, SID_UID) /\ sp = S0 /\ rp = R0
  /\ acts = <<>> /\ fib_depth = 0 /\ fex = OK /\ open = {}

(* The embedding program calls e4__evaluate_quit outside any handler.      *)
StartQuit ==
  /\ nActs = 0 /\ depth = 0
  /\ Push(NewAct("quit"))
  /\ UNCHANGED <<excVars, fib_depth, fex, open>>

(* Top of the QUIT loop: rp and the input source are reset.                *)
QuitTop ==
  /\ ActIn({"quit"}, "reset")
  /\ rp' = R0 /\ src' = Empty(Tib, SID_UID)
  /\ Goto("ready")
  /\ UNCHANGED <<handlerVars, sp, tr0, fib_depth, fex, open>>

(* Top of the loop over the lines of a file.                               *)
FileTop ==
  /\ ActIn({"file"}, "reset")
  /\ src' = [src EXCEPT !.in = 0, !.len = 0]
  /\ Goto("ready")
  /\ UNCHANGED <<handlerVars, sp, rp, tr0, fib_depth, fex, open>>

(* e4__evaluate_refill(task, 1): refill under a handler of its own.        *)
BeginRefill ==
  /\ ActIn({"quit", "file"}, "ready")
  /\ Catch
  /\ SetAct([act EXCEPT !.caught = TRUE, !.step = "refill"])
  /\ UNCHANGED <<fib_depth, fex, open>>

\* What e4__io_refill does to io_src when the read succeeds.
Refilled == src' \in {[src EXCEPT !.in = 0, !.len = n] : n \in 0..MaxWords}

RefillThunk ==
  /\ ActRuns("refill")
  /\ Refilled
  /\ Goto("refilled")
  /\ UNCHANGED <<handlerVars, sp, rp, tr0, fib_depth, fex, open>>

\* End of file, or e4__io_accept and e4__io_file_readline failing.
ReadErrors == IF src.sid = SID_UID THEN {IOERR, BYE} ELSE {IOERR, EOF}

RefillFails ==
  /\ ActRuns("refill")
  /\ \E e \in ReadErrors : Throw(e)
  /\ CutActs(ctx)
  /\ UNCHANGED <<fib_depth, fex, open>>

RefillReturns ==
  /\ ActRuns("refilled")
  /\ ReturnNormally
  /\ Goto("refill")
  /\ UNCHANGED <<fib_depth, fex, open>>

(* res ? res : e4__evaluate_internal(task, 1)                              *)
BeginLoop ==
  /\ ActGot({"quit", "file"}, {"refill"}) /\ result = OK
  /\ Catch
  /\ Goto("loop")
  /\ UNCHANGED <<fib_depth, fex, open>>

(* e4__evaluate from outside any handler; the thunk catches.               *)
StartEvaluate ==
  /\ nActs = 0 /\ depth = 0
  /\ \E n \in 0..MaxWords :
       src' = [Empty(Str, SID_STR) EXCEPT !.len = n]
  /\ Push([NewAct("string") EXCEPT !.step = "ready"])
  /\ UNCHANGED <<handlerVars, sp, rp, tr0, fib_depth, fex, open>>

CatchString ==
  /\ ActIn({"string"}, "ready") /\ ~valid
  /\ Catch
  /\ SetAct([act EXCEPT !.caught = TRUE, !.step = "loop"])
  /\ UNCHANGED <<fib_depth, fex, open>>

-----------------------------------------------------------------------------
(* The loop of e4__evaluate_internal: parse a word, execute it.            *)
FetchWord ==
  /\ ActRuns("loop") /\ src.in < src.len
  /\ src' = [src EXCEPT !.in = @ + 1]
  /\ Goto("word")
  /\ UNCHANGED <<handlerVars, sp, rp, tr0, fib_depth, fex, open>>

\* A word is being executed: by the loop, or by a word inside CATCH.
Executing == nActs > 0 /\ Running /\ (depth = base => act.step = "word")
                /\ depth >= base /\ act.step \in {"loop", "word"}

\* Once the word returns, the loop goes on.
NextWord == IF depth = base THEN [acts EXCEPT ![nActs].step = "loop"] ELSE acts

PlainWord ==
  /\ Executing /\ depth = base
  /\ sp' \in Cell
  /\ acts' = NextWord
  /\ UNCHANGED <<handlerVars, rp, tr0, src, fib_depth, fex, open>>

(* THROW, ABORT, QUIT, BYE and every failing word.                         *)
ThrowWord ==
  /\ Executing
  /\ \E e \in UserCode : Throw(e)
  /\ CutActs(ctx)
  /\ UNCHANGED <<fib_depth, fex, open>>

CatchWord ==
  /\ Executing
  /\ Catch
  /\ acts' = NextWord
  /\ UNCHANGED <<fib_depth, fex, open>>

(* The xt given to CATCH returns.                                          *)
CatchWordReturns ==
  /\ nActs > 0 /\ depth > base /\ act.step # "closed"
  /\ ReturnNormally
  /\ UNCHANGED evalVars

(* REFILL: from a string it only reports false.                            *)
RefillWord ==
  /\ Executing
  /\ src.sid < SID_STR
  /\ \/ /\ Refilled
        /\ acts' = NextWord
        /\ UNCHANGED <<handlerVars, sp, rp, tr0>>
     \/ /\ \E e \in ReadErrors : Throw(e)
        /\ CutActs(ctx)
  /\ UNCHANGED <<fib_depth, fex, open>>

(* EVALUATE: e4__evaluate inside a handler loops without one of its own.   *)
EvaluateWord ==
  /\ Executing /\ nActs < MaxActs
  /\ \E n \in 0..MaxWords :
       src' = [Empty(Str, SID_STR) EXCEPT !.len = n]
  /\ acts' = Append(NextWord, [NewAct("string") EXCEPT !.step = "loop"])
  /\ UNCHANGED <<handlerVars, sp, rp, tr0, fib_depth, fex, open>>

HasBuffer == fib_depth < FIB_MAXDEPTH

\* Fault: the buffer in use is not counted while its file is evaluated.
TakeBuffer_Uncounted == UNCHANGED fib_depth
TakeBuffer           == fib_depth' = fib_depth + 1

\* Fault: a file that an exception ended keeps its buffer.
ReleaseBuffer_AtEof == fib_depth' = IF result = EOF THEN fib_depth - 1 ELSE fib_depth
ReleaseBuffer       == fib_depth' = fib_depth - 1

\* Fault: only an evaluation that caught for itself puts the source back.
PutSourceBack_Caught == src' = IF act.caught THEN act.old ELSE src
PutSourceBack        == src' = act.old

\* e4__evaluate_path and the head of e4__evaluate_file_internal.
OpenFile(suspended) ==
  /\ fex' = OK
  /\ HasBuffer
  /\ \E fd \in (1..MaxFd) \ open :
       /\ open' = open \cup {fd}
       /\ src' = Empty(fib_depth, fd)
       /\ acts' = Append(suspended, [NewAct("file") EXCEPT !.slot = fib_depth,
                                                           !.fd = fd])
  /\ TakeBuffer
  /\ UNCHANGED <<handlerVars, sp, rp, tr0>>

IncludedWord ==
  /\ Executing /\ nActs < MaxActs /\ depth < MaxFrames
  /\ OpenFile(NextWord)

(* The two ways INCLUDED fails before there is anything to evaluate.       *)
IncludedFails ==
  /\ Executing
  /\ fex' = OK
  /\ Throw(IF HasBuffer THEN IOERR ELSE INCFOVERFLOW)
  /\ CutActs(ctx)
  /\ UNCHANGED <<fib_depth, open>>

(* e4__evaluate_path called by the embedding program.                      *)
StartPath == nActs = 0 /\ depth = 0 /\ OpenFile(acts)

(* The line is used up: e4__evaluate_internal returns e4__E_OK ...         *)
LoopEnds ==
  /\ ActRuns("loop") /\ act.caught /\ src.in = src.len
  /\ ReturnNormally
  /\ UNCHANGED evalVars

(* ... directly to e4__evaluate when it was called inside a handler.       *)
StringEnds ==
  /\ \/ ActIn({"string"}, "loop") /\ src.in = src.len
     \/ ActGot({"string"}, {"loop", "word"})
  /\ PutSourceBack
  /\ Pop
  /\ UNCHANGED <<handlerVars, sp, rp, tr0, fib_depth, fex, open>>

\* A refill failed, or a line was interpreted to its end or to a throw.
LineDone(kind) ==
  \/ ActGot({kind}, {"loop", "word"})
  \/ ActGot({kind}, {"refill", "refilled"}) /\ result # OK

(* What the QUIT loop makes of the outcome of a line.                      *)
QuitTurns ==
  /\ LineDone("quit")
  /\ IF result = BYE THEN Pop
     ELSE SetAct([act EXCEPT !.caught = FALSE, !.step = "reset"])
  /\ sp' = IF result \in {OK, QUIT, BYE} THEN sp ELSE S0
  /\ UNCHANGED <<handlerVars, rp, tr0, src, fib_depth, fex, open>>

\* Outcomes of a line after which the loop over a file goes on.
GoesOn == {OK, QUIT}

FileTurns ==
  /\ LineDone("file")
  /\ result \in GoesOn
  /\ SetAct([act EXCEPT !.caught = FALSE, !.step = "reset"])
  /\ UNCHANGED <<excVars, fib_depth, fex, open>>

(* The tail of e4__evaluate_file_internal.  INCLUDED throws what closing   *)
(* the file reports or else the stored file exception.                     *)
FileEnds ==
  /\ LineDone("file")
  /\ result \notin GoesOn
  /\ ReleaseBuffer
  /\ LET ended == IF result = EOF THEN OK ELSE result IN
     /\ fex' = IF fex = OK THEN ended ELSE fex
     /\ \E close \in {OK, IOERR} :
          SetAct([act EXCEPT !.caught = FALSE, !.step = "closed", !.ended = ended,
                             !.report = IF close # OK THEN close ELSE fex'])
  /\ PutSourceBack
  /\ open' = open \ {act.fd}
  /\ UNCHANGED <<handlerVars, sp, rp, tr0>>

IncludedReturns ==
  /\ ActIn({"file"}, "closed")
  /\ IF valid /\ act.report # OK
     THEN Throw(act.report) /\ CutActs(ctx)
     ELSE Pop /\ UNCHANGED excVars
  /\ UNCHANGED <<fib_depth, fex, open>>

(* A signal handler throws, at any moment a handler is set up.             *)
Interrupt ==
  /\ Interrupts
  /\ Throw(USERINTERRUPT)
  /\ CutActs(ctx)
  /\ UNCHANGED <<fib_depth, fex, open>>

Land ==
  \/ Rethrow /\ CutActs(top.old) /\ UNCHANGED <<fib_depth, fex, open>>
  \/ (Restore \/ ReturnFired) /\ UNCHANGED evalVars

Words == PlainWord \/ ThrowWord \/ CatchWord \/ CatchWordReturns
           \/ RefillWord \/ EvaluateWord \/ IncludedWord \/ IncludedFails

Next ==
  \/ StartQuit \/ StartEvaluate \/ StartPath
  \/ QuitTop \/ FileTop
  \/ BeginRefill \/ RefillThunk \/ RefillFails \/ RefillReturns
  \/ CatchString \/ BeginLoop \/ FetchWord \/ LoopEnds \/ StringEnds
  \/ Words
  \/ QuitTurns \/ FileTurns \/ FileEnds \/ IncludedReturns
  \/ Interrupt
  \/ Land

Spec == EvalInit /\ [][Next]_vars

-----------------------------------------------------------------------------
EvalTypeOK ==
  /\ ExcTypeOK
  /\ acts \in Seq(Activation)
  /\ fib_depth \in 0..FIB_MAXDEPTH
  /\ fex \in CodeOrOK
  /\ open \subseteq 1..MaxFd

\* Files between their open and their close.
Files == {i \in 1..nActs : acts[i].kind = "file" /\ acts[i].step # "closed"}

(* Whoever executes reads its own input: the innermost evaluate function   *)
(* that is active owns task->io_src, however many handlers were entered,   *)
(* jumped out of or skipped since it was called.                           *)
SourceIsOwn ==
  (nActs > 0 /\ Running) =>
    CASE act.kind = "string" -> src.buf = Str /\ src.sid = SID_STR
      [] act.kind = "quit" /\ act.step # "reset" -> src.buf = Tib /\ src.sid = SID_UID
      [] act.kind = "file" /\ act.step # "closed" -> src.buf = act.slot /\ src.sid = act.fd
      [] OTHER -> TRUE

(* A line being interpreted is never read over: the files that are being   *)
(* evaluated have different input buffers and different open handles, and  *)
(* the next one to be included will get yet another buffer.                *)
LinesAreSafe ==
  /\ \A i \in Files : acts[i].slot < fib_depth /\ acts[i].fd \in open
  /\ \A i, j \in Files : i # j => acts[i].slot # acts[j].slot /\ acts[i].fd # acts[j].fd

(* Types, the handlers under the evaluation, and the lines it reads.        *)
EvalInv == EvalTypeOK /\ HandlerInv /\ LinesAreSafe

JumpedOver == {i \in Files : i > Len(acts')}
Leaked     == open \ {acts[i].fd : i \in Files}

(* A file input buffer or a handle is lost only when a jump skips the      *)
(* function that uses it: an evaluation that ends, well or badly, while    *)
(* files, strings and handlers nest in whatever way, releases its own      *)
(* buffer and closes its own file, and no other.                           *)
LeaksOnlyByJumps ==
  [][/\ fib_depth' - Cardinality(Files') =
          fib_depth - Cardinality(Files) + Cardinality(JumpedOver)
     /\ Leaked' = Leaked \cup {acts[i].fd : i \in JumpedOver}]_vars

(* "Never throws, even when called in an exception context": every file    *)
(* whose evaluation began is accounted for; its buffer is released and its *)
(* handle closed as soon as it is not being evaluated any more.            *)
NothingLeaks ==
  Running => /\ fib_depth = Cardinality(Files)
             /\ open = {acts[i].fd : i \in Files}

(* A word inside CATCH never swallows QUIT or BYE, at any depth of files,  *)
(* strings and handlers: they reach the function that was called outside   *)
(* any handler.                                                            *)
QuitReachesTheOuterLoop ==
  [][(depth > 0 /\ depth' = depth - 1 /\ top.phase = "fired" /\ result' \in {QUIT, BYE})
       => depth' = 0 /\ nActs = 1]_vars

(* A file evaluated to its end leaves no file exception behind ("Ensure    *)
(* that on, on success, exception info is populated correctly").           *)
SuccessLeavesNoException ==
  (nActs > 0 /\ act.kind = "file" /\ act.step = "closed" /\ act.ended = OK)
     => fex = OK
=============================================================================
