------------------------------ MODULE Signals -------------------------------
(***************************************************************************)
(* The REPL's signal handler (repl/src/main.c) against the code it         *)
(* interrupts: e4__exception_catch, at the grain of its assignments to     *)
(* task->exception, and the three console callbacks that enter libedit.    *)
(*                                                                         *)
(* SIGINT may be delivered between any two steps of the program, and then  *)
(* either sets a flag, or longjmps through e4__exception_throw_then, or    *)
(* ends the program.  The jump leaves all signals blocked, as the handler  *)
(* runs with them blocked and setjmp saves no mask; the then-callback      *)
(* unblocks them.                                                          *)
(***************************************************************************)
EXTENDS Naturals

CONSTANTS
  MaxNest,  \* bound on the nesting of e4__exception_catch
  Calls     \* the console callbacks that programs use

ASSUME NestAssumption == MaxNest \in Nat \ {0}
ASSUME CallsAssumption == Calls \subseteq {"accept", "key", "keyq"}

VARIABLES
  pc,          \* where the program is
  nest,        \* active calls of e4__exception_catch
  valid,       \* task->exception.valid
  buf,         \* whose setjmp filled task->exception.ctx
  code, then,  \* task->exception.code and whether .then is set
  blocked,     \* the signal mask blocks rd->ss
  pending,     \* a SIGINT waits to be delivered
  no_jump,     \* rd->no_jump
  interrupted, \* rd->interrupted
  owed         \* history: a SIGINT was handled and the program not told yet

excVars == <<nest, valid, buf, code, then>>
sigVars == <<blocked, pending, no_jump, interrupted, owed>>
vars    == <<pc, excVars, sigVars>>

None  == 0               \* no frame: the buffer of a call that has returned
Torn  == MaxNest + 1     \* the buffer is being written
Codes == {"OK", "USERINTERRUPT", "INVMEMADDR", "BYE", "FAILURE"}

Libedit == {"gets", "getc", "history", "raw", "cook"}
InCatch == {"setjmp", "filling", "leaving", "copying", "relink"}
Place   == {"quit", "xt", "landed", "callback", "fired", "exit", "undefined"}
             \cup InCatch \cup Libedit
             \cup {"accept", "flag", "unflag", "check", "block", "unblock", "saved"}
             \cup {"key", "clear", "poll"}
Alive   == pc \notin {"exit", "undefined"}

\* exception.valid is set, but the buffer is none that longjmp may use: it
\* is being written or copied, or no setjmp has filled it yet.
Window == pc \in {"filling", "copying", "relink"} \/ (pc = "setjmp" /\ nest = 1)

Init ==
  /\ pc = "quit" /\ nest = 0 /\ valid = FALSE /\ buf = None
  /\ code = "OK" /\ then = FALSE
  /\ blocked = FALSE /\ pending = FALSE
  /\ no_jump = FALSE /\ interrupted = FALSE /\ owed = FALSE

Goto(here, next) == pc = here /\ pc' = next

-----------------------------------------------------------------------------
(* e4__exception_catch, from the QUIT loop or from a word.                 *)
BeginCatch ==
  /\ pc \in {"quit", "xt"} /\ nest < MaxNest
  /\ pc' = "setjmp" /\ nest' = nest + 1 /\ valid' = TRUE
  /\ UNCHANGED <<buf, code, then, sigVars>>

SetjmpWrites ==
  /\ Goto("setjmp", "filling") /\ buf' = Torn
  /\ UNCHANGED <<nest, valid, code, then, sigVars>>

SetjmpReturns ==
  /\ Goto("filling", "xt") /\ buf' = nest
  /\ UNCHANGED <<nest, valid, code, then, sigVars>>

XtReturns ==
  /\ nest > 0 /\ Goto("xt", "leaving")
  /\ UNCHANGED <<excVars, sigVars>>

\* The enclosing context is copied back, or there is none any more.
\* Fault: the context stays valid after its last handler has returned.
LeaveFirst_StillValid ==
  /\ nest = 1 /\ Goto("leaving", "quit")
  /\ buf' = None /\ nest' = 0
  /\ UNCHANGED <<valid, code, then, sigVars>>
LeaveFirst ==
  /\ nest = 1 /\ Goto("leaving", "quit")
  /\ valid' = FALSE /\ buf' = None /\ nest' = 0
  /\ UNCHANGED <<code, then, sigVars>>

LeaveNested ==
  /\ nest > 1
  /\ \/ Goto("leaving", "copying") /\ buf' = Torn /\ UNCHANGED nest
     \/ Goto("copying", "xt") /\ buf' = nest - 1 /\ nest' = nest - 1
  /\ UNCHANGED <<valid, code, then, sigVars>>

\* longjmp to the frame that filled the buffer, if one did.
Jump(e, callback) ==
  /\ code' = e /\ then' = callback
  /\ IF buf \in 1..nest THEN pc' = "landed" /\ nest' = buf
                        ELSE pc' = "undefined" /\ UNCHANGED nest
  /\ UNCHANGED <<valid, buf>>

LandFirst ==
  /\ nest = 1 /\ Goto("landed", "callback")
  /\ valid' = FALSE /\ buf' = None
  /\ UNCHANGED <<nest, code, then, sigVars>>

\* BYE goes on to the enclosing handler, without a callback.
LandNested ==
  /\ nest > 1
  /\ \/ Goto("landed", "relink") /\ buf' = Torn /\ UNCHANGED <<nest, then>>
     \/ /\ pc = "relink" /\ buf' = nest - 1
        /\ IF code = "BYE" THEN pc' = "landed" /\ nest' = nest - 1 /\ then' = FALSE
                           ELSE pc' = "callback" /\ UNCHANGED <<nest, then>>
  /\ UNCHANGED <<valid, code, sigVars>>

\* repl_sighandler_thenunblock
\* Fault: the callback is called for an interrupt only.
Callback_IntOnly ==
  /\ Goto("callback", "fired")
  /\ blocked' = (blocked /\ ~(then /\ code = "USERINTERRUPT"))
  /\ UNCHANGED <<excVars, pending, no_jump, interrupted, owed>>
Callback ==
  /\ Goto("callback", "fired")
  /\ blocked' = (blocked /\ ~then)
  /\ UNCHANGED <<excVars, pending, no_jump, interrupted, owed>>

CatchReturns ==
  /\ pc = "fired"
  /\ nest' = nest - 1 /\ then' = FALSE
  /\ pc' = IF nest > 1 THEN "xt" ELSE IF code = "BYE" THEN "exit" ELSE "quit"
  /\ owed' = (owed /\ code # "USERINTERRUPT")
  /\ code' = "OK"
  /\ UNCHANGED <<valid, buf, blocked, pending, no_jump, interrupted>>

Throw(e) == Jump(e, FALSE) /\ UNCHANGED sigVars

-----------------------------------------------------------------------------
Calling(f) == f \in Calls /\ nest > 0

\* Fault: no_jump is not set before libedit is entered.
AcceptBegins_MayJump ==
  /\ Calling("accept")
  /\ \/ Goto("xt", "accept") /\ UNCHANGED interrupted
     \/ Goto("accept", "gets") /\ interrupted' = FALSE
  /\ UNCHANGED <<excVars, blocked, pending, owed, no_jump>>

\* Fault: interrupted is cleared when it may already have been set.
AcceptBegins_ClearsLate ==
  /\ Calling("accept")
  /\ \/ Goto("xt", "accept") /\ UNCHANGED <<interrupted, no_jump>>
     \/ Goto("accept", "flag") /\ no_jump' = TRUE /\ UNCHANGED interrupted
     \/ Goto("flag", "gets") /\ interrupted' = FALSE /\ UNCHANGED no_jump
  /\ UNCHANGED <<excVars, blocked, pending, owed>>

\* interrupted = 0; no_jump = 1; el_gets; no_jump = 0.
AcceptBegins ==
  /\ Calling("accept")
  /\ \/ Goto("xt", "accept") /\ UNCHANGED <<interrupted, no_jump>>
     \/ Goto("accept", "flag") /\ interrupted' = FALSE /\ UNCHANGED no_jump
     \/ Goto("flag", "gets") /\ no_jump' = TRUE /\ UNCHANGED interrupted
  /\ UNCHANGED <<excVars, blocked, pending, owed>>

\* no_jump = 1; interrupted = 0; el_getc; no_jump = 0.
KeyBegins ==
  /\ Calling("key")
  /\ \/ Goto("xt", "key") /\ UNCHANGED <<interrupted, no_jump>>
     \/ Goto("key", "clear") /\ no_jump' = TRUE /\ UNCHANGED interrupted
     \/ Goto("clear", "getc") /\ interrupted' = FALSE /\ UNCHANGED no_jump
  /\ UNCHANGED <<excVars, blocked, pending, owed>>

LibeditReturns ==
  /\ \/ pc \in {"gets", "getc"} /\ pc' = "unflag" /\ UNCHANGED no_jump
     \/ Goto("unflag", "check") /\ no_jump' = FALSE
  /\ UNCHANGED <<excVars, blocked, pending, interrupted, owed>>

\* What both report; repl_accept goes on to save the line, or meets the end.
CheckFails ==
  /\ pc = "check"
  /\ IF interrupted THEN Throw("USERINTERRUPT")
                    ELSE \E e \in {"FAILURE", "BYE"} : Throw(e)

CheckSucceeds ==
  /\ pc = "check" /\ ~interrupted
  /\ pc' \in {"xt"} \cup IF "accept" \in Calls THEN {"block"} ELSE {}
  /\ UNCHANGED <<excVars, sigVars>>

SaveLine ==
  /\ \/ Goto("block", "history") /\ blocked' = TRUE
     \/ Goto("history", "unblock") /\ UNCHANGED blocked
     \/ Goto("unblock", "saved") /\ blocked' = FALSE
     \/ Goto("saved", "xt") /\ UNCHANGED blocked
  /\ UNCHANGED <<excVars, pending, no_jump, interrupted, owed>>

SaveFails == pc = "saved" /\ Throw("FAILURE")

\* el_set(EL_PREP_TERM, 1); poll; el_set(EL_PREP_TERM, 0)
Keyq ==
  /\ Calling("keyq")
  /\ Goto("xt", "raw") \/ Goto("raw", "poll") \/ Goto("poll", "cook") \/ Goto("cook", "xt")
  /\ UNCHANGED <<excVars, sigVars>>

-----------------------------------------------------------------------------
(* The user presses ^C.                                                    *)
Interrupt ==
  /\ Alive /\ ~pending /\ pending' = TRUE
  /\ UNCHANGED <<pc, excVars, blocked, no_jump, interrupted, owed>>

\* A longjmp out of repl_sighandler, which runs with its signals blocked.
JumpFromHandler(e) ==
  /\ Jump(e, TRUE) /\ blocked' = TRUE
  /\ UNCHANGED <<no_jump, interrupted>>

(* repl_sighandler(SIGINT)                                                 *)
SigInt ==
  /\ Alive /\ pending /\ ~blocked
  /\ pending' = FALSE
  /\ IF no_jump
     THEN interrupted' = TRUE /\ owed' = TRUE /\ UNCHANGED <<pc, excVars, blocked, no_jump>>
     ELSE IF valid THEN JumpFromHandler("USERINTERRUPT") /\ owed' = TRUE
     ELSE pc' = "exit" /\ UNCHANGED <<excVars, blocked, no_jump, interrupted, owed>>

(* repl_sighandler(SIGSEGV), raised by a word that uses a bad address.     *)
SigSegv ==
  /\ pc = "xt" /\ nest > 0 /\ ~blocked
  /\ JumpFromHandler("INVMEMADDR")
  /\ UNCHANGED <<pending, owed>>

Program ==
  \/ BeginCatch \/ SetjmpWrites \/ SetjmpReturns
  \/ XtReturns \/ LeaveFirst \/ LeaveNested
  \/ LandFirst \/ LandNested \/ Callback \/ CatchReturns
  \/ AcceptBegins \/ KeyBegins \/ LibeditReturns \/ CheckFails \/ CheckSucceeds
  \/ SaveLine \/ SaveFails \/ Keyq

Next == Program \/ Interrupt \/ SigInt \/ SigSegv

(* The program runs on, and input that is waited for arrives.              *)
Spec == Init /\ [][Next]_vars /\ WF_vars(Program)

-----------------------------------------------------------------------------
SignalsTypeOK ==
  /\ pc \in Place /\ nest \in 0..MaxNest /\ buf \in 0..Torn
  /\ code \in Codes
  /\ {valid, then, blocked, pending, no_jump, interrupted, owed} \subseteq BOOLEAN

(* "whenever executing libedit code, signals are either blocked or no_jump *)
(* is set": the handler never jumps out of libedit.                        *)
NoJumpOutOfLibedit == [][(pc \in Libedit) => pc' # "landed"]_vars

(* This holds of everything but the change of the terminal mode in KEY?:   *)
(* reading a line or a key and saving a line of history.                   *)
NoJumpOutOfInput ==
  [][(pc \in Libedit \ {"raw", "cook"}) => pc' # "landed"]_vars

(* "e4 itself does not contain any non-async-safe code": every longjmp of  *)
(* the handler goes to a call of e4__exception_catch that is still active  *)
(* and whose setjmp has returned.  This fails, in the window only.         *)
JumpsAreDefined == pc # "undefined"

\* The handler that is to catch what is thrown: the enclosing one as long as
\* setjmp has not been called, and once the call has caught something itself.
Innermost == IF pc \in {"setjmp", "callback", "fired"} THEN nest - 1 ELSE nest

(* Outside the window, wherever the signal handler finds exception.valid   *)
(* set, the buffer is that of the innermost handler, and there is one: its *)
(* call of e4__exception_catch is active and its setjmp has returned.      *)
BufferIsInnermost ==
  valid /\ Alive /\ ~Window => buf = Innermost /\ Innermost \in 1..nest

(* ... with every variable of its type.                                    *)
SignalsInv == SignalsTypeOK /\ BufferIsInnermost

(* Once an interrupt has been handled further ones come through again: the *)
(* mask the jump left behind never reaches the program, a wait for input   *)
(* or the QUIT loop.                                                       *)
SignalsAreUnblocked ==
  blocked /\ Alive => \/ pc \in {"history", "unblock"}
                      \/ pc \in {"landed", "relink", "callback"} /\ then

(* A ^C is never swallowed: if it was only noted, because libedit was      *)
(* running, the program is told when libedit returns ("This is checked     *)
(* after executing libedit code ... the error is safely propagated").      *)
InterruptIsReported == owed ~> (~owed \/ ~Alive)

(* ... and in any case if it was noted at another moment than between the  *)
(* two assignments of KEY.                                                 *)
NotedIsReported ==
  (owed /\ interrupted /\ pc # "clear") ~> (~owed \/ ~Alive)
=============================================================================
