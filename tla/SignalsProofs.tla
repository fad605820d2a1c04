--------------------------- MODULE SignalsProofs ---------------------------
(***************************************************************************)
(* The signal handler of the REPL jumps to a dead frame in no other window *)
(* than that of e4__exception_catch, and never out of reading input or     *)
(* with the signals left blocked, however deep handlers nest and whichever *)
(* callbacks programs use.                                                 *)
(***************************************************************************)
EXTENDS Signals, Completion, SequenceTheorems, WellFoundedInduction, TLAPS

\* Code that runs under the innermost handler.
InXt == {"xt", "leaving"} \cup Libedit
          \cup {"accept", "flag", "unflag", "check", "block", "unblock", "saved"}
          \cup {"key", "clear", "poll"}

\* Whose setjmp filled the buffer, at each place of the program.
BufferIsKnown ==
  /\ pc = "quit" => nest = 0 /\ ~valid /\ buf = None
  /\ pc \in InXt \cup {"landed"} => nest > 0 /\ valid /\ buf = nest
  /\ pc \in {"setjmp", "filling"} => nest > 0 /\ valid
  /\ pc = "setjmp" => buf = nest - 1
  /\ pc \in {"copying", "relink"} => nest > 1 /\ valid
  /\ pc \in {"callback", "fired"} =>
       /\ nest > 0 /\ buf = nest - 1
       /\ valid <=> nest > 1

\* A callback comes with an exception that no handler passes on.
CallbackIsKept == then => code # "BYE"

\* Libedit runs with the flag set or the signals blocked.
InputIsGuarded ==
  /\ pc \in {"clear", "gets", "getc", "unflag"} => no_jump
  /\ pc = "history" => blocked

Safe == SignalsTypeOK /\ BufferIsKnown /\ CallbackIsKept /\ SignalsAreUnblocked

\* The type invariant, variable by variable.
LEMMA Types ==
  SignalsTypeOK <=>
    /\ pc \in Place /\ nest \in 0..MaxNest /\ buf \in 0..(MaxNest + 1) /\ code \in Codes
    /\ valid \in BOOLEAN /\ then \in BOOLEAN /\ blocked \in BOOLEAN /\ pending \in BOOLEAN
    /\ no_jump \in BOOLEAN /\ interrupted \in BOOLEAN /\ owed \in BOOLEAN
BY DEF SignalsTypeOK, Torn

\* ... and after a step.
LEMMA TypesAfter ==
  SignalsTypeOK' <=>
    /\ pc' \in Place /\ nest' \in 0..MaxNest /\ buf' \in 0..(MaxNest + 1) /\ code' \in Codes
    /\ valid' \in BOOLEAN /\ then' \in BOOLEAN /\ blocked' \in BOOLEAN /\ pending' \in BOOLEAN
    /\ no_jump' \in BOOLEAN /\ interrupted' \in BOOLEAN /\ owed' \in BOOLEAN
BY DEF SignalsTypeOK, Torn

-----------------------------------------------------------------------------
\* The program starts in the QUIT loop, under no handler.
LEMMA InitIsSafe == Init => Safe
<1> SUFFICES ASSUME Init PROVE Safe
  OBVIOUS
<1>1. /\ pc = "quit" /\ nest = 0 /\ valid = FALSE /\ buf = 0
      /\ code = "OK" /\ then = FALSE
      /\ blocked = FALSE /\ pending = FALSE
      /\ no_jump = FALSE /\ interrupted = FALSE /\ owed = FALSE
  BY DEF Init, None
<1>2. pc \in Place
  BY <1>1 DEF Place
<1>3. SignalsTypeOK
  <2>1. nest \in 0..MaxNest /\ buf \in 0..(MaxNest + 1)
    BY <1>1, NestAssumption
  <2>2. code \in Codes
    BY <1>1 DEF Codes
  <2>3. /\ valid \in BOOLEAN /\ then \in BOOLEAN /\ blocked \in BOOLEAN /\ pending \in BOOLEAN
        /\ no_jump \in BOOLEAN /\ interrupted \in BOOLEAN /\ owed \in BOOLEAN
    BY <1>1
  <2> QED BY <1>2, <2>1, <2>2, <2>3, Types
<1>4. BufferIsKnown
  BY <1>1 DEF BufferIsKnown, InXt, Libedit, None
<1>5. CallbackIsKept /\ SignalsAreUnblocked
  BY <1>1 DEF CallbackIsKept, SignalsAreUnblocked, Alive
<1> QED BY <1>3, <1>4, <1>5 DEF Safe

\* A jump lands with the handler that filled the buffer, or is undefined.
LEMMA JumpIsSafe ==
  ASSUME Safe, NEW e \in Codes, NEW callback \in BOOLEAN, Jump(e, callback), valid,
         callback => e # "BYE",
         {blocked', pending', no_jump', interrupted', owed'} \subseteq BOOLEAN,
         blocked' => callback
  PROVE  Safe'
<1>a. /\ SignalsTypeOK /\ code' = e /\ then' = callback /\ valid' = valid /\ buf' = buf
      /\ \/ buf \in 1..nest /\ pc' = "landed" /\ nest' = buf
         \/ buf \notin 1..nest /\ pc' = "undefined" /\ nest' = nest
  BY DEF Jump, Safe
<1>1. nest' \in 0..MaxNest
  BY <1>a, NestAssumption, Types
<1>2. SignalsTypeOK'
  BY <1>a, <1>1, Types, TypesAfter DEF Place
<1>3. BufferIsKnown'
  BY <1>a, <1>1 DEF BufferIsKnown, InXt, Libedit
<1>4. CallbackIsKept' /\ SignalsAreUnblocked'
  BY <1>a DEF CallbackIsKept, SignalsAreUnblocked, Alive
<1> QED BY <1>2, <1>3, <1>4 DEF Safe

\* The statements of e4__exception_catch: the buffer is known again after
\* each of them, and the mask is the program's own when the handler returns.
LEMMA CatchIsSafe ==
  ASSUME Safe,
         \/ BeginCatch \/ SetjmpWrites \/ SetjmpReturns
         \/ XtReturns \/ LeaveFirst \/ LeaveNested
         \/ LandFirst \/ LandNested \/ Callback \/ CatchReturns
  PROVE  Safe'
<1>a. SignalsTypeOK /\ BufferIsKnown /\ CallbackIsKept /\ SignalsAreUnblocked
  BY DEF Safe
<1>b. /\ pc \in Place /\ nest \in 0..MaxNest /\ buf \in 0..(MaxNest + 1) /\ code \in Codes
      /\ valid \in BOOLEAN /\ then \in BOOLEAN /\ blocked \in BOOLEAN /\ pending \in BOOLEAN
      /\ no_jump \in BOOLEAN /\ interrupted \in BOOLEAN /\ owed \in BOOLEAN
  BY <1>a, Types
<1>1. CASE BeginCatch
  <2>1. /\ pc \in {"quit", "xt"} /\ nest < MaxNest
        /\ pc' = "setjmp" /\ nest' = nest + 1 /\ valid' = TRUE
        /\ buf' = buf /\ code' = code /\ then' = then
        /\ UNCHANGED <<blocked, pending, no_jump, interrupted, owed>>
    BY <1>1 DEF BeginCatch, sigVars
  <2>2. ~blocked /\ buf = nest' - 1
    BY <1>a, <1>b, <2>1 DEF BufferIsKnown, SignalsAreUnblocked, Alive, InXt, None
  <2>3. nest' \in 0..MaxNest /\ nest' > 0 /\ pc' \in Place
    BY <1>b, <2>1, <2>2, NestAssumption DEF Place, InCatch, Codes
  <2>4. SignalsTypeOK'
    BY <1>b, <2>1, <2>3, TypesAfter
  <2>5. BufferIsKnown'
    BY <1>b, <2>1, <2>2 DEF BufferIsKnown, InXt, Libedit, InCatch, None
  <2>6. CallbackIsKept' /\ SignalsAreUnblocked'
    BY <1>a, <2>1, <2>2 DEF CallbackIsKept, SignalsAreUnblocked, Alive
  <2> QED BY <2>4, <2>5, <2>6 DEF Safe
<1>2. CASE SetjmpWrites
  <2>1. /\ pc = "setjmp" /\ pc' = "filling" /\ buf' = MaxNest + 1
        /\ nest' = nest /\ valid' = valid /\ code' = code /\ then' = then
        /\ UNCHANGED <<blocked, pending, no_jump, interrupted, owed>>
    BY <1>2 DEF SetjmpWrites, Goto, sigVars, Torn
  <2>2. nest > 0 /\ valid
    BY <1>a, <1>b, <2>1 DEF BufferIsKnown, SignalsAreUnblocked, Alive, CallbackIsKept, InXt
  <2>3. buf' \in 0..(MaxNest + 1) /\ pc' \in Place
    BY <1>b, <2>1, <2>2, NestAssumption DEF Place, InCatch, Codes
  <2>4. SignalsTypeOK'
    BY <1>b, <2>1, <2>3, TypesAfter
  <2>5. BufferIsKnown'
    BY <1>b, <2>1, <2>2 DEF BufferIsKnown, InXt, Libedit, InCatch, None
  <2>6. CallbackIsKept' /\ SignalsAreUnblocked'
    BY <1>a, <2>1, <2>2 DEF CallbackIsKept, SignalsAreUnblocked, Alive
  <2> QED BY <2>4, <2>5, <2>6 DEF Safe
<1>3. CASE SetjmpReturns
  <2>1. /\ pc = "filling" /\ pc' = "xt" /\ buf' = nest
        /\ nest' = nest /\ valid' = valid /\ code' = code /\ then' = then
        /\ UNCHANGED <<blocked, pending, no_jump, interrupted, owed>>
    BY <1>3 DEF SetjmpReturns, Goto, sigVars
  <2>2. nest > 0 /\ valid
    BY <1>a, <1>b, <2>1 DEF BufferIsKnown, SignalsAreUnblocked, Alive, CallbackIsKept, InXt
  <2>3. buf' \in 0..(MaxNest + 1) /\ pc' \in Place
    BY <1>b, <2>1, <2>2, NestAssumption DEF Place, InCatch, Codes
  <2>4. SignalsTypeOK'
    BY <1>b, <2>1, <2>3, TypesAfter
  <2>5. BufferIsKnown'
    BY <1>b, <2>1, <2>2 DEF BufferIsKnown, InXt, Libedit, InCatch, None
  <2>6. CallbackIsKept' /\ SignalsAreUnblocked'
    BY <1>a, <2>1, <2>2 DEF CallbackIsKept, SignalsAreUnblocked, Alive
  <2> QED BY <2>4, <2>5, <2>6 DEF Safe
<1>4. CASE XtReturns
  <2>1. /\ pc = "xt" /\ pc' = "leaving" /\ buf' = buf
        /\ nest' = nest /\ valid' = valid /\ code' = code /\ then' = then
        /\ UNCHANGED <<blocked, pending, no_jump, interrupted, owed>>
    BY <1>4 DEF XtReturns, Goto, excVars, sigVars
  <2>2. nest > 0 /\ valid /\ buf = nest
    BY <1>a, <1>b, <2>1 DEF BufferIsKnown, SignalsAreUnblocked, Alive, CallbackIsKept, InXt
  <2>3. pc' \in Place
    BY <1>b, <2>1, <2>2, NestAssumption DEF Place, InCatch, Codes
  <2>4. SignalsTypeOK'
    BY <1>b, <2>1, <2>3, TypesAfter
  <2>5. BufferIsKnown'
    BY <1>b, <2>1, <2>2 DEF BufferIsKnown, InXt, Libedit, InCatch, None
  <2>6. CallbackIsKept' /\ SignalsAreUnblocked'
    BY <1>a, <2>1, <2>2 DEF CallbackIsKept, SignalsAreUnblocked, Alive
  <2> QED BY <2>4, <2>5, <2>6 DEF Safe
<1>5. CASE LeaveFirst
  <2>1. /\ pc = "leaving" /\ pc' = "quit"
        /\ nest' = 0 /\ valid' = FALSE /\ buf' = 0 /\ code' = code /\ then' = then
        /\ UNCHANGED <<blocked, pending, no_jump, interrupted, owed>>
    BY <1>5 DEF LeaveFirst, Goto, sigVars, None
  <2>2. ~blocked
    BY <1>a, <1>b, <2>1 DEF BufferIsKnown, SignalsAreUnblocked, Alive, CallbackIsKept, InXt
  <2>3. 0 \in 0..MaxNest /\ 0 \in 0..(MaxNest + 1) /\ pc' \in Place
    BY <1>b, <2>1, <2>2, NestAssumption DEF Place, InCatch, Codes
  <2>4. SignalsTypeOK'
    BY <1>b, <2>1, <2>3, TypesAfter
  <2>5. BufferIsKnown'
    BY <1>b, <2>1, <2>2 DEF BufferIsKnown, InXt, Libedit, InCatch, None
  <2>6. CallbackIsKept' /\ SignalsAreUnblocked'
    BY <1>a, <2>1, <2>2 DEF CallbackIsKept, SignalsAreUnblocked, Alive
  <2> QED BY <2>4, <2>5, <2>6 DEF Safe
<1>6. CASE /\ Goto("leaving", "copying") /\ buf' = Torn
             /\ nest > 1 /\ UNCHANGED <<nest, valid, code, then, sigVars>>
  <2>1. /\ pc = "leaving" /\ pc' = "copying" /\ nest > 1 /\ buf' = MaxNest + 1
        /\ nest' = nest /\ valid' = valid /\ code' = code /\ then' = then
        /\ UNCHANGED <<blocked, pending, no_jump, interrupted, owed>>
    BY <1>6 DEF Goto, sigVars, Torn
  <2>2. nest > 0 /\ valid
    BY <1>a, <1>b, <2>1 DEF BufferIsKnown, SignalsAreUnblocked, Alive, CallbackIsKept, InXt
  <2>3. buf' \in 0..(MaxNest + 1) /\ pc' \in Place
    BY <1>b, <2>1, <2>2, NestAssumption DEF Place, InCatch, Codes
  <2>4. SignalsTypeOK'
    BY <1>b, <2>1, <2>3, TypesAfter
  <2>5. BufferIsKnown'
    BY <1>b, <2>1, <2>2 DEF BufferIsKnown, InXt, Libedit, InCatch, None
  <2>6. CallbackIsKept' /\ SignalsAreUnblocked'
    BY <1>a, <2>1, <2>2 DEF CallbackIsKept, SignalsAreUnblocked, Alive
  <2> QED BY <2>4, <2>5, <2>6 DEF Safe
<1>7. CASE /\ Goto("copying", "xt") /\ buf' = nest - 1 /\ nest' = nest - 1
             /\ nest > 1 /\ UNCHANGED <<valid, code, then, sigVars>>
  <2>1. /\ pc = "copying" /\ pc' = "xt" /\ nest > 1 /\ buf' = nest - 1 /\ nest' = nest - 1
        /\ valid' = valid /\ code' = code /\ then' = then
        /\ UNCHANGED <<blocked, pending, no_jump, interrupted, owed>>
    BY <1>7 DEF Goto, sigVars
  <2>2. nest > 0 /\ valid
    BY <1>a, <1>b, <2>1 DEF BufferIsKnown, SignalsAreUnblocked, Alive, CallbackIsKept, InXt
  <2>3. buf' \in 0..(MaxNest + 1) /\ nest' \in 0..MaxNest /\ pc' \in Place
    BY <1>b, <2>1, <2>2, NestAssumption DEF Place, InCatch, Codes
  <2>4. SignalsTypeOK'
    BY <1>b, <2>1, <2>3, TypesAfter
  <2>5. BufferIsKnown'
    BY <1>b, <2>1, <2>2 DEF BufferIsKnown, InXt, Libedit, InCatch, None
  <2>6. CallbackIsKept' /\ SignalsAreUnblocked'
    BY <1>a, <2>1, <2>2 DEF CallbackIsKept, SignalsAreUnblocked, Alive
  <2> QED BY <2>4, <2>5, <2>6 DEF Safe
<1>8. CASE LandFirst
  <2>1. /\ pc = "landed" /\ pc' = "callback" /\ nest = 1
        /\ valid' = FALSE /\ buf' = 0 /\ nest' = nest /\ code' = code /\ then' = then
        /\ UNCHANGED <<blocked, pending, no_jump, interrupted, owed>>
    BY <1>8 DEF LandFirst, Goto, sigVars, None
  <2>2. blocked => then
    BY <1>a, <1>b, <2>1 DEF BufferIsKnown, SignalsAreUnblocked, Alive, CallbackIsKept, InXt
  <2>3. 0 \in 0..(MaxNest + 1) /\ pc' \in Place
    BY <1>b, <2>1, <2>2, NestAssumption DEF Place, InCatch, Codes
  <2>4. SignalsTypeOK'
    BY <1>b, <2>1, <2>3, TypesAfter
  <2>5. BufferIsKnown'
    BY <1>b, <2>1, <2>2 DEF BufferIsKnown, InXt, Libedit, InCatch, None
  <2>6. CallbackIsKept' /\ SignalsAreUnblocked'
    BY <1>a, <2>1, <2>2 DEF CallbackIsKept, SignalsAreUnblocked, Alive
  <2> QED BY <2>4, <2>5, <2>6 DEF Safe
<1>9. CASE /\ Goto("landed", "relink") /\ buf' = Torn
             /\ nest > 1 /\ UNCHANGED <<nest, then, valid, code, sigVars>>
  <2>1. /\ pc = "landed" /\ pc' = "relink" /\ nest > 1 /\ buf' = MaxNest + 1
        /\ nest' = nest /\ valid' = valid /\ code' = code /\ then' = then
        /\ UNCHANGED <<blocked, pending, no_jump, interrupted, owed>>
    BY <1>9 DEF Goto, sigVars, Torn
  <2>2. nest > 1 /\ valid /\ (blocked => then)
    BY <1>a, <1>b, <2>1 DEF BufferIsKnown, SignalsAreUnblocked, Alive, CallbackIsKept, InXt
  <2>3. buf' \in 0..(MaxNest + 1) /\ pc' \in Place
    BY <1>b, <2>1, <2>2, NestAssumption DEF Place, InCatch, Codes
  <2>4. SignalsTypeOK'
    BY <1>b, <2>1, <2>3, TypesAfter
  <2>5. BufferIsKnown'
    BY <1>b, <2>1, <2>2 DEF BufferIsKnown, InXt, Libedit, InCatch, None
  <2>6. CallbackIsKept' /\ SignalsAreUnblocked'
    BY <1>a, <2>1, <2>2 DEF CallbackIsKept, SignalsAreUnblocked, Alive
  <2> QED BY <2>4, <2>5, <2>6 DEF Safe
<1>10. CASE /\ pc = "relink" /\ buf' = nest - 1 /\ code = "BYE"
              /\ pc' = "landed" /\ nest' = nest - 1 /\ then' = FALSE
              /\ nest > 1 /\ UNCHANGED <<valid, code, sigVars>>
  <2>1. /\ pc = "relink" /\ pc' = "landed" /\ nest > 1 /\ code = "BYE"
        /\ buf' = nest - 1 /\ nest' = nest - 1 /\ then' = FALSE /\ valid' = valid /\ code' = code
        /\ UNCHANGED <<blocked, pending, no_jump, interrupted, owed>>
    BY <1>10 DEF sigVars
  <2>2. valid /\ ~blocked
    BY <1>a, <1>b, <2>1 DEF BufferIsKnown, SignalsAreUnblocked, Alive, CallbackIsKept, InXt
  <2>3. buf' \in 0..(MaxNest + 1) /\ nest' \in 0..MaxNest /\ pc' \in Place
    BY <1>b, <2>1, <2>2, NestAssumption DEF Place, InCatch, Codes
  <2>4. SignalsTypeOK'
    BY <1>b, <2>1, <2>3, TypesAfter
  <2>5. BufferIsKnown'
    BY <1>b, <2>1, <2>2 DEF BufferIsKnown, InXt, Libedit, InCatch, None
  <2>6. CallbackIsKept' /\ SignalsAreUnblocked'
    BY <1>a, <2>1, <2>2 DEF CallbackIsKept, SignalsAreUnblocked, Alive
  <2> QED BY <2>4, <2>5, <2>6 DEF Safe
<1>11. CASE /\ pc = "relink" /\ buf' = nest - 1 /\ code # "BYE"
              /\ pc' = "callback" /\ UNCHANGED <<nest, then>>
              /\ nest > 1 /\ UNCHANGED <<valid, code, sigVars>>
  <2>1. /\ pc = "relink" /\ pc' = "callback" /\ nest > 1
        /\ buf' = nest - 1 /\ nest' = nest /\ then' = then /\ valid' = valid /\ code' = code
        /\ UNCHANGED <<blocked, pending, no_jump, interrupted, owed>>
    BY <1>11 DEF sigVars
  <2>2. valid /\ (blocked => then)
    BY <1>a, <1>b, <2>1 DEF BufferIsKnown, SignalsAreUnblocked, Alive, CallbackIsKept, InXt
  <2>3. buf' \in 0..(MaxNest + 1) /\ pc' \in Place
    BY <1>b, <2>1, <2>2, NestAssumption DEF Place, InCatch, Codes
  <2>4. SignalsTypeOK'
    BY <1>b, <2>1, <2>3, TypesAfter
  <2>5. BufferIsKnown'
    BY <1>b, <2>1, <2>2 DEF BufferIsKnown, InXt, Libedit, InCatch, None
  <2>6. CallbackIsKept' /\ SignalsAreUnblocked'
    BY <1>a, <2>1, <2>2 DEF CallbackIsKept, SignalsAreUnblocked, Alive
  <2> QED BY <2>4, <2>5, <2>6 DEF Safe
<1>12. CASE Callback
  <2>1. /\ pc = "callback" /\ pc' = "fired" /\ buf' = buf /\ blocked' = (blocked /\ ~then)
        /\ nest' = nest /\ valid' = valid /\ code' = code /\ then' = then
        /\ UNCHANGED <<pending, no_jump, interrupted, owed>>
    BY <1>12 DEF Callback, Goto, excVars
  <2>2. nest > 0 /\ buf = nest - 1 /\ (valid <=> nest > 1) /\ (blocked => then)
    BY <1>a, <1>b, <2>1 DEF BufferIsKnown, SignalsAreUnblocked, Alive, CallbackIsKept, InXt
  <2>3. pc' \in Place
    BY <1>b, <2>1, <2>2, NestAssumption DEF Place, InCatch, Codes
  <2>4. SignalsTypeOK'
    BY <1>b, <2>1, <2>3, TypesAfter
  <2>5. BufferIsKnown'
    BY <1>b, <2>1, <2>2 DEF BufferIsKnown, InXt, Libedit, InCatch, None
  <2>6. CallbackIsKept' /\ SignalsAreUnblocked'
    BY <1>a, <2>1, <2>2 DEF CallbackIsKept, SignalsAreUnblocked, Alive
  <2> QED BY <2>4, <2>5, <2>6 DEF Safe
<1>13. CASE CatchReturns
  <2>1. /\ pc = "fired" /\ nest' = nest - 1 /\ then' = FALSE
        /\ pc' = IF nest > 1 THEN "xt" ELSE IF code = "BYE" THEN "exit" ELSE "quit"
        /\ code' = "OK" /\ owed' = (owed /\ code # "USERINTERRUPT")
        /\ UNCHANGED <<valid, buf, blocked, pending, no_jump, interrupted>>
    BY <1>13 DEF CatchReturns
  <2>2. nest > 0 /\ buf = nest - 1 /\ (valid <=> nest > 1) /\ ~blocked
    BY <1>a, <1>b, <2>1 DEF BufferIsKnown, SignalsAreUnblocked, Alive, CallbackIsKept, InXt
  <2>3. nest' \in 0..MaxNest /\ pc' \in Place /\ code' \in Codes
    BY <1>b, <2>1, <2>2, NestAssumption DEF Place, InCatch, Codes
  <2>4. SignalsTypeOK'
    BY <1>b, <2>1, <2>3, TypesAfter
  <2>5. BufferIsKnown'
    BY <1>b, <2>1, <2>2 DEF BufferIsKnown, InXt, Libedit, InCatch, None
  <2>6. CallbackIsKept' /\ SignalsAreUnblocked'
    BY <1>a, <2>1, <2>2 DEF CallbackIsKept, SignalsAreUnblocked, Alive
  <2> QED BY <2>4, <2>5, <2>6 DEF Safe
<1> QED BY <1>1, <1>2, <1>3, <1>4, <1>5, <1>6, <1>7, <1>8, <1>9, <1>10, <1>11, <1>12, <1>13
         DEF LeaveNested, LandNested

\* A step that stays with the code under the innermost handler, and leaves
\* signals blocked around the saving of history only.
LEMMA InXtIsSafe ==
  ASSUME Safe, pc \in InXt, pc' \in InXt, UNCHANGED excVars,
         blocked' => pc' \in {"history", "unblock"},
         blocked' \in BOOLEAN, pending' \in BOOLEAN, no_jump' \in BOOLEAN,
         interrupted' \in BOOLEAN, owed' \in BOOLEAN
  PROVE  Safe'
<1>1. SignalsTypeOK /\ BufferIsKnown /\ CallbackIsKept
  BY DEF Safe
<1>2. nest' = nest /\ valid' = valid /\ buf' = buf /\ code' = code /\ then' = then
  BY DEF excVars
<1>3. pc' \in Place /\ pc' # "undefined"
  BY DEF InXt, Place, InCatch, Libedit
<1>4. SignalsTypeOK'
  BY <1>1, <1>2, <1>3, Types, TypesAfter
<1>5. nest > 0 /\ valid /\ buf = nest
  BY <1>1 DEF BufferIsKnown
<1>6. BufferIsKnown'
  BY <1>2, <1>5 DEF BufferIsKnown, InXt, Libedit
<1>7. CallbackIsKept' /\ SignalsAreUnblocked'
  BY <1>1, <1>2, <1>3 DEF CallbackIsKept, SignalsAreUnblocked, Alive
<1> QED BY <1>4, <1>6, <1>7 DEF Safe

\* The console callbacks, and what they throw.
LEMMA ConsoleIsSafe ==
  ASSUME Safe,
         \/ AcceptBegins \/ KeyBegins \/ LibeditReturns \/ CheckFails \/ CheckSucceeds
         \/ SaveLine \/ SaveFails \/ Keyq
  PROVE  Safe'
<1>a. /\ SignalsTypeOK /\ BufferIsKnown /\ SignalsAreUnblocked
      /\ pc \in Place /\ nest \in 0..MaxNest /\ blocked \in BOOLEAN /\ pending \in BOOLEAN
      /\ no_jump \in BOOLEAN /\ interrupted \in BOOLEAN /\ owed \in BOOLEAN
  BY Types DEF Safe
<1>1. CASE AcceptBegins \/ KeyBegins
  <2>1. /\ pc \in {"xt", "accept", "flag", "key", "clear"}
        /\ pc' \in {"accept", "flag", "gets", "key", "clear", "getc"}
        /\ no_jump' \in {no_jump, TRUE} /\ interrupted' \in {interrupted, FALSE}
        /\ UNCHANGED <<excVars, blocked, pending, owed>>
    BY <1>1 DEF AcceptBegins, KeyBegins, Goto
  <2>2. pc \in InXt /\ pc' \in InXt /\ ~blocked
    BY <1>a, <2>1 DEF InXt, Libedit, SignalsAreUnblocked, Alive
  <2> QED BY <1>a, <2>1, <2>2, InXtIsSafe
<1>2. CASE LibeditReturns
  <2>1. /\ pc \in {"gets", "getc", "unflag"} /\ pc' \in {"unflag", "check"}
        /\ no_jump' \in {no_jump, FALSE}
        /\ UNCHANGED <<excVars, blocked, pending, interrupted, owed>>
    BY <1>2 DEF LibeditReturns, Goto
  <2>2. pc \in InXt /\ pc' \in InXt /\ ~blocked
    BY <1>a, <2>1 DEF InXt, Libedit, SignalsAreUnblocked, Alive
  <2> QED BY <1>a, <2>1, <2>2, InXtIsSafe
<1>3. CASE CheckSucceeds
  <2>1. pc = "check" /\ pc' \in {"xt", "block"} /\ UNCHANGED excVars /\ UNCHANGED sigVars
    BY <1>3 DEF CheckSucceeds
  <2>2. pc \in InXt /\ pc' \in InXt /\ ~blocked
    BY <1>a, <2>1 DEF InXt, Libedit, SignalsAreUnblocked, Alive
  <2> QED BY <1>a, <2>1, <2>2, InXtIsSafe DEF sigVars
<1>4. CASE SaveLine
  <2>1. /\ pc \in {"block", "history", "unblock", "saved"}
        /\ pc' \in {"history", "unblock", "saved", "xt"}
        /\ UNCHANGED <<excVars, pending, no_jump, interrupted, owed>>
        /\ blocked' \in {blocked, TRUE, FALSE}
    BY <1>4 DEF SaveLine, Goto
  <2>2. blocked' => pc' \in {"history", "unblock"}
    BY <1>4, <1>a DEF SaveLine, Goto, SignalsAreUnblocked, Alive
  <2>3. pc \in InXt /\ pc' \in InXt
    BY <2>1 DEF InXt, Libedit
  <2> QED BY <1>a, <2>1, <2>2, <2>3, InXtIsSafe
<1>5. CASE Keyq
  <2>1. /\ pc \in {"xt", "raw", "poll", "cook"} /\ pc' \in {"xt", "raw", "poll", "cook"}
        /\ UNCHANGED excVars /\ UNCHANGED sigVars
    BY <1>5 DEF Keyq, Goto
  <2>2. pc \in InXt /\ pc' \in InXt /\ ~blocked
    BY <1>a, <2>1 DEF InXt, Libedit, SignalsAreUnblocked, Alive
  <2> QED BY <1>a, <2>1, <2>2, InXtIsSafe DEF sigVars
<1>6. CASE CheckFails \/ SaveFails
  <2>1. PICK e \in {"USERINTERRUPT", "FAILURE", "BYE"} :
          pc \in {"check", "saved"} /\ Jump(e, FALSE) /\ UNCHANGED sigVars
    BY <1>6 DEF CheckFails, SaveFails, Throw
  <2>2. pc \in InXt /\ ~blocked /\ e \in Codes
    BY <1>a, <2>1 DEF InXt, Libedit, SignalsAreUnblocked, Alive, Codes
  <2>3. valid
    BY <1>a, <2>2 DEF BufferIsKnown
  <2>4. /\ ~blocked' /\ blocked' \in BOOLEAN /\ pending' \in BOOLEAN /\ no_jump' \in BOOLEAN
        /\ interrupted' \in BOOLEAN /\ owed' \in BOOLEAN
    BY <1>a, <2>1, <2>2 DEF sigVars
  <2> QED BY <2>1, <2>2, <2>3, <2>4, JumpIsSafe
<1> QED BY <1>1, <1>2, <1>3, <1>4, <1>5, <1>6

\* A signal, delivered at any place.
LEMMA SignalIsSafe ==
  ASSUME Safe, Interrupt \/ SigInt \/ SigSegv
  PROVE  Safe'
<1>a. /\ SignalsTypeOK /\ BufferIsKnown /\ CallbackIsKept /\ SignalsAreUnblocked
     
      /\ pc \in Place /\ nest \in 0..MaxNest /\ blocked \in BOOLEAN /\ pending \in BOOLEAN
      /\ no_jump \in BOOLEAN /\ interrupted \in BOOLEAN /\ owed \in BOOLEAN
  BY Types DEF Safe
<1>1. ASSUME UNCHANGED <<pc, excVars, blocked>>, pending' \in BOOLEAN, no_jump' \in BOOLEAN,
             interrupted' \in BOOLEAN, owed' \in BOOLEAN
      PROVE  Safe'
  <2>1. /\ pc' = pc /\ nest' = nest /\ valid' = valid /\ buf' = buf /\ code' = code
        /\ then' = then /\ blocked' = blocked
    BY <1>1 DEF excVars
  <2>2. SignalsTypeOK'
    BY <1>1, <1>a, <2>1, Types, TypesAfter
  <2>3. BufferIsKnown' /\ CallbackIsKept' /\ SignalsAreUnblocked'
    BY <1>a, <2>1 DEF BufferIsKnown, CallbackIsKept, SignalsAreUnblocked, Alive
  <2> QED BY <2>2, <2>3 DEF Safe
<1>2. ASSUME NEW e \in {"USERINTERRUPT", "INVMEMADDR"}, JumpFromHandler(e), valid,
             pending' \in BOOLEAN, owed' \in BOOLEAN
      PROVE  Safe'
  <2>1. e \in Codes /\ e # "BYE"
    BY DEF Codes
  <2>2. Jump(e, TRUE) /\ blocked' = TRUE /\ no_jump' = no_jump /\ interrupted' = interrupted
    BY <1>2 DEF JumpFromHandler
  <2> QED BY <1>2, <1>a, <2>1, <2>2, JumpIsSafe
<1>3. CASE Interrupt
  BY <1>3, <1>1, <1>a DEF Interrupt
<1>4. CASE SigInt /\ no_jump
  BY <1>4, <1>1, <1>a DEF SigInt
<1>5. CASE SigInt /\ ~no_jump /\ valid
  <2>1. JumpFromHandler("USERINTERRUPT") /\ pending' = FALSE /\ owed' = TRUE
    BY <1>5 DEF SigInt
  <2> QED BY <1>2, <1>5, <2>1
<1>6. CASE SigInt /\ ~no_jump /\ ~valid
  <2>1. /\ pc' = "exit" /\ pending' = FALSE /\ ~blocked
        /\ nest' = nest /\ valid' = valid /\ buf' = buf /\ code' = code /\ then' = then
        /\ blocked' = blocked /\ no_jump' = no_jump /\ interrupted' = interrupted /\ owed' = owed
    BY <1>6 DEF SigInt, excVars
  <2>2. pc' \in Place
    BY <2>1 DEF Place
  <2>3. SignalsTypeOK'
    BY <1>a, <2>1, <2>2, Types, TypesAfter
  <2>4. BufferIsKnown'
    BY <2>1 DEF BufferIsKnown, InXt, Libedit
  <2>5. CallbackIsKept' /\ SignalsAreUnblocked'
    BY <1>a, <2>1 DEF CallbackIsKept, SignalsAreUnblocked, Alive
  <2> QED BY <2>3, <2>4, <2>5 DEF Safe
<1>7. CASE SigSegv
  <2>1. pc = "xt" /\ JumpFromHandler("INVMEMADDR") /\ UNCHANGED <<pending, owed>>
    BY <1>7 DEF SigSegv
  <2>2. valid
    BY <1>a, <2>1 DEF BufferIsKnown, InXt
  <2> QED BY <1>2, <1>a, <2>1, <2>2
<1>8. valid \in BOOLEAN
  BY <1>a, Types
<1> QED BY <1>3, <1>4, <1>5, <1>6, <1>7

\* Every step.
LEMMA NextIsSafe == ASSUME Safe, [Next]_vars PROVE Safe'
<1>1. CASE UNCHANGED vars
  <2>1. /\ pc' = pc /\ nest' = nest /\ valid' = valid /\ buf' = buf /\ code' = code
        /\ then' = then /\ blocked' = blocked /\ pending' = pending /\ no_jump' = no_jump
        /\ interrupted' = interrupted /\ owed' = owed
    BY <1>1 DEF vars, excVars, sigVars
  <2>2. SignalsTypeOK'
    BY <2>1, Types, TypesAfter DEF Safe
  <2>3. BufferIsKnown' /\ CallbackIsKept' /\ SignalsAreUnblocked'
    BY <2>1 DEF BufferIsKnown, CallbackIsKept, SignalsAreUnblocked, Alive, Safe
  <2> QED BY <2>2, <2>3 DEF Safe
<1>2. CASE Program
  BY <1>2, CatchIsSafe, ConsoleIsSafe DEF Program
<1>3. CASE Interrupt \/ SigInt \/ SigSegv
  BY <1>3, SignalIsSafe
<1> QED BY <1>1, <1>2, <1>3 DEF Next

\* The buffer is that of the innermost handler, outside the window.
LEMMA InnermostIsKnown == ASSUME Safe PROVE BufferIsInnermost
<1>a. BufferIsKnown /\ pc \in Place /\ nest \in 0..MaxNest
  BY Types DEF Safe
<1> SUFFICES ASSUME valid, Alive, ~Window PROVE buf = Innermost /\ Innermost \in 1..nest
  BY DEF BufferIsInnermost
<1>1. pc \in InXt \cup {"setjmp", "landed", "callback", "fired"}
  BY <1>a DEF Alive, Window, Place, InCatch, InXt, BufferIsKnown
<1>2. CASE pc \in InXt \cup {"landed"}
  BY <1>2, <1>a DEF BufferIsKnown, Innermost, InXt, Libedit
<1>3. CASE pc = "setjmp"
  BY <1>3, <1>a DEF BufferIsKnown, Innermost, Window
<1>4. CASE pc \in {"callback", "fired"}
  BY <1>4, <1>a DEF BufferIsKnown, Innermost
<1> QED BY <1>1, <1>2, <1>3, <1>4

\* A step into the undefined state is taken from the window.
LEMMA LostInTheWindow ==
  ASSUME Safe, [Next]_vars, pc' = "undefined"
  PROVE  Window \/ pc = "undefined"
<1>a. BufferIsKnown /\ BufferIsInnermost /\ nest \in 0..MaxNest
  BY InnermostIsKnown, Types DEF Safe
<1> SUFFICES ASSUME pc # "undefined" PROVE Window
  OBVIOUS
<1>1. ASSUME NEW e, NEW callback, Jump(e, callback), valid, Alive PROVE Window
  <2>1. buf \notin 1..nest
    BY <1>1 DEF Jump
  <2> QED BY <1>1, <1>a, <2>1 DEF BufferIsInnermost
<1>2. pc \in InXt => valid /\ Alive
  BY <1>a DEF BufferIsKnown, InXt, Libedit, Alive
<1>3. ~UNCHANGED vars
  BY DEF vars
<1>4. ~(BeginCatch \/ SetjmpWrites \/ SetjmpReturns \/ XtReturns \/ LeaveFirst)
  BY DEF BeginCatch, SetjmpWrites, SetjmpReturns, XtReturns, LeaveFirst, Goto
<1>5. ~(LeaveNested \/ LandFirst \/ LandNested \/ Callback \/ CatchReturns)
  BY DEF LeaveNested, LandFirst, LandNested, Callback, CatchReturns, Goto
<1>6. ~(AcceptBegins \/ KeyBegins \/ LibeditReturns \/ CheckSucceeds \/ SaveLine \/ Keyq)
  BY DEF AcceptBegins, KeyBegins, LibeditReturns, CheckSucceeds, SaveLine, Keyq, Goto
<1>7. CASE CheckFails \/ SaveFails
  <2>1. PICK e \in {"USERINTERRUPT", "FAILURE", "BYE"} :
          pc \in {"check", "saved"} /\ Jump(e, FALSE)
    BY <1>7 DEF CheckFails, SaveFails, Throw
  <2>2. pc \in InXt
    BY <2>1 DEF InXt
  <2> QED BY <2>1, <2>2, <1>1, <1>2
<1>8. ~Interrupt
  BY DEF Interrupt
<1>9. CASE SigInt
  <2>1. valid /\ Alive /\ JumpFromHandler("USERINTERRUPT")
    BY <1>9 DEF SigInt
  <2> QED BY <2>1, <1>1 DEF JumpFromHandler
<1>10. CASE SigSegv
  <2>1. pc \in InXt /\ JumpFromHandler("INVMEMADDR")
    BY <1>10 DEF SigSegv, InXt
  <2> QED BY <2>1, <1>1, <1>2 DEF JumpFromHandler
<1> QED BY <1>3, <1>4, <1>5, <1>6, <1>7, <1>8, <1>9, <1>10 DEF Next, Program

\* The invariant holds from the start on.
LEMMA SpecIsSafe == Spec => []Safe
<1>1. Safe /\ [Next]_vars => Safe'
  BY NextIsSafe
<1> QED BY InitIsSafe, <1>1, PTL DEF Spec

(* With signals at every statement, the set-up and the removal of handlers *)
(* included: wherever the signal handler or a word may jump, the buffer is *)
(* that of the innermost handler, except in the window; so a longjmp whose *)
(* target is not live is one from the window.                              *)
THEOREM JumpsStayDefined ==
  Spec => []SignalsInv /\ [][pc' = "undefined" => Window \/ pc = "undefined"]_vars
<1>1. Safe => SignalsInv
  BY InnermostIsKnown DEF Safe, SignalsInv
<1>2. Safe /\ [Next]_vars => [pc' = "undefined" => Window \/ pc = "undefined"]_vars
  BY LostInTheWindow
<1> QED BY <1>1, <1>2, SpecIsSafe, PTL DEF Spec

(* The mask that repl_sighandler's jump leaves behind is undone by the     *)
(* then-callback before any handler returns, wherever signals arrive.      *)
THEOREM SignalsComeThrough == Spec => []SignalsAreUnblocked
<1>1. Safe => SignalsAreUnblocked
  BY DEF Safe
<1> QED BY <1>1, SpecIsSafe, PTL

-----------------------------------------------------------------------------
\* The guards of libedit, which need nothing of e4__exception_catch.
LEMMA InputStaysGuarded == ASSUME InputIsGuarded, [Next]_vars PROVE InputIsGuarded'
<1> USE DEF InputIsGuarded
<1>1. CASE UNCHANGED vars
  BY <1>1 DEF vars, sigVars
<1>2. CASE BeginCatch \/ SetjmpWrites \/ SetjmpReturns \/ XtReturns \/ LeaveFirst
  BY <1>2 DEF BeginCatch, SetjmpWrites, SetjmpReturns, XtReturns, LeaveFirst, Goto
<1>3. CASE LeaveNested \/ LandFirst \/ LandNested
  BY <1>3 DEF LeaveNested, LandFirst, LandNested, Goto
<1>4. CASE Callback \/ CatchReturns
  BY <1>4 DEF Callback, CatchReturns, Goto
<1>5. CASE AcceptBegins
  BY <1>5 DEF AcceptBegins, Goto
<1>6. CASE KeyBegins
  BY <1>6 DEF KeyBegins, Goto
<1>7. CASE LibeditReturns
  BY <1>7 DEF LibeditReturns, Goto
<1>8. CASE CheckFails \/ SaveFails
  BY <1>8 DEF CheckFails, SaveFails, Throw, Jump
<1>9. CASE CheckSucceeds \/ Keyq
  BY <1>9 DEF CheckSucceeds, Keyq, Goto
<1>10. CASE SaveLine
  BY <1>10 DEF SaveLine, Goto
<1>11. CASE Interrupt
  BY <1>11 DEF Interrupt
<1>12. CASE SigInt
  <2>1. CASE no_jump
    BY <1>12, <2>1 DEF SigInt
  <2>2. CASE ~no_jump
    BY <1>12, <2>2 DEF SigInt, JumpFromHandler, Jump
  <2> QED BY <2>1, <2>2
<1>13. CASE SigSegv
  BY <1>13 DEF SigSegv, JumpFromHandler, Jump
<1> QED BY <1>1, <1>2, <1>3, <1>4, <1>5, <1>6, <1>7, <1>8, <1>9, <1>10, <1>11, <1>12, <1>13
       DEF Next, Program

\* No step out of reading or saving a line or a key is a jump.
LEMMA NoJumpThere ==
  ASSUME InputIsGuarded, [Next]_vars, pc \in {"gets", "getc", "history"}
  PROVE  pc' # "landed"
<1> USE DEF InputIsGuarded
<1>1. CASE UNCHANGED vars
  BY <1>1 DEF vars
<1>2. CASE BeginCatch \/ SetjmpWrites \/ SetjmpReturns \/ XtReturns \/ LeaveFirst
  BY <1>2 DEF BeginCatch, SetjmpWrites, SetjmpReturns, XtReturns, LeaveFirst, Goto
<1>3. CASE LeaveNested \/ LandFirst \/ LandNested \/ Callback \/ CatchReturns
  BY <1>3 DEF LeaveNested, LandFirst, LandNested, Callback, CatchReturns, Goto
<1>4. CASE AcceptBegins \/ KeyBegins \/ LibeditReturns \/ Keyq
  BY <1>4 DEF AcceptBegins, KeyBegins, LibeditReturns, Keyq, Goto
<1>5. CASE CheckFails \/ SaveFails \/ CheckSucceeds \/ SaveLine
  BY <1>5 DEF CheckFails, SaveFails, CheckSucceeds, SaveLine, Goto
<1>6. CASE Interrupt \/ SigInt \/ SigSegv
  BY <1>6 DEF Interrupt, SigInt, SigSegv
<1> QED BY <1>1, <1>2, <1>3, <1>4, <1>5, <1>6 DEF Next, Program

(* The handler never jumps out of el_gets, el_getc or the saving of        *)
(* history, wherever signals arrive: the flag is set, or the signals are   *)
(* blocked, for as long as libedit runs there.                             *)
THEOREM InputIsNotLeft == Spec => NoJumpOutOfInput
<1>1. Init => InputIsGuarded
  BY DEF Init, InputIsGuarded
<1>2. InputIsGuarded /\ [Next]_vars => InputIsGuarded'
  BY InputStaysGuarded
<1>3. InputIsGuarded /\ [Next]_vars =>
        [(pc \in Libedit \ {"raw", "cook"}) => pc' # "landed"]_vars
  BY NoJumpThere DEF Libedit
<1> QED BY <1>1, <1>2, <1>3, PTL DEF Spec, NoJumpOutOfInput

-----------------------------------------------------------------------------
(* Tab completion: what is suggested is a word, and what is shown is what *)
(* was suggested.                                                         *)

\* The headers of the dictionary.
Word == [name : Names \cup Range(Builtins), compiling : BOOLEAN]

\* The inductive invariant: only the newest word is being compiled, and no builtin
\* word is forgotten.
Completed ==
  /\ CompletionTypeOK /\ SuggestionIsShown
  /\ sug_prefix \in Seq(Characters)
  /\ Len(dict) >= Len(Builtins)
  /\ \A i \in DOMAIN dict : dict[i].compiling => i = Len(dict)

\* A set of places has a highest one.
LEMMA LastOfSome ==
  ASSUME NEW m \in Nat, NEW S, S \subseteq 1..m, S # {}
  PROVE  \E i \in S : \A j \in S : j <= i
<1> DEFINE D == {m - i : i \in S}
           less == OpToRel(<, Nat)
<1>1. IsWellFoundedOn(less, Nat)
  BY NatLessThanWellFounded
<1>2. \A i, j \in Nat : i < j => <<i, j>> \in less
  BY DEF OpToRel
<1> HIDE DEF less
<1>3. D \subseteq Nat /\ D # {}
  <2>1. \A i \in S : m - i \in Nat
    OBVIOUS
  <2> QED BY <2>1
<1>4. PICK least \in D : \A e \in D : ~(<<e, least>> \in less)
  BY <1>1, <1>3, WFMin
<1>5. PICK i \in S : least = m - i
  OBVIOUS
<1>6. ASSUME NEW j \in S PROVE j <= i
  <2>1. m - j \in D /\ m - j \in Nat /\ m - i \in Nat /\ i \in Nat /\ j \in Nat
    BY <1>3, <1>5
  <2>2. ~(m - j < m - i)
    BY <2>1, <1>2, <1>4, <1>5
  <2> QED BY <2>1, <2>2
<1> QED BY <1>6

\* The search ends at a word that begins as typed, or at none.
LEMMA SuggestedFits ==
  ASSUME NEW from \in Nat, NEW prefix, mem_dict_suggest(from, prefix) # NULL
  PROVE  /\ mem_dict_suggest(from, prefix) \in 1..from
         /\ Begins(dict[mem_dict_suggest(from, prefix)].name, prefix)
<1> DEFINE fit == {i \in 1..from : Begins(dict[i].name, prefix)}
<1>1. fit # {} /\ mem_dict_suggest(from, prefix) = CHOOSE i \in fit : \A j \in fit : j <= i
  BY DEF mem_dict_suggest
<1>2. \E i \in fit : \A j \in fit : j <= i
  <2>1. fit \subseteq 1..from
    OBVIOUS
  <2> HIDE DEF fit
  <2> QED BY <2>1, <1>1, LastOfSome
<1>3. mem_dict_suggest(from, prefix) \in fit
  BY <1>1, <1>2
<1> QED BY <1>3

\* The places above one of a line.
LEMMA PlacesAbove ==
  \A e \in Nat : \A i \in 1..e : i \in 0..e /\ \A j \in (i + 1)..e : j \in 1..e /\ ~(j <= i)
OBVIOUS

\* The word before the cursor begins somewhere on the line.
LEMMA WordBegins ==
  ASSUME left \in Seq(Characters), sug # NULL => Len(left) > 0
  PROVE  WordStart \in 0..Len(left)
<1> DEFINE end == IF sug # NULL THEN Len(left) - 1 ELSE Len(left)
           spaces == {i \in 1..end : left[i] = " "}
           first(i) == (i > 0 => left[i] = " ") /\ \A j \in (i + 1)..end : left[j] # " "
<1>1. Len(left) \in Nat
  OBVIOUS
<1>2. end \in 0..Len(left) /\ end \in Nat
  BY <1>1
<1>3. WordStart = CHOOSE i \in 0..end : first(i)
  BY DEF WordStart
<1> HIDE DEF end
<1>4. \E i \in 0..end : first(i)
  <2>1. CASE spaces = {}
    <3>1. 0 \in 0..end /\ ~(0 > 0) /\ (0 + 1)..end = 1..end
      BY <1>2
    <3>2. \A j \in 1..end : left[j] # " "
      BY <2>1
    <3>3. first(0)
      BY <3>1, <3>2
    <3> HIDE DEF first
    <3> QED BY <3>1, <3>3
  <2>2. CASE spaces # {}
    <3>1. PICK i \in spaces : \A j \in spaces : j <= i
      <4>1. spaces \subseteq 1..end
        OBVIOUS
      <4> HIDE DEF spaces
      <4> QED BY <4>1, <2>2, <1>2, LastOfSome
    <3>2. i \in 1..end /\ left[i] = " "
      BY <3>1
    <3>3. i \in 0..end /\ \A j \in (i + 1)..end : j \in 1..end /\ ~(j <= i)
      BY ONLY <3>2, <1>2, PlacesAbove
    <3>4. \A j \in (i + 1)..end : left[j] # " "
      BY <3>1, <3>3
    <3>5. first(i)
      BY <3>2, <3>4
    <3> HIDE DEF first
    <3> QED BY <3>3, <3>5
  <2> QED BY <2>1, <2>2
<1> HIDE DEF first
<1>5. WordStart \in 0..end
  BY <1>3, <1>4
<1> QED BY <1>1, <1>2, <1>5

\* What is put at the end of a line ends it.
LEMMA SuffixOf ==
  ASSUME NEW p \in Seq(Characters), NEW t \in Seq(Characters)
  PROVE  IsSuffix(t, p \o t)
<1> DEFINE u == p \o t
           b == Reverse(t)
           c == Reverse(u)
           m == Len(t)
<1>1. m \in Nat /\ Len(p) \in Nat /\ u \in Seq(Characters) /\ Len(u) = Len(p) + m
      /\ \A i \in 1..m : u[Len(p) + i] = t[i]
  OBVIOUS
<1> HIDE DEF u
<1>2. b \in Seq(Characters) /\ Len(b) = m /\ \A i \in 1..m : b[i] = t[(m - i) + 1]
  BY <1>1 DEF Reverse
<1>3. c \in Seq(Characters) /\ Len(c) = Len(p) + m /\ \A i \in 1..(Len(p) + m) : c[i] = u[(Len(u) - i) + 1]
  <2>1. \A i \in 1..Len(u) : (Len(u) - i) + 1 \in 1..Len(u)
    BY <1>1
  <2> QED BY <2>1, <1>1 DEF Reverse
<1>4. \A i \in 1..m : c[i] = b[i]
  <2> TAKE i \in 1..m
  <2>1. i \in 1..(Len(p) + m) /\ (m - i) + 1 \in 1..m /\ (Len(u) - i) + 1 = Len(p) + ((m - i) + 1)
    BY <1>1
  <2>2. u[(Len(u) - i) + 1] = t[(m - i) + 1]
    BY <2>1, <1>1
  <2> QED BY <2>1, <2>2, <1>2, <1>3
<1> HIDE DEF b, c
<1>5. 1 \in Int /\ m \in Int /\ 1 <= m + 1 /\ m <= Len(b) /\ m <= Len(c)
      /\ (\A i \in 1..m : b[i] \in Characters) /\ (\A i \in 1..m : c[i] \in Characters)
  BY <1>1, <1>2, <1>3
<1>6. /\ SubSeq(b, 1, m) \in Seq(Characters) /\ SubSeq(c, 1, m) \in Seq(Characters)
      /\ Len(SubSeq(b, 1, m)) = m /\ Len(SubSeq(c, 1, m)) = m
      /\ \A i \in 1..m : SubSeq(b, 1, m)[i] = b[i] /\ SubSeq(c, 1, m)[i] = c[i]
  <2>1. SubSeq(b, 1, m) \in Seq(Characters) /\ SubSeq(c, 1, m) \in Seq(Characters)
    BY <1>5, SubSeqProperties
  <2>2. Len(SubSeq(b, 1, m)) = m /\ Len(SubSeq(c, 1, m)) = m
    <3>1. m - 1 + 1 = m
      BY <1>1
    <3> QED BY <3>1, <1>1, <1>5, SubSeqProperties
  <2>3. \A i \in 1..m : SubSeq(b, 1, m)[i] = b[i] /\ SubSeq(c, 1, m)[i] = c[i]
    <3>1. \A i \in 1..m : 1 + i - 1 = i
      BY <1>1
    <3>2. m - 1 + 1 = m
      BY <1>1
    <3> QED BY <3>1, <3>2, <1>1, <1>5, SubSeqProperties
  <2> QED BY <2>1, <2>2, <2>3
<1>7. SubSeq(b, 1, m) = SubSeq(c, 1, m)
  BY <1>4, <1>6, SeqEqual
<1>8. IsPrefix(b, c)
  BY <1>1, <1>2, <1>3, <1>7 DEF IsPrefix
<1> QED BY <1>8 DEF IsSuffix, u, b, c

\* A line does not become empty while a suggestion is shown.
LEMMA SuffixIsThere ==
  ASSUME NEW t \in Seq(Characters), NEW x, x \in Characters, NEW u \in Seq(Characters), IsSuffix(Append(t, x), u)
  PROVE  Len(u) > 0
<1>1. Len(Reverse(Append(t, x))) = Len(t) + 1 /\ Len(Reverse(u)) = Len(u) /\ Len(t) \in Nat /\ Len(u) \in Nat
  BY DEF Reverse
<1>2. Len(Reverse(Append(t, x))) <= Len(Reverse(u))
  BY DEF IsSuffix, IsPrefix
<1> QED BY <1>1, <1>2

\* A text of some characters is one of more characters.
LEMMA TextOfMore ==
  ASSUME NEW A, NEW B, A \subseteq B, NEW t \in Seq(A)
  PROVE  t \in Seq(B)
<1>1. Len(t) \in Nat /\ t \in [1..Len(t) -> A]
  OBVIOUS
<1>2. t \in [1..Len(t) -> B]
  BY <1>1
<1> QED BY <1>1, <1>2

\* A text with a character put at its end is a text.
LEMMA LongerText ==
  ASSUME NEW A, NEW t \in Seq(A), NEW x \in A
  PROVE  Append(t, x) \in Seq(A)
OBVIOUS

\* Names are texts of the characters of lines.
LEMMA NamesAreTexts ==
  /\ Names \cup Range(Builtins) \subseteq Seq(Characters)
  /\ Len(Builtins) \in Nat /\ Len(Builtins) > 0 /\ DOMAIN Builtins = 1..Len(Builtins)
<1> DEFINE A == Characters \ {" "}
<1>a. A \subseteq Characters
  OBVIOUS
<1>b. Builtins \in Seq(Seq(A)) /\ Builtins # <<>> /\ Names \subseteq Seq(A)
  BY CompletionAssumption
<1> HIDE DEF A
<1>1. ASSUME NEW t \in Seq(A) PROVE t \in Seq(Characters)
  BY <1>a, TextOfMore
<1>2. \A i \in DOMAIN Builtins : Builtins[i] \in Seq(A)
  BY <1>b
<1>3. Range(Builtins) \subseteq Seq(Characters)
  BY <1>1, <1>2 DEF Range
<1>4. Names \subseteq Seq(Characters)
  BY <1>1, <1>b
<1>5. Len(Builtins) \in Nat /\ Len(Builtins) > 0 /\ DOMAIN Builtins = 1..Len(Builtins)
  BY ONLY <1>b
<1> QED BY <1>3, <1>4, <1>5

\* What holds before every key and every word.
LEMMA Context ==
  ASSUME Completed
  PROVE  /\ dict \in Seq(Word) /\ Len(dict) \in Nat /\ Len(dict) \in 1..Len(dict) /\ DOMAIN dict = 1..Len(dict)
         /\ left \in Seq(Characters) /\ right \in Seq(Characters) /\ sug_prefix \in Seq(Characters)
         /\ Len(left) \in Nat /\ LongestPrefix \in Nat /\ sug \in Nat /\ editing \in BOOLEAN
         /\ Len(sug_prefix) <= LongestPrefix
         /\ \A i \in DOMAIN dict : dict[i].name \in Seq(Characters) /\ dict[i].compiling \in BOOLEAN
<1>1. dict \in Seq(Word) /\ Len(dict) >= Len(Builtins)
  BY DEF Completed, CompletionTypeOK, Word
<1>2. Len(Builtins) \in Nat
  BY NamesAreTexts
<1>3. Len(dict) \in Nat /\ Len(dict) \in 1..Len(dict) /\ DOMAIN dict = 1..Len(dict)
  BY <1>1, <1>2, NamesAreTexts
<1>4. \A i \in DOMAIN dict : dict[i] \in Word
  BY <1>1
<1>5. \A i \in DOMAIN dict : dict[i].name \in Seq(Characters) /\ dict[i].compiling \in BOOLEAN
  BY <1>4, NamesAreTexts DEF Word
<1>6. /\ left \in Seq(Characters) /\ right \in Seq(Characters) /\ sug_prefix \in Seq(Characters)
      /\ LongestPrefix \in Nat /\ sug \in Nat /\ editing \in BOOLEAN /\ Len(sug_prefix) <= LongestPrefix
  BY CompletionAssumption DEF Completed, CompletionTypeOK
<1> QED BY <1>1, <1>3, <1>5, <1>6

\* A key that changes the line and takes what is shown.
LEMMA TakenKeeps ==
  ASSUME Completed, sug' = NULL \/ editing' = FALSE, editing' \in BOOLEAN, sug' \in Nat,
         left' \in Seq(Characters), right' \in Seq(Characters), UNCHANGED <<dict, sug_prefix>>
  PROVE  Completed'
<1>1. CompletionTypeOK'
  BY DEF Completed, CompletionTypeOK
<1>2. SuggestionIsShown'
  BY DEF SuggestionIsShown
<1> QED BY <1>1, <1>2 DEF Completed

\* A key that types a character or moves the cursor keeps the line a text, and takes
\* the suggestion out of use.
LEMMA TypingKeeps == Completed /\ (Type \/ CursorLeft \/ CursorRight) => Completed'
<1> SUFFICES ASSUME Completed, Type \/ CursorLeft \/ CursorRight PROVE Completed'
  OBVIOUS
<1>1. left \in Seq(Characters) /\ right \in Seq(Characters) /\ editing \in BOOLEAN
  BY Context
<1>2. sug' = NULL /\ sug' \in Nat /\ editing' = editing /\ UNCHANGED <<dict, sug_prefix>>
  BY DEF Type, CursorLeft, CursorRight, wgetc, NULL
<1>3. left' \in Seq(Characters) /\ right' \in Seq(Characters)
  <2>1. CASE Type
    <3>1. PICK x \in Typed : left' = Append(left, x) /\ right' = right
      BY <2>1 DEF Type
    <3>2. x \in Characters
      BY <3>1, CompletionAssumption
    <3> QED BY <3>1, <3>2, <1>1
  <2>2. CASE CursorLeft
    <3>1. left # <<>> /\ left' = SubSeq(left, 1, Len(left) - 1) /\ right' = <<left[Len(left)]>> \o right
      BY <2>2 DEF CursorLeft, Front
    <3>2. Len(left) \in 1..Len(left) /\ Len(left) - 1 \in Int /\ \A i \in 1..(Len(left) - 1) : left[i] \in Characters
      BY <3>1, <1>1
    <3>3. left[Len(left)] \in Characters
      BY <3>2, <1>1
    <3>4. SubSeq(left, 1, Len(left) - 1) \in Seq(Characters)
      BY <3>2, SubSeqProperties
    <3> QED BY <3>1, <3>3, <3>4, <1>1
  <2>3. CASE CursorRight
    <3>1. right # <<>> /\ left' = Append(left, Head(right)) /\ right' = Tail(right)
      BY <2>3 DEF CursorRight
    <3> QED BY <3>1, <1>1
  <2> QED BY <2>1, <2>2, <2>3
<1> QED BY <1>1, <1>2, <1>3, TakenKeeps

\* A line that is entered or interrupted, and the next one, leave no suggestion shown.
LEMMA LeavingKeeps == Completed /\ (Enter \/ Interrupted \/ Accept \/ Key) => Completed'
<1> SUFFICES ASSUME Completed, Enter \/ Interrupted \/ Accept \/ Key PROVE Completed'
  OBVIOUS
<1>1. left \in Seq(Characters) /\ right \in Seq(Characters) /\ editing \in BOOLEAN /\ sug \in Nat
  BY Context
<1>2. (sug' = NULL \/ editing' = FALSE) /\ UNCHANGED <<dict, sug_prefix>>
  BY Zenon DEF Enter, Interrupted, Leave, Accept, Key, wgetc
<1>3. editing' \in {editing, TRUE, FALSE} /\ sug' \in {NULL, sug}
      /\ left' \in {left, <<>>} /\ right' \in {right, <<>>}
  <2>1. CASE Enter \/ Interrupted
    BY <2>1 DEF Enter, Interrupted, Leave, wgetc
  <2>2. CASE Accept
    BY <2>2 DEF Accept
  <2>3. CASE Key
    BY <2>3 DEF Key, wgetc
  <2> QED BY <2>1, <2>2, <2>3
<1>4. editing' \in BOOLEAN
  BY <1>1, <1>3
<1>5. sug' \in Nat
  BY <1>1, <1>3 DEF NULL
<1>6. left' \in Seq(Characters)
  <2>1. <<>> \in Seq(Characters)
    OBVIOUS
  <2> QED BY <2>1, <1>1, <1>3, Zenon
<1>7. right' \in Seq(Characters)
  <2>1. <<>> \in Seq(Characters)
    OBVIOUS
  <2> QED BY <2>1, <1>1, <1>3, Zenon
<1> QED BY <1>2, <1>4, <1>5, <1>6, <1>7, TakenKeeps

\* A dictionary that is changed between two lines.
LEMMA WordsKeep ==
  ASSUME Completed, NEW chain \in Seq(Word), Words(chain), Len(chain) >= Len(Builtins),
         \A i \in DOMAIN chain : chain[i].compiling => i = Len(chain)
  PROVE  Completed'
<1>1. ~editing /\ dict' = chain /\ UNCHANGED <<editing, left, right, sug, sug_prefix>>
  BY DEF Words
<1>2. CompletionTypeOK'
  BY <1>1 DEF Completed, CompletionTypeOK, Word
<1>3. SuggestionIsShown'
  BY <1>1 DEF SuggestionIsShown
<1> QED BY <1>1, <1>2, <1>3 DEF Completed

\* Words are defined, finished and forgotten only between two lines: a builtin word
\* stays, and only the newest one is being compiled.
LEMMA DictionaryKeeps == Completed /\ (Define \/ Finish \/ Forget) => Completed'
<1> SUFFICES ASSUME Completed, Define \/ Finish \/ Forget PROVE Completed'
  OBVIOUS
<1>1. /\ dict \in Seq(Word) /\ Len(dict) \in Nat /\ Len(dict) \in 1..Len(dict) /\ DOMAIN dict = 1..Len(dict)
      /\ \A i \in DOMAIN dict : dict[i].compiling \in BOOLEAN /\ dict[i] \in Word
  BY Context
<1>2. /\ Len(dict) >= Len(Builtins) /\ Len(Builtins) \in Nat
      /\ \A i \in DOMAIN dict : dict[i].compiling => i = Len(dict)
  BY NamesAreTexts DEF Completed
<1>3. CASE Define
  <2>1. PICK name \in Names, compiling \in BOOLEAN :
          ~dict[Len(dict)].compiling /\ Words(Append(dict, Header(name, compiling)))
    BY <1>3 DEF Define, Compiling
  <2> DEFINE x == Header(name, compiling)
             chain == Append(dict, x)
  <2>2. x \in Word
    BY DEF Header, Word
  <2> HIDE DEF x
  <2>3. /\ chain \in Seq(Word) /\ Len(chain) = Len(dict) + 1
        /\ \A i \in 1..Len(dict) : chain[i] = dict[i]
    BY <2>2, <1>1
  <2> HIDE DEF chain
  <2>4. ASSUME NEW i \in DOMAIN chain, chain[i].compiling PROVE i = Len(chain)
    <3>1. CASE i \in 1..Len(dict)
      <4>1. i = Len(dict)
        BY <2>3, <2>4, <3>1, <1>1, <1>2
      <4> QED BY <2>1, <2>3, <2>4, <3>1, <4>1
    <3>2. CASE i \notin 1..Len(dict)
      BY <2>3, <3>2, <1>1
    <3> QED BY <3>1, <3>2
  <2>5. Len(chain) >= Len(Builtins)
    BY <2>3, <1>1, <1>2
  <2> QED BY <2>1, <2>3, <2>4, <2>5, WordsKeep DEF chain, x
<1>4. CASE Finish
  <2> DEFINE chain == [dict EXCEPT ![Len(dict)].compiling = FALSE]
  <2>1. Words(chain)
    BY <1>4 DEF Finish
  <2>2. [dict[Len(dict)] EXCEPT !.compiling = FALSE] \in Word
    BY <1>1 DEF Word
  <2>3. /\ chain \in Seq(Word) /\ Len(chain) = Len(dict)
        /\ \A i \in 1..Len(dict) : i # Len(dict) => chain[i] = dict[i]
    BY <2>2, <1>1
  <2> HIDE DEF chain
  <2>4. ASSUME NEW i \in DOMAIN chain, chain[i].compiling PROVE i = Len(chain)
    BY <2>3, <2>4, <1>1, <1>2
  <2>5. Len(chain) >= Len(Builtins)
    BY <2>3, <1>2
  <2> QED BY <2>1, <2>3, <2>4, <2>5, WordsKeep
<1>5. CASE Forget
  <2>1. PICK i \in (Len(Builtins) + 1)..Len(dict) : Words(SubSeq(dict, 1, i - 1))
    BY <1>5 DEF Forget
  <2>2. PICK m \in Nat : m = i - 1
    BY <1>1, <1>2
  <2> DEFINE chain == SubSeq(dict, 1, m)
  <2>3. m < Len(dict) /\ m >= Len(Builtins) /\ m - 1 + 1 = m /\ \A j \in 1..m : j \in 1..Len(dict) /\ 1 + j - 1 = j
    BY <2>2, <1>1, <1>2
  <2>4. \A j \in 1..m : dict[j] \in Word
    BY <2>3, <1>1
  <2>5. chain \in Seq(Word) /\ Len(chain) = m
    <3>1. 1 <= m \/ m = 0
      BY <2>2
    <3> QED BY <3>1, <2>3, <2>4, SubSeqProperties
  <2>6. \A j \in 1..m : chain[j] = dict[j]
    BY <2>3, <2>4, SubSeqProperties
  <2> HIDE DEF chain
  <2>7. ASSUME NEW j \in DOMAIN chain, chain[j].compiling PROVE j = Len(chain)
    <3>1. j \in 1..m
      BY <2>5
    <3>2. dict[j].compiling /\ j \in DOMAIN dict
      BY <3>1, <2>3, <2>6, <2>7, <1>1
    <3>3. j = Len(dict)
      BY <3>2, <1>2
    <3> QED BY <3>1, <3>3, <2>3, <1>1
  <2>8. Words(chain)
    BY <2>1, <2>2 DEF chain
  <2>9. Len(chain) >= Len(Builtins)
    BY <2>3, <2>5
  <2> QED BY <2>5, <2>7, <2>8, <2>9, WordsKeep
<1> QED BY <1>3, <1>4, <1>5

\* Tab puts a word that can be found before the cursor, or puts back what was typed.
LEMMA SuggestKeeps == Completed /\ Suggest => Completed'
<1> SUFFICES ASSUME Completed, Suggest PROVE Completed'
  OBVIOUS
<1> DEFINE i == WordStart
           kept == SubSeq(left, 1, i)
           text == IF sug' # NULL THEN Append(dict[sug'].name, " ") ELSE sug_prefix'
<1>1. /\ editing /\ ~(sug = NULL /\ TooLong(Len(left) - i))
      /\ sug_prefix' = IF sug = NULL THEN SubSeq(left, i + 1, Len(left)) ELSE sug_prefix
      /\ sug' = mem_dict_suggest(From, sug_prefix')
      /\ left' = kept \o text /\ UNCHANGED <<dict, editing, right>>
  BY DEF Suggest
<1>2. /\ dict \in Seq(Word) /\ Len(dict) \in Nat /\ Len(dict) \in 1..Len(dict) /\ DOMAIN dict = 1..Len(dict)
      /\ left \in Seq(Characters) /\ right \in Seq(Characters) /\ sug_prefix \in Seq(Characters)
      /\ Len(left) \in Nat /\ LongestPrefix \in Nat /\ sug \in Nat /\ Len(sug_prefix) <= LongestPrefix
      /\ \A k \in DOMAIN dict : dict[k].name \in Seq(Characters) /\ dict[k].compiling \in BOOLEAN
  BY Context
<1>3. " " \in Characters
  BY CompletionAssumption
<1>4. ASSUME sug # NULL PROVE Len(left) > 0 /\ sug \in 1..Len(dict)
  <2>1. sug \in DOMAIN dict /\ IsSuffix(Append(dict[sug].name, " "), left)
    BY <1>1, <1>4 DEF Completed, SuggestionIsShown
  <2>2. dict[sug].name \in Seq(Characters)
    BY <2>1, <1>2
  <2> QED BY <2>1, <2>2, <1>2, <1>3, SuffixIsThere
<1>5. i \in 0..Len(left)
  BY <1>2, <1>4, WordBegins
<1> HIDE DEF i
<1>6. sug_prefix' \in Seq(Characters) /\ Len(sug_prefix') <= LongestPrefix
  <2>1. CASE sug = NULL
    <3>1. sug_prefix' = SubSeq(left, i + 1, Len(left)) /\ ~(Len(left) - i > LongestPrefix)
      BY <1>1, <2>1 DEF TooLong
    <3>2. PICK a \in Int : a = i + 1
      BY <1>5
    <3>3. Len(left) \in Int /\ \A k \in a..Len(left) : left[k] \in Characters
      BY <3>2, <1>2, <1>5
    <3>4. /\ SubSeq(left, a, Len(left)) \in Seq(Characters)
          /\ Len(SubSeq(left, a, Len(left))) = IF a <= Len(left) THEN Len(left) - a + 1 ELSE 0
      BY <3>3, SubSeqProperties
    <3>5. Len(left) - a + 1 <= LongestPrefix /\ 0 <= LongestPrefix
      BY <3>1, <3>2, <1>2, <1>5
    <3> QED BY <3>1, <3>2, <3>4, <3>5
  <2>2. CASE sug # NULL
    BY <2>2, <1>1, <1>2
  <2> QED BY <2>1, <2>2
<1>7. From \in 0..Len(dict) /\ (dict[Len(dict)].compiling => From < Len(dict))
  <2>1. CASE sug # NULL
    <3>1. From = sug - 1 /\ sug \in 1..Len(dict)
      BY <2>1, <1>4 DEF From
    <3> QED BY <3>1, <1>2
  <2>2. CASE sug = NULL
    BY <2>2, <1>2 DEF From
  <2> QED BY <2>1, <2>2
<1>8. ASSUME sug' # NULL
      PROVE  /\ sug' \in DOMAIN dict /\ ~dict[sug'].compiling
             /\ Begins(dict[sug'].name, sug_prefix')
  <2>1. From \in Nat
    BY <1>2, <1>7
  <2>2. sug' \in 1..From /\ Begins(dict[sug'].name, sug_prefix')
    BY <2>1, <1>1, <1>8, SuggestedFits
  <2>3. sug' \in DOMAIN dict
    BY <2>2, <1>2, <1>7
  <2>4. dict[sug'].compiling => sug' = Len(dict)
    BY <2>3 DEF Completed
  <2> QED BY <2>1, <2>2, <2>3, <2>4, <1>2, <1>7
<1>9. sug' \in Nat
  BY <1>2, <1>8 DEF NULL
<1>10. kept \in Seq(Characters)
  <2>1. 1 \in Int /\ i \in Int /\ \A k \in 1..i : left[k] \in Characters
    BY <1>2, <1>5
  <2> QED BY <2>1, SubSeqProperties
<1>11. text \in Seq(Characters)
  <2>1. CASE sug' # NULL
    <3>1. dict[sug'].name \in Seq(Characters)
      BY <2>1, <1>2, <1>8
    <3>2. Append(dict[sug'].name, " ") \in Seq(Characters)
      BY <3>1, <1>3, LongerText
    <3> QED BY <2>1, <3>2
  <2>2. CASE sug' = NULL
    BY <2>2, <1>6
  <2> QED BY <2>1, <2>2
<1> HIDE DEF kept
<1>12. sug' # NULL => IsSuffix(Append(dict[sug'].name, " "), left')
  BY <1>1, <1>10, <1>11, SuffixOf
<1>13. left' \in Seq(Characters)
  <2> HIDE DEF text
  <2> QED BY <1>1, <1>10, <1>11
<1>14. CompletionTypeOK'
  BY <1>1, <1>6, <1>9, <1>13 DEF Completed, CompletionTypeOK
<1>15. SuggestionIsShown'
  <2>1. dict' = dict
    BY <1>1
  <2> QED BY <2>1, <1>8, <1>12 DEF SuggestionIsShown, Begins, Lower
<1> QED BY <1>1, <1>6, <1>14, <1>15 DEF Completed

\* The program starts with the builtin words and no line.
LEMMA InitIsCompleted == CompletionInit => Completed
<1> SUFFICES ASSUME CompletionInit PROVE Completed
  OBVIOUS
<1>1. /\ dict = [i \in DOMAIN Builtins |-> Header(Builtins[i], FALSE)]
      /\ editing = FALSE /\ left = <<>> /\ right = <<>> /\ sug = 0 /\ sug_prefix = <<>>
  BY DEF CompletionInit, NULL
<1>2. DOMAIN Builtins = 1..Len(Builtins) /\ Len(Builtins) \in Nat
  BY NamesAreTexts
<1>3. \A i \in DOMAIN Builtins : Header(Builtins[i], FALSE) \in Word /\ ~Header(Builtins[i], FALSE).compiling
  BY DEF Header, Word, Range
<1>4. dict \in Seq(Word) /\ Len(dict) = Len(Builtins) /\ \A i \in DOMAIN dict : ~dict[i].compiling
  <2> DEFINE m == Len(Builtins)
             header(i) == Header(Builtins[i], FALSE)
  <2>1. m \in Nat /\ dict = [i \in 1..m |-> header(i)] /\ \A i \in 1..m : header(i) \in Word /\ ~header(i).compiling
    BY <1>1, <1>2, <1>3
  <2> HIDE DEF m, header
  <2>2. dict \in Seq(Word) /\ Len(dict) = m /\ \A i \in DOMAIN dict : ~dict[i].compiling
    BY ONLY <2>1
  <2> QED BY <2>2 DEF m
<1>5. LongestPrefix \in Nat
  BY CompletionAssumption
<1>6. CompletionTypeOK
  <2>1. left \in Seq(Characters) /\ right \in Seq(Characters) /\ Len(sug_prefix) = 0
    BY <1>1
  <2>2. Len(sug_prefix) <= LongestPrefix
    BY <2>1, <1>5
  <2>3. sug \in Nat
    BY <1>1
  <2>4. editing \in BOOLEAN
    BY <1>1, Zenon
  <2> QED BY <2>1, <2>2, <2>3, <2>4, <1>4, Zenon DEF CompletionTypeOK, Word
<1>7. SuggestionIsShown
  BY <1>1 DEF SuggestionIsShown
<1>8. sug_prefix \in Seq(Characters)
  BY <1>1
<1>9. Len(dict) >= Len(Builtins)
  BY <1>2, <1>4
<1> QED BY <1>4, <1>6, <1>7, <1>8, <1>9 DEF Completed

\* While a line is edited, the header that rd->sug points to is a word of the
\* dictionary that can be found, it begins as typed, and its name stands before the
\* cursor; what was typed fits in rd->sug_prefix.  For every dictionary, every line and
\* every length of the prefix.
THEOREM SuggestionsAreWords == CompletionSpec => []CompletionInv
<1>1. CompletionInit => Completed
  BY InitIsCompleted
<1>2. Completed /\ [CompletionNext]_completionVars => Completed'
  <2> SUFFICES ASSUME Completed, [CompletionNext]_completionVars PROVE Completed'
    OBVIOUS
  <2>1. CASE UNCHANGED completionVars
    <3>1. UNCHANGED <<dict, editing, left, right, sug, sug_prefix>>
      BY <2>1 DEF completionVars
    <3> QED BY <3>1 DEF Completed, CompletionTypeOK, SuggestionIsShown, Begins, Lower
  <2> QED BY <2>1, SuggestKeeps, TypingKeeps, LeavingKeeps, DictionaryKeeps DEF CompletionNext
<1>3. Completed => CompletionInv
  BY DEF Completed, CompletionInv
<1> QED BY <1>1, <1>2, <1>3, PTL DEF CompletionSpec
=============================================================================
