------------------------------ MODULE Threads -------------------------------
(***************************************************************************)
(* The inner interpreter of a task (core/src/kernel/execute.c) and the     *)
(* words that move its return stack: how compiled definitions call each    *)
(* other, return, are unwound and are thrown out of.                       *)
(*                                                                         *)
(* The return stack `rs' holds, above each other, the return address and   *)
(* the saved thread root of every active definition and the items programs *)
(* put there; task->rp is its length and tr0 the length it had when the    *)
(* current definition began, so e4__stack_rdepth is Len(rs) - tr0.  `loops' *)
(* holds the C activations of e4__execute_threaded; the definitions called *)
(* from its line 126 share one of them.                                    *)
(*                                                                         *)
(* `calls' is a history: the active definitions with the stack they found. *)
(* A definition is known by its position there, 0 being the code outside   *)
(* of e4, so ip is the definition whose instructions are being executed.   *)
(***************************************************************************)
EXTENDS Integers, Sequences, FiniteSets

CONSTANTS
  MaxR,          \* cells of the return stack
  Hosts,         \* how definitions are started from outside
  Instructions,  \* what programs run under a handler consist of
  Uncaught       \* what programs run without one consist of

ASSUME SizeAssumption == MaxR \in Nat /\ MaxR >= 2
ASSUME HostsAssumption == Hosts \subseteq {"plain", "caught"}
ASSUME InstructionsAssumption ==
  Uncaught \cup Instructions \subseteq {"word", "call", "does", "execute", "catch", "exit", ">r", "2>r",
                          "r>", "2r>", "throw", "abort", "quit", "does full"}

VARIABLES
  rs,     \* the cells from r0 to rp, the last pushed last
  tr0,    \* task->tr0
  ip,     \* task->ip: an active definition, 0 (NULL), or one of the two below
  instr,  \* the instruction at ip, once it has been fetched
  loops,  \* activations of e4__execute_threaded, innermost last
  calls   \* history: the active definitions

vars == <<rs, tr0, ip, instr, loops, calls>>

None  == "none"
Thunk == -1              \* the return thunk: code that is one EXIT
Wild  == -2              \* not an address that was ever put there for this

Ret(d)   == [is |-> "ret", of |-> d]
Root(r)  == [is |-> "root", of |-> r]
Data     == [is |-> "data", of |-> 0]
Junk     == [is |-> "junk", of |-> 0]

Item == [is : {"ret", "root", "data", "junk"}, of : Int]
Loop == [by : {"plain", "caught", "does", "execute", "catch"},
         depth : Nat,     \* the local `depth': definitions it has to return from
         rp : Nat, tr0 : Int, level : Nat,
         handler : Nat]   \* innermost loop run by e4__exception_catch, or 0

level  == Len(calls)
rp     == Len(rs)
ravail == MaxR - rp
loop   == loops[Len(loops)]

\* A wild ip fetches instructions, too: any of them.
Running == loops # <<>>

Init ==
  /\ rs = <<>> /\ tr0 = 0 /\ ip = 0 /\ instr = None
  /\ loops = <<>> /\ calls = <<>>

-----------------------------------------------------------------------------
Cut(s, k) == SubSeq(s, 1, k)
Top(s)    == IF s = <<>> THEN Junk ELSE s[Len(s)]
Rest(s)   == IF s = <<>> THEN s ELSE Cut(s, Len(s) - 1)

\* A cell read as an address, and as a saved root.
Address(x) == IF x.is = "ret" THEN x.of ELSE Wild
RootOf(x)  == IF x.is = "root" THEN x.of ELSE Wild

\* rp set to position k: what is above the items still there is stale.
SetRp(s, k) == IF k = Wild THEN <<>>
               ELSE [i \in 1..k |-> IF i <= Len(s) THEN s[i] ELSE Junk]

\* e4__execute_ret, with root r: the stack and ip it leaves.
\* Only a depth of exactly zero is noticed; a negative one is a huge number.
Returned(s, r) == IF Len(s) = r THEN [rs |-> s, ip |-> Thunk]
                                ELSE [rs |-> Rest(s), ip |-> Address(Top(s))]

\* e4__exception_throw jumps to the innermost call of e4__exception_catch.
Valid == loops # <<>> /\ loop.handler # 0

\* The machine is put back; CATCH then returns to the code that called it.
Land ==
  LET h    == loop.handler
      back == SetRp(rs, loops[h].rp)
      ret  == IF loops[h].by = "catch" THEN Returned(back, loops[h].tr0)
                                       ELSE [rs |-> back, ip |-> 0]
  IN /\ rs' = ret.rs /\ ip' = ret.ip
     /\ tr0' = loops[h].tr0
     /\ loops' = Cut(loops, h - 1)
     /\ calls' = Cut(calls, loops[h].level)
     /\ instr' = None

\* The instruction is over and has changed nothing of this.
Done == instr' = None /\ UNCHANGED <<rs, tr0, ip, loops, calls>>

\* A guard of a word fails: it throws, or just returns if it cannot throw.
Refused == IF Valid THEN Land ELSE Done

\* e4__execute finds no room for the return address: it throws, or returns,
\* but then ip still is where it was.
\* Fault: it never throws.
NoRoom_Returns == UNCHANGED vars
NoRoom == IF Valid THEN Land ELSE UNCHANGED vars

-----------------------------------------------------------------------------
\* A definition begins: return addresses and the root are put on the stack.
Begin(addresses) ==
  /\ rs' = rs \o [i \in 1..addresses |-> Ret(ip)] \o <<Root(tr0)>>
  /\ tr0' = rp + addresses + 1
  /\ calls' = Append(calls, [rp |-> rp, root |-> rp + addresses + 1])
  /\ ip' = level + 1 /\ instr' = None

\* A new activation; e4__exception_catch saves rp as `saved'.
NewLoop(by, saved) ==
  loops' = Append(loops,
    [by |-> by, depth |-> 1, rp |-> saved, tr0 |-> tr0, level |-> level,
     handler |-> IF by \in {"caught", "catch"} THEN Len(loops) + 1
                 ELSE IF loops = <<>> THEN 0 ELSE loop.handler])

\* The activation has one definition more, or one less, to return from.
Deeper(by) == loops' = [loops EXCEPT ![Len(loops)].depth = @ + by]

(* e4__execute of a definition, or e4__builtin_exec and its like.          *)
Start ==
  /\ loops = <<>> /\ ip = 0
  /\ \E by \in Hosts : NewLoop(by, rp)
  /\ Begin(1)

(* The loop looks at the instruction at ip.                                *)
Fetch ==
  /\ Running /\ instr = None
  /\ instr' \in IF ip = Thunk THEN {"exit"} ELSE IF Valid THEN Instructions ELSE Uncaught
  /\ UNCHANGED <<rs, tr0, ip, loops, calls>>

At(i) == Running /\ instr = i

CallFits == ravail >= 2

(* A definition: called without another activation.  If there is no room   *)
(* and no handler the whole activation is unwound.                         *)
Call ==
  /\ At("call")
  /\ IF CallFits THEN Deeper(1) /\ Begin(1)
     ELSE IF Valid THEN Land
     ELSE instr' = "unwind" /\ UNCHANGED <<rs, tr0, ip, loops, calls>>

(* A definition that is reached through other code: DOES> and EXECUTE (or  *)
(* a deferred word).                                                       *)
Does ==
  /\ At("does")
  /\ IF ravail = 0 THEN NoRoom
     ELSE IF ravail < 2 THEN Refused
     ELSE NewLoop("does", rp) /\ Begin(1)

Execute ==
  /\ At("execute")
  /\ IF ravail = 0 THEN NoRoom
     ELSE IF ravail < 3 THEN Refused
     ELSE NewLoop("execute", rp) /\ Begin(2)

(* CATCH catches the overflow of its own e4__execute, too.                 *)
Catch ==
  /\ At("catch")
  /\ IF ravail = 0 THEN NoRoom
     ELSE IF ravail < 3 THEN Done
     ELSE NewLoop("catch", rp + 1) /\ Begin(2)

(* DOES> code on a full data stack: the address stays where it was pushed. *)
DoesOverflows ==
  /\ At("does full")
  /\ IF ravail = 0 THEN NoRoom
     ELSE IF Valid THEN Land
     ELSE rs' = Append(rs, Ret(ip)) /\ UNCHANGED <<tr0, ip, instr, loops, calls>>

-----------------------------------------------------------------------------
\* The definition is left, with the stack at its root: s, r and a are the
\* stack, tr0 and ip after e4__execute_ret.
\* Fault: the items the definition left there are not taken away.
Unstacked_ItemsKept == Rest(rs)
Unstacked   == Rest(SetRp(rs, tr0))
CallerRoot  == RootOf(Top(SetRp(rs, tr0)))
Caller      == Returned(Unstacked, CallerRoot)

\* EXECUTE and CATCH return in turn; e4__execute puts a NULL ip back.
LoopCaller ==
  CASE loop.by \in {"execute", "catch"} -> Returned(Caller.rs, CallerRoot)
    [] loop.by \in {"plain", "caught"}  -> [rs |-> Caller.rs, ip |-> 0]
    [] OTHER                            -> Caller

Leave ==
  /\ tr0' = CallerRoot
  /\ calls' = Rest(calls)
  /\ instr' = None
  /\ IF loop.depth > 1
     THEN rs' = Caller.rs /\ ip' = Caller.ip /\ Deeper(-1)
     ELSE rs' = LoopCaller.rs /\ ip' = LoopCaller.ip /\ loops' = Rest(loops)

Imbalanced == rp # tr0

(* EXIT.                                                                   *)
Exit ==
  /\ At("exit")
  /\ IF Valid /\ (Imbalanced \/ Len(Unstacked) = CallerRoot) THEN Land ELSE Leave

(* One definition of an activation that is unwound.                        *)
Unwind ==
  /\ At("unwind")
  /\ IF loop.depth > 1
     THEN /\ tr0' = CallerRoot /\ rs' = Unstacked
          /\ calls' = Rest(calls) /\ Deeper(-1)
          /\ UNCHANGED <<ip, instr>>
     ELSE Leave

-----------------------------------------------------------------------------
(* Words that leave the return stack alone, branches and literals.         *)
Word ==
  /\ At("word")
  /\ IF ravail = 0 THEN NoRoom ELSE Done

(* >R, 2>R and DO.                                                         *)
ToR(name, k) ==
  /\ At(name)
  /\ IF ravail = 0 THEN NoRoom
     ELSE IF ravail - 1 < k THEN Refused
     ELSE /\ rs' = rs \o [i \in 1..k |-> Data] /\ instr' = None
          /\ UNCHANGED <<tr0, ip, loops, calls>>

\* e4__stack_rdepth while a word is executed; if negative it is huge.
\* Fault: the return address of the word itself is counted as an item.
RDepthAtLeast_Own(k) == rp + 2 - tr0 >= k \/ rp + 1 < tr0
RDepthAtLeast(k) == rp + 1 - tr0 >= k \/ rp + 1 < tr0

(* R>, 2R> and UNLOOP.                                                     *)
RFrom(name, k) ==
  /\ At(name)
  /\ IF ravail = 0 THEN NoRoom
     ELSE IF ~RDepthAtLeast(k + 1) THEN Refused
     ELSE /\ rs' = Cut(rs, rp - k) /\ instr' = None
          /\ UNCHANGED <<tr0, ip, loops, calls>>

(* THROW, and every word that fails.                                       *)
Throw ==
  /\ At("throw")
  /\ IF ravail = 0 THEN NoRoom ELSE Refused

(* ABORT and ABORT" without a handler fill the stack with return thunks.   *)
Abort ==
  /\ At("abort")
  /\ IF ravail = 0 THEN NoRoom
     ELSE IF Valid THEN Land
     ELSE LET ret == Returned([i \in 1..(rp + 1) |-> Ret(Thunk)], tr0) IN
          /\ rs' = ret.rs /\ ip' = ret.ip /\ instr' = None
          /\ UNCHANGED <<tr0, loops, calls>>

(* QUIT without a handler is the QUIT loop, which resets rp but not tr0;   *)
(* when BYE ends it the word returns.                                      *)
Quit ==
  /\ At("quit")
  /\ IF ravail = 0 THEN NoRoom
     ELSE IF Valid THEN Land
     ELSE LET ret == Returned(<<>>, tr0) IN
          /\ rs' = ret.rs /\ ip' = ret.ip /\ instr' = None
          /\ UNCHANGED <<tr0, loops, calls>>

(* A signal handler throws between two instructions or inside of one.      *)
Interrupt == Running /\ Valid /\ Land

Step ==
  \/ Fetch \/ Call \/ Does \/ Execute \/ Catch \/ DoesOverflows
  \/ Exit \/ Unwind
  \/ Word \/ Throw \/ Abort \/ Quit
  \/ ToR(">r", 1) \/ ToR("2>r", 2) \/ RFrom("r>", 1) \/ RFrom("2r>", 2)

Next == Start \/ Step \/ Interrupt

Spec == Init /\ [][Next]_vars /\ WF_vars(Step)

-----------------------------------------------------------------------------
Calls == Seq([rp : Nat, root : Nat])

ThreadsTypeOK ==
  /\ rs \in Seq(Item) /\ rp <= MaxR
  /\ tr0 \in Int /\ ip \in Int
  /\ loops \in Seq(Loop) /\ calls \in Calls

(* The instructions executed are those of the definition that was called   *)
(* last and has not returned, and none when there is no such definition:   *)
(* no item a program stacked or removed, no overflow and no exception can  *)
(* make a word return to anywhere but its caller.                          *)
ReturnsToCaller == instr # "unwind" => ip = level

(* The return stack of definition i: it begins with the address of its     *)
(* caller and the root the caller had ("Can assume it's valid"), and goes  *)
(* on with what the definition has put there.                              *)
CallerOf(i)  == i - 1
RootAt(i)    == IF i = 0 THEN 0 ELSE calls[i].root
EndOf(i)     == IF i < level THEN calls[i + 1].rp ELSE rp

Framed(i) ==
  /\ calls[i].rp < calls[i].root - 1 /\ calls[i].root <= EndOf(i)
  /\ \A j \in calls[i].rp + 1 .. calls[i].root - 1 : rs[j] = Ret(CallerOf(i))
  /\ rs[calls[i].root] = Root(RootAt(CallerOf(i)))
  /\ \A j \in calls[i].root + 1 .. EndOf(i) :
       rs[j] = Data \/ (instr = "unwind" /\ j = rp /\ i = level)

FramesAreWhole ==
  /\ \A i \in 1..level : Framed(i)
  /\ tr0 = RootAt(level)
  /\ level = 0 => rs = <<>>

(* No word returns to anywhere but its caller, and every frame is whole.    *)
ThreadsInv == ThreadsTypeOK /\ ReturnsToCaller /\ FramesAreWhole

(* Whatever the code it started did, the program outside of e4 finds the   *)
(* return stack and the thread root as they were ("fail silently (but      *)
(* safely)").                                                              *)
HostStackIsKept == loops = <<>> => rs = <<>> /\ tr0 = 0

-----------------------------------------------------------------------------
(* The one return stack implements a stack of definitions with items of    *)
(* their own (module CallStack).                                           *)
Items(i) == Cardinality({j \in DOMAIN rs : calls[i].root < j /\ j <= EndOf(i) /\ rs[j] = Data})

Abstract == INSTANCE CallStack WITH active <- [i \in 1..level |-> Items(i)]

ImplementsCallStack == Abstract!Spec

(* Every instruction comes to an end: it is executed or it throws ("fail   *)
(* silently (but safely)").                                                *)
InstructionsEnd == (instr # None) ~> (instr = None)

(* With a handler around it there is no exception to this.                 *)
CaughtInstructionsEnd == (Valid /\ instr # None) ~> (instr = None)
=============================================================================
