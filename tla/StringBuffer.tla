---------------------------- MODULE StringBuffer -----------------------------
(***************************************************************************)
(* The circular buffer that holds the strings of an interpreted S" or S\"  *)
(* (struct e4__cbuf of core/src/util/mem.c; task->tsb).  An entry that     *)
(* does not fit between the last one and the end of the buffer begins at   *)
(* its start; nobody is told which older entries it overwrites.            *)
(***************************************************************************)
EXTENDS Escapes, FiniteSetsExt

CONSTANT BufferSize    \* sizeof(task->tsb_buf)

ASSUME BufferAssumption == BufferSize \in Nat \ {0}

VARIABLES
  tsb,      \* the characters of the buffer
  offset,   \* how many of them are before the next entry
  strings   \* history: the entries programs hold, latest last

tsbVars == <<tsb, offset, strings>>

tsbInit == tsb = [i \in 1..BufferSize |-> "junk"] /\ offset = 0 /\ strings = <<>>

\* Memory after text was written behind its first `at' characters.
Written(mem, at, text) ==
  [i \in DOMAIN mem |-> IF i - at \in DOMAIN text THEN text[i - at] ELSE mem[i]]

-----------------------------------------------------------------------------
(* Entries. *)

Held(at, text) == strings' = Append(strings, [at |-> at, text |-> text])

\* e4__mem_cbuf_push refuses the empty entry too, which is no error.
Pushable(text) == Len(text) <= BufferSize

push(text) ==
  LET start == IF Len(text) > BufferSize - offset THEN 0 ELSE offset
  IN  IF text = <<>> THEN UNCHANGED tsbVars
      ELSE /\ tsb' = Written(tsb, start, text)
           /\ offset' = start + Len(text)
           /\ Held(start, text)

Entry(mem, start, end, ok) == [mem |-> mem, start |-> start, end |-> end, ok |-> ok]

\* An entry that has met the end of the buffer goes on at its start.  Fault:
\* what is already written stays behind.
Moved_Not(e) == Entry(e.mem, 0, e.end - e.start, TRUE)
Moved(e) == Entry(Written(e.mem, 0, SubSeq(e.mem, e.start + 1, e.end)), 0, e.end - e.start, TRUE)

\* One round of e4__mem_cbuf_epush.
AddChunk(e, chunk) ==
  LET Put(f) == Entry(Written(f.mem, f.end, chunk), f.start, f.end + Len(chunk), TRUE)
  IN  CASE ~e.ok -> e
        [] e.ok /\ Len(chunk) <= BufferSize - e.end -> Put(e)
        [] e.ok /\ Len(chunk) > BufferSize - e.end /\ e.start # 0
             /\ Len(chunk) <= BufferSize - (e.end - e.start) -> Put(Moved(e))
        [] OTHER -> Entry(e.mem, e.start, 0, FALSE)

Escaping(str) == FoldLeft(AddChunk, Entry(tsb, offset, offset, TRUE), Chunks(str))

\* e is Escaping(str).  The entry that does not fit leaves garbage; no older one is valid any more.
epush(str, e) ==
  IF str = <<>> THEN UNCHANGED tsbVars
  ELSE /\ tsb' = e.mem /\ offset' = e.end
       /\ IF e.ok THEN Held(e.start, FlattenSeq(Chunks(str))) ELSE strings' = <<>>

-----------------------------------------------------------------------------
\* The latest entries are still what the program wrote, as many of them as fit
\* if each were as long as the longest and the end of the buffer were skipped;
\* and none passes the end of the buffer.
LatestStringsAreKept ==
  /\ offset \in 0..BufferSize
  /\ \A i \in DOMAIN strings :
       LET latest == Len(strings) - i + 1
           length == Max({Len(strings[j].text) : j \in i..Len(strings)})
       IN  latest <= (BufferSize + 1) \div length - 1 \/ latest = 1 =>
             Written(tsb, strings[i].at, strings[i].text) = tsb

\* "Guaranteed not to smash the previous M entries of size N or less where M
\* is equal to buffer size divided by N."
PreviousStringsAreKept ==
  \A i \in DOMAIN strings :
    LET latest == Len(strings) - i + 1
        length == Max({Len(strings[j].text) : j \in i..Len(strings)})
    IN  latest <= BufferSize \div length => Written(tsb, strings[i].at, strings[i].text) = tsb
=============================================================================
