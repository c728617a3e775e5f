--------------------------- MODULE SectorMemory ---------------------------
(***************************************************************************)
(* What a cache promises its callers: a memory of sectors.  What is read   *)
(* is what was written last, and only what is durable survives             *)
(* invalidating the cache.  Any call may make sectors durable on its way,  *)
(* and it may fail, which changes no sector.                               *)
(***************************************************************************)
CONSTANTS Sectors, Offsets, Values, Zero

VARIABLES memory, durable, answer

Content == [Offsets -> Values]

Init ==
    /\ memory \in [Sectors -> Content]
    /\ durable = memory
    /\ answer = "none"

WriteBack == \E W \in SUBSET Sectors :
    durable' = [s \in Sectors |-> IF s \in W THEN memory[s] ELSE durable[s]]

Read(s, o) == answer' = memory[s][o] /\ WriteBack /\ UNCHANGED memory

Put(s, content) ==
    answer' = "done" /\ WriteBack /\ memory' = [memory EXCEPT ![s] = content]

Write(s, o, v)      == Put(s, [memory[s] EXCEPT ![o] = v])
EraseWrite(s, o, v) == Put(s, [p \in Offsets |-> IF p = o THEN v ELSE Zero])

Fail       == answer' = "error" /\ WriteBack /\ UNCHANGED memory
Flush      == answer' = "flushed" /\ WriteBack /\ UNCHANGED memory
Invalidate == answer' = "none" /\ memory' = durable /\ UNCHANGED durable

Next ==
    \/ \E s \in Sectors, o \in Offsets :
            \/ Read(s, o)
            \/ \E v \in Values : Write(s, o, v) \/ EraseWrite(s, o, v)
    \/ Fail \/ Flush \/ Invalidate

Spec == Init /\ [][Next]_<<memory, durable, answer>>
=============================================================================
