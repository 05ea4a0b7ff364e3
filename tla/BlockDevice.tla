----------------------------- MODULE BlockDevice ------------------------------
(***************************************************************************)
(* What a writable LSMT file promises to its callers: an array of blocks.   *)
(* A call writes its own content to the blocks of its range, in any order    *)
(* and not all at once, each block at most once, all of them before it       *)
(* returns success; nothing else ever changes a block.                       *)
(***************************************************************************)
EXTENDS Integers

CONSTANTS Threads,          \* callers
          Blocks,           \* block addresses
          Content           \* what a block may hold

VARIABLES dev,              \* dev[b]: the content of block b
          todo,             \* todo[t]: what the call of t has still to write, a
                            \* function from blocks to content
          ret               \* ret[t]: "busy" during a call, then its result

vars == <<dev, todo, ret>>

Nothing == [b \in {} |-> b]

Init ==
    /\ dev \in [Blocks -> Content]
    /\ todo = [t \in Threads |-> Nothing]
    /\ ret = [t \in Threads |-> "ok"]

\* A caller asks for the blocks of S to be written with w.
Call(t) ==
    /\ ret[t] # "busy"
    /\ ret' = [ret EXCEPT ![t] = "busy"]
    /\ \E S \in SUBSET Blocks : \E w \in [S -> Content] : todo' = [todo EXCEPT ![t] = w]
    /\ UNCHANGED dev

Written(t, S) == dev' = [b \in Blocks |-> IF b \in S THEN todo[t][b] ELSE dev[b]]

\* Some of the blocks asked for take their new content.
Apply(t) ==
    \E S \in SUBSET DOMAIN todo[t] :
        /\ Written(t, S)
        /\ todo' = [todo EXCEPT ![t] = [b \in DOMAIN todo[t] \ S |-> todo[t][b]]]
        /\ UNCHANGED ret

\* Success: everything asked for has been written.
Return(t) ==
    /\ ret[t] = "busy" /\ todo[t] = Nothing
    /\ ret' = [ret EXCEPT ![t] = "ok"]
    /\ UNCHANGED <<dev, todo>>

\* Failure: some more blocks may have been written, the rest is given up.
Fail(t) ==
    /\ ret[t] = "busy"
    /\ \E S \in SUBSET DOMAIN todo[t] : Written(t, S)
    /\ todo' = [todo EXCEPT ![t] = Nothing]
    /\ ret' = [ret EXCEPT ![t] = "err"]

Next == \E t \in Threads : Call(t) \/ Apply(t) \/ Return(t) \/ Fail(t)

Spec == Init /\ [][Next]_vars
===============================================================================
