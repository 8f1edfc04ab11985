----------------------------- MODULE FramePool ------------------------------
(***************************************************************************)
(* What a physical frame allocator promises: a pool of free frames from    *)
(* which the lowest is taken first, and to which a frame comes back.  A    *)
(* frame is never free and handed out at once, and an allocation is        *)
(* refused only when nothing is free.  The range list of memory.rs and the *)
(* bitmap of the frame-alloc crate are both shown to implement it.         *)
(*                                                                         *)
(* The range list has room for MaxRuns runs of adjacent free frames.  A    *)
(* frame that comes back while there are that many, and that touches none  *)
(* of them, is lost.  The bitmap loses nothing, and can set a frame of     *)
(* Reservable aside.                                                       *)
(***************************************************************************)
EXTENDS Integers, FiniteSets

CONSTANTS MaxRuns, Reservable, NoFrame

VARIABLES
    pool,       \* the free frames
    held,       \* the frames handed out or set aside
    answer      \* what the last allocation returned

vars == <<pool, held, answer>>

Lowest(S) == CHOOSE f \in S : \A g \in S : f <= g

\* One frame for every run of adjacent frames of S.
RunStarts(S) == {f \in S : f - 1 \notin S}

Init ==
    /\ pool \cap held = {}
    /\ answer = NoFrame

Take ==
    /\ pool # {}
    /\ answer' = Lowest(pool)
    /\ pool' = pool \ {Lowest(pool)}
    /\ held' = held \cup {Lowest(pool)}

Refuse ==
    /\ pool = {}
    /\ answer' = NoFrame
    /\ UNCHANGED <<pool, held>>

\* A frame is taken and given back before anyone else looks.
Borrow ==
    /\ pool # {}
    /\ answer' = Lowest(pool)
    /\ UNCHANGED <<pool, held>>

Give(f) ==
    /\ f \in held
    /\ pool' = pool \cup {f}
    /\ held' = held \ {f}
    /\ UNCHANGED answer

Lose(f) ==
    /\ f \in held
    /\ Cardinality(RunStarts(pool)) >= MaxRuns
    /\ {f - 1, f + 1} \cap pool = {}
    /\ held' = held \ {f}
    /\ UNCHANGED <<pool, answer>>

Reserve(f) ==
    /\ f \in pool \cap Reservable
    /\ pool' = pool \ {f}
    /\ held' = held \cup {f}
    /\ UNCHANGED answer

Next ==
    \/ Take
    \/ Refuse
    \/ Borrow
    \/ \E f \in held : Give(f) \/ Lose(f)
    \/ \E f \in pool : Reserve(f)

Spec == Init /\ [][Next]_vars

=============================================================================
