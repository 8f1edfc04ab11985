---------------------------- MODULE BitmapAlloc -----------------------------
(***************************************************************************)
(* BitmapFrameAllocator of the frame-alloc crate: a bitmap over the frames *)
(* 0 .. FRAMES-1 in words of WordBits bits (64 in the code).  A word is    *)
(* the set of its bits that are 1, a 1 meaning that the frame is free.     *)
(***************************************************************************)
EXTENDS Integers, FiniteSets

CONSTANTS
    FRAMES,
    WordBits,
    FrameArgs,      \* the frame numbers callers pass
    NoFrame         \* None, as the answer of an allocation

VARIABLES
    words,
    answer          \* what the last alloc returned

vars == <<words, answer>>

Frame == 0 .. FRAMES - 1

Words == (FRAMES + WordBits - 1) \div WordBits

Word == 0 .. Words - 1

Bit == 0 .. WordBits - 1

\* Every frame used.
new == [w \in Word |-> {}]

mark_free(ws, f) ==
    IF f >= FRAMES THEN ws
    ELSE [ws EXCEPT ![f \div WordBits] = @ \cup {f % WordBits}]

mark_used(ws, f) ==
    IF f >= FRAMES THEN ws
    ELSE [ws EXCEPT ![f \div WordBits] = @ \ {f % WordBits}]

is_free(ws, f) == f < FRAMES /\ f % WordBits \in ws[f \div WordBits]

NonZero(ws) == {w \in Word : ws[w] # {}}

MutantFirstWord(ws) == CHOOSE w \in NonZero(ws) : \A v \in NonZero(ws) : w >= v

FirstWord(ws) == CHOOSE w \in NonZero(ws) : \A v \in NonZero(ws) : w <= v

trailing_zeros(word) == CHOOSE b \in word : \A c \in word : b <= c

\* The first word that is not zero, and its lowest bit.  A bit beyond FRAMES,
\* which only the last word has, would be cleared and not returned.
alloc(ws) ==
    IF NonZero(ws) = {} THEN [frame |-> NoFrame, words |-> ws]
    ELSE LET w == FirstWord(ws)
             b == trailing_zeros(ws[w])
         IN  [frame |-> IF w * WordBits + b < FRAMES
                        THEN w * WordBits + b ELSE NoFrame,
              words |-> [ws EXCEPT ![w] = @ \ {b}]]

free_count(ws) ==
    LET cnt[n \in 0 .. Words] ==
            IF n = 0 THEN 0 ELSE cnt[n - 1] + Cardinality(ws[n - 1])
    IN  cnt[Words]

-----------------------------------------------------------------------------
Init ==
    /\ words = new
    /\ answer = NoFrame

MarkFree(f) ==
    /\ words' = mark_free(words, f)
    /\ UNCHANGED answer

MarkUsed(f) ==
    /\ words' = mark_used(words, f)
    /\ UNCHANGED answer

Alloc ==
    /\ words' = alloc(words).words
    /\ answer' = alloc(words).frame

\* free is mark_free.
Free(f) == MarkFree(f)

Next ==
    \/ Alloc
    \/ \E f \in FrameArgs : MarkFree(f) \/ MarkUsed(f) \/ Free(f)

Spec == Init /\ [][Next]_vars

-----------------------------------------------------------------------------
\* "High bits in the final word (beyond FRAMES) are always kept 0": whatever
\* frame numbers callers pass, no bit stands for a frame that does not exist.
TypeOK ==
    /\ words \in [Word -> SUBSET Bit]
    /\ \A w \in Word : \A b \in words[w] : w * WordBits + b < FRAMES
    /\ answer \in Frame \cup {NoFrame}

FreeFrames == {f \in Frame : is_free(words, f)}

Pool == INSTANCE FramePool WITH
            MaxRuns <- FRAMES + 1, Reservable <- Frame,
            pool <- FreeFrames, held <- Frame \ FreeFrames

\* The bitmap is a pool that hands out its lowest frame first, refuses only
\* when it is empty, loses nothing, and ignores frames that do not exist.
ImplementsPool == Pool!Spec

=============================================================================
