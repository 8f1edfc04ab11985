---------------------------- MODULE FrameMirror -----------------------------
(***************************************************************************)
(* The kernel's range list and the crate's bitmap, driven by the same      *)
(* calls.  The crate calls itself "the model we can prove properties       *)
(* about" of the kernel's allocator; here the two are run side by side.    *)
(***************************************************************************)
EXTENDS FrameAlloc

CONSTANTS
    FRAMES,         \* the bitmap's frames
    WordBits,       \* 64
    FrameArgs       \* the frame numbers the bitmap's callers pass

\* The bitmap is as large as the memory.
ASSUME MirrorAssumption ==
    /\ FRAMES \in Nat /\ WordBits \in Nat \ {0} /\ FrameArgs \subseteq Nat
    /\ \A mm \in MemMaps : Usable(mm) \subseteq 0 .. FRAMES - 1

VARIABLES
    words,      \* the bitmap
    mirrored    \* what the bitmap's last alloc returned

mirrorVars == <<vars, words, mirrored>>

Bitmap == INSTANCE BitmapAlloc WITH answer <- mirrored

\* The bitmap after each frame was looked at: "Caller must call mark_free for
\* each actually-available frame from the memory map."
Marking(available) ==
    LET ws[n \in 0 .. FRAMES] ==
            IF n = 0 THEN Bitmap!new
            ELSE IF n - 1 \in available THEN Bitmap!mark_free(ws[n - 1], n - 1)
            ELSE ws[n - 1]
    IN  ws

MirrorInit ==
    /\ Init
    /\ words = Marking(FreeFrames(regions))[FRAMES]
    /\ mirrored = NoFrame

MirrorAlloc == allocate_frame /\ Bitmap!Alloc

MirrorLoadFails ==
    LET a == Bitmap!alloc(words)
    IN  /\ load_extent_fails
        /\ mirrored' = a.frame
        /\ words' = Bitmap!mark_free(a.words, a.frame)

MirrorFree(f) == deallocate_frame(f) /\ Bitmap!Free(f)

MirrorNext ==
    \/ MirrorAlloc
    \/ MirrorLoadFails
    \/ \E f \in held : MirrorFree(f)

MirrorSpec == MirrorInit /\ [][MirrorNext]_mirrorVars

-----------------------------------------------------------------------------
\* Until the range list has no room for a freed frame, the kernel's allocator
\* and the bitmap answer every call alike and hold the same frames free: what
\* is established for the bitmap describes the kernel's allocator.
MirrorAgrees ==
    lost = {} =>
        /\ answer = mirrored
        /\ free_count(regions) = Bitmap!free_count(words)
        /\ FreeFrames(regions) = Bitmap!FreeFrames

\* The bitmap implements the pool under the same calls.
BitmapImplementsPool == Bitmap!ImplementsPool

=============================================================================
