------------------------------ MODULE MCFrame -------------------------------
(***************************************************************************)
(* Memory maps for FrameMirror: one block, blocks that are not aligned to  *)
(* frames, adjacent blocks out of order, and blocks too small to hold a    *)
(* frame.  A frame has two bytes and frame 0 stands for the first MiB.     *)
(***************************************************************************)
EXTENDS FrameMirror

Entry(base, length, usable) ==
    [base |-> base, length |-> length, usable |-> usable]

MCMemMaps ==
    {<<Entry(0, 16, TRUE)>>,
     <<Entry(1, 6, TRUE), Entry(7, 2, FALSE), Entry(9, 6, TRUE)>>,
     <<Entry(8, 8, TRUE), Entry(2, 6, TRUE), Entry(0, 2, TRUE)>>,
     <<Entry(3, 2, TRUE), Entry(12, 3, TRUE), Entry(5, 5, TRUE)>>}

\* One frame past the end.
MCFrameArgs == 0 .. FRAMES

=============================================================================
