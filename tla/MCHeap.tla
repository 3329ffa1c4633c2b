------------------------------- MODULE MCHeap -------------------------------
(* LinkedListAllocator on a heap of a few words.                             *)
EXTENDS LinkedListAllocator

Layout(s, a) == [size |-> s, align |-> a]

\* Layouts no stricter than a node: blocks of 16, 24, 32 and 40 bytes.
WordLayouts == {Layout(1, 1), Layout(18, 2), Layout(32, 8), Layout(37, 4)}
=============================================================================
