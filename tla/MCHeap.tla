------------------------------- MODULE MCHeap -------------------------------
(* Small heaps for Heap: lists of lists and weak references at more          *)
(* addresses, strings in dicts with longer texts.                            *)
EXTENDS Heap, TLC

CONSTANTS o1, o2, o3, o4, x, y

Symmetry == Permutations(Obj)

MCBounds ==
    {[kinds |-> {"list", "wref"}, objects |-> 4, stack |-> 3, items |-> 1, text |-> 0],
     [kinds |-> {"dict", "str"}, objects |-> 3, stack |-> 2, items |-> 2, text |-> 2]}
=============================================================================
