-------------------------------- MODULE LpVec --------------------------------
(***************************************************************************)
(* The buffers of lpbuf.rs: a vector on a fixed block of large pages that  *)
(* moves to the heap when it must grow.  A vector is [items, cap, large]:  *)
(* the live elements, the room for them and where they are.                *)
(***************************************************************************)
EXTENDS Integers, Sequences

\* What with_capacity makes; whether large pages are to be had is up to the system.
WithCapacity(cap, large) == [items |-> <<>>, cap |-> cap, large |-> large]

Clear(v) == [v EXCEPT !.items = <<>>]

\* grow_to: at least doubled, on the heap.
GrowTo(v, needed) ==
    [v EXCEPT !.cap = CHOOSE n \in {needed, 2 * v.cap, 8} : \A m \in {needed, 2 * v.cap, 8} : n >= m,
              !.large = FALSE]

WithRoom(v, needed) == IF needed > v.cap THEN GrowTo(v, needed) ELSE v

ExtendFromSlice(v, src) ==
    [WithRoom(v, Len(v.items) + Len(src)) EXCEPT !.items = @ \o src]

\* resize: new elements get the value, the others stay as they are.
Resize(v, n, value) ==
    [WithRoom(v, n) EXCEPT
       !.items = [i \in 1 .. n |-> IF i <= Len(v.items) THEN v.items[i] ELSE value]]

\* Writing the words w over a slice that begins after the first at elements.
Overwrite(v, at, w) ==
    [v EXCEPT !.items =
       [i \in 1 .. Len(v.items) |-> IF i - at \in DOMAIN w THEN w[i - at] ELSE v.items[i]]]

=============================================================================
