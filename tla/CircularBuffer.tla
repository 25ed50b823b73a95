--------------------------- MODULE CircularBuffer ---------------------------
(***************************************************************************)
(* circular_buffer.h: an array that is written round and round.  Only what *)
(* its users use: construction, clear(), push() of one element, size() and *)
(* operator[] with an index that is not negative.                          *)
(*                                                                         *)
(* The pointers run from 0 up to and including the capacity: one that has  *)
(* reached the end wraps at the next access only.                          *)
(***************************************************************************)
EXTENDS Naturals

\* An empty buffer of that capacity.  (Its elements are not initialized.)
Buffer(capacity, any) ==
  [elements |-> [k \in 0..capacity - 1 |-> any],
   nelements |-> 0, read_ptr |-> 0, write_ptr |-> 0]

clear(b) == [b EXCEPT !.nelements = 0, !.read_ptr = 0, !.write_ptr = 0]

size(b) == b.nelements

\* LastNumbersAreKept: the writer overtakes the reader and leaves it behind.
Fault_push(b, capacity, e) ==
  LET at == IF b.write_ptr = capacity THEN 0 ELSE b.write_ptr
      full == b.nelements = capacity
  IN  [elements |-> [b.elements EXCEPT ![at] = e],
       write_ptr |-> at + 1,
       read_ptr |-> b.read_ptr,
       nelements |-> IF full THEN capacity ELSE b.nelements + 1]

\* push(e) on a buffer of a capacity that is not zero.
push(b, capacity, e) ==
  LET at == IF b.write_ptr = capacity THEN 0 ELSE b.write_ptr
      overtakes == b.nelements + 1 > capacity
  IN  [elements |-> [b.elements EXCEPT ![at] = e],
       write_ptr |-> at + 1,
       read_ptr |-> IF overtakes THEN at + 1 ELSE b.read_ptr,
       nelements |-> IF overtakes THEN capacity ELSE b.nelements + 1]

\* b[idx], for an idx below size(b).
element(b, capacity, idx) ==
  LET k == idx + b.read_ptr
  IN  b.elements[IF k >= capacity THEN k - capacity ELSE k]

=============================================================================
