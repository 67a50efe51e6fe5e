------------------------------- MODULE Lists --------------------------------
(* The growing arrays of list.c and list.h.  The cells behind `pointer`    *)
(* are a sequence of `capacity` cells, the first `length` of them in use;  *)
(* a cell that is written outside of them is lost.                         *)
EXTENDS Naturals, Sequences

LIST_INITIAL_CAPACITY == 8

(* What GC_MALLOC and GC_REALLOC leave in a cell that has not been written.*)
Zero == [type |-> "zero"]

LIST_INIT == [pointer |-> <<>>, length |-> 0, capacity |-> 0]

GC_REALLOC(pointer, size) ==
  [n \in 1 .. size |-> IF n \in 1 .. Len(pointer) THEN pointer[n] ELSE Zero]

(* Where the loop of list_reserve_ stops: at the first doubling that is    *)
(* large enough, the one before it being too small.                        *)
Doubled(capacity, needed) ==
  LET first == IF capacity = 0 THEN LIST_INITIAL_CAPACITY ELSE capacity
      doublings == CHOOSE k \in 0 .. needed :
                     /\ first * 2 ^ k \in needed .. 2 * needed + LIST_INITIAL_CAPACITY
                     /\ k > 0 => first * 2 ^ (k - 1) < needed
  IN  first * 2 ^ doublings

(* The old cells are not copied to the new ones. *)
FaultyReserve(list, capacity) ==
  IF list.capacity < capacity
  THEN LET size == Doubled(list.capacity, capacity)
       IN  [pointer |-> GC_REALLOC(<<>>, size), length |-> list.length, capacity |-> size]
  ELSE list

list_reserve_(list, capacity) ==
  IF list.capacity < capacity
  THEN LET size == Doubled(list.capacity, capacity)
       IN  [pointer |-> GC_REALLOC(list.pointer, size), length |-> list.length, capacity |-> size]
  ELSE list

(* The list is full when it holds `capacity` elements, not one less. *)
FaultyPush(list, elem) ==
  LET reserved == list_reserve_(list, list.length)
  IN  [reserved EXCEPT !.pointer[reserved.length + 1] = elem, !.length = @ + 1]

LIST_PUSH(list, elem) ==
  LET reserved == list_reserve_(list, list.length + 1)
  IN  [reserved EXCEPT !.pointer[reserved.length + 1] = elem, !.length = @ + 1]
=============================================================================
