------------------------------ MODULE Bindings ------------------------------
(***************************************************************************)
(* What table.c promises its callers, with no buckets in sight: a store    *)
(* that keeps, for each key, the list of the values it was bound to.  An   *)
(* insertion never replaces a binding; a lookup answers with the first of  *)
(* the list; and an insertion that makes the table grow may rotate lists,  *)
(* which a key with a single binding never notices.                        *)
(***************************************************************************)
EXTENDS BindingLists

CONSTANTS Values, NULL

VARIABLES
  bound,  \* bound[k]: the values k is bound to, the visible one first
  answer  \* <<k, v>> from the moment a lookup of k answers v, NULL otherwise

vars == <<bound, answer>>

Answer(b, k) == <<k, IF IsBound(b, k) THEN FirstValue(b, k) ELSE NULL>>

Init ==
  /\ bound = NoBindings
  /\ answer = NULL

(* The caller has used the answer, and calls again. *)
Forget ==
  /\ answer' = NULL
  /\ UNCHANGED bound

Grow ==
  /\ \A k \in Keys : RotationOf(bound[k], bound'[k])
  /\ answer' = NULL

Insert(k, v) ==
  /\ bound' = Bind(bound, k, v)
  /\ answer' = NULL

Get(k) ==
  /\ answer' = Answer(bound, k)
  /\ UNCHANGED bound

(* A store through the pointer changes the visible binding and no other. *)
Assign(k, v) ==
  /\ IsBound(bound, k)
  /\ bound' = ReplaceFirst(bound, k, v)
  /\ answer' = <<k, v>>

Next ==
  \/ Forget
  \/ Grow
  \/ \E k \in Keys : Get(k) \/ \E v \in Values : Insert(k, v) \/ Assign(k, v)

Spec == Init /\ [][Next]_vars
=============================================================================
