---------------------------- MODULE BindingLists ----------------------------
(***************************************************************************)
(* The contents of a table of table.c as its callers can tell them apart:  *)
(* for each key the list of values it is bound to, in the order in which a *)
(* probe from the key's home slot meets them.  Only the first is ever seen *)
(* by a lookup.                                                            *)
(***************************************************************************)
EXTENDS Naturals, Sequences

CONSTANT Keys

NoBindings == [k \in Keys |-> <<>>]
IsBound(b, k) == b[k] # <<>>

(* hash_table_insert never replaces: the probe stops at the first free     *)
(* bucket, behind every bucket that already holds the key.                 *)
Bind(b, k, v) == [b EXCEPT ![k] = Append(@, v)]

(* hash_table_try_get points to the first bucket of the key, and that is   *)
(* the one a store through the pointer changes.                            *)
FirstValue(b, k) == Head(b[k])
ReplaceFirst(b, k, v) == [b EXCEPT ![k] = <<v>> \o Tail(@)]

(* rehash copies the buckets in index order.  Those of a key that had      *)
(* wrapped round the end of the old array are copied first, so the list    *)
(* comes out rotated.                                                      *)
Rotate(s, r) == SubSeq(s, r + 1, Len(s)) \o SubSeq(s, 1, r)
RotationOf(s, t) == \E r \in 0 .. Len(s) : t = Rotate(s, r)
Rehashed(b) ==
  LET Lists == UNION {{Rotate(b[k], r) : r \in 0 .. Len(b[k])} : k \in Keys}
  IN  {c \in [Keys -> Lists] : \A k \in Keys : RotationOf(b[k], c[k])}
=============================================================================
