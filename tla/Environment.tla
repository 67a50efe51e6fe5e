---------------------------- MODULE Environment ----------------------------
(***************************************************************************)
(* The scopes of environment.c.  An environment is a table of bindings and *)
(* a pointer to the environment around it; the heap of environments is a   *)
(* sequence, a pointer to one is its position in it, and 0 is NULL.        *)
(*                                                                         *)
(* A table is what module Bindings says of table.c, which module HashTable *)
(* is shown to implement: lists of bindings per name, and the len and cap  *)
(* that decide when an insertion rehashes.                                 *)
(***************************************************************************)
EXTENDS Naturals, Sequences

CONSTANTS
  Names,             \* variable names
  INITIAL_CAPACITY   \* of a hash table; 8 in the code

B == INSTANCE BindingLists WITH Keys <- Names

hash_table_new == [len |-> 0, cap |-> 0, bindings |-> B!NoBindings]

(* The tables an insertion may leave: which one depends on the hashes of   *)
(* the names, and only when the insertion makes the table grow.            *)
NeedsRehash(table) == table.len = 0 \/ 4 * table.len > 3 * table.cap
GrownCapacity(table) == IF table.cap = 0 THEN INITIAL_CAPACITY ELSE 2 * table.cap

hash_table_insert(table, name, value) ==
  IF NeedsRehash(table)
  THEN {[len |-> table.len + 1, cap |-> GrownCapacity(table),
         bindings |-> B!Bind(b, name, value)] : b \in B!Rehashed(table.bindings)}
  ELSE {[len |-> table.len + 1, cap |-> table.cap,
         bindings |-> B!Bind(table.bindings, name, value)]}

-----------------------------------------------------------------------------
environment_new == [enclosing |-> 0, values |-> hash_table_new]

environment_new_enclosed(enclosing) ==
  [enclosing |-> enclosing, values |-> hash_table_new]

(* The heaps environment_define may leave.                                 *)
environment_define(envs, e, name, value) ==
  {[envs EXCEPT ![e] = [enclosing |-> envs[e].enclosing, values |-> table]] :
     table \in hash_table_insert(envs[e].values, name, value)}

(* Where the recursion of environment_get and environment_assign along     *)
(* the enclosing environments stops: the nearest environment that binds    *)
(* the name, or NULL.                                                      *)
Holder(envs, e, name) ==
  LET Search[n \in 0 .. Len(envs)] ==
        IF n = 0 \/ B!IsBound(envs[n].values.bindings, name) THEN n
        ELSE Search[envs[n].enclosing]
  IN  Search[e]

environment_get(envs, e, name) ==
  B!FirstValue(envs[Holder(envs, e, name)].values.bindings, name)

environment_assign(envs, e, name, value) ==
  LET h == Holder(envs, e, name)
      table == envs[h].values
  IN  [envs EXCEPT ![h] =
         [enclosing |-> envs[h].enclosing,
          values |-> [len |-> table.len, cap |-> table.cap,
                      bindings |-> B!ReplaceFirst(table.bindings, name, value)]]]

(* How many environments there are around e.                               *)
Depth(envs, e) ==
  LET Count[n \in 0 .. Len(envs)] == IF n = 0 THEN 0 ELSE 1 + Count[envs[n].enclosing]
  IN  Count[e] - 1
=============================================================================
