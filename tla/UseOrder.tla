-------------------------------- MODULE UseOrder --------------------------------
(***************************************************************************)
(* The list that core/cache/cache.go and core/mw/ratelimit.go keep beside  *)
(* a map, the key used last in front: container/list, as far as they use   *)
(* it.  A key is in the list once.                                         *)
(***************************************************************************)
EXTENDS Integers, Sequences

Place(k, s) == CHOOSE i \in 1..Len(s) : s[i] = k

Listed(s) == {s[i] : i \in 1..Len(s)}

Once(s) == \A i, j \in 1..Len(s) : s[i] = s[j] => i = j

\* A list without a key: those behind it move up.
Without(k, s) ==
    IF k \notin Listed(s) THEN s
    ELSE [i \in 1..Len(s) - 1 |-> IF i < Place(k, s) THEN s[i] ELSE s[i + 1]]

ToFront(k, s) == <<k>> \o Without(k, s)
=============================================================================
