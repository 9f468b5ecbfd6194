---------------------------- MODULE ConcurrentMap ----------------------------
(***************************************************************************)
(* What TsHashTable promises: a map that threads use as if each of their   *)
(* calls happened in one instant.                                          *)
(***************************************************************************)
CONSTANTS Threads, Keys, Values, NoValue

VARIABLES
  map,   \* what each key is mapped to, or NoValue
  ret    \* what the last call of each thread answered

Empty == [k \in Keys |-> NoValue]

Found(k) == map[k] # NoValue
Answer(t, found, value) == ret' = [ret EXCEPT ![t] = [found |-> found, val |-> value]]

Init ==
  /\ map = Empty
  /\ ret = [t \in Threads |-> [found |-> FALSE, val |-> NoValue]]

get(t, k) == Answer(t, Found(k), map[k]) /\ UNCHANGED map

contains(t, k) == Answer(t, Found(k), NoValue) /\ UNCHANGED map

add(t, k, v) == Answer(t, Found(k), NoValue) /\ map' = [map EXCEPT ![k] = v]

replace(t, k, v) ==
  /\ Answer(t, Found(k), NoValue)
  /\ map' = IF Found(k) THEN [map EXCEPT ![k] = v] ELSE map

remove(t, k) == Answer(t, Found(k), NoValue) /\ map' = [map EXCEPT ![k] = NoValue]

steal(t, k) == Answer(t, Found(k), map[k]) /\ map' = [map EXCEPT ![k] = NoValue]

Destroy == map' = Empty /\ UNCHANGED ret

Next ==
  \/ \E t \in Threads, k \in Keys :
       \/ get(t, k) \/ contains(t, k) \/ remove(t, k) \/ steal(t, k)
       \/ \E v \in Values : add(t, k, v) \/ replace(t, k, v)
  \/ Destroy

Spec == Init /\ [][Next]_<<map, ret>>

=============================================================================
