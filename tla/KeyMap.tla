------------------------------- MODULE KeyMap -------------------------------
(***************************************************************************)
(* What a dict promises a Calx program: a map from keys to values, and a   *)
(* NextKey loop that visits every key that stays in it exactly once unless *)
(* a new key is inserted meanwhile.  Xht implements it.                    *)
(***************************************************************************)
EXTENDS Naturals

CONSTANTS
    Key, Val,
    Nil,        \* the nil value; also what NextKey starts from and ends with
    Absent      \* the result of a look-up that finds nothing

VARIABLES
    map,        \* the entries
    result,     \* what the last look-up or removal returned
    at,         \* the key a NextKey loop is at, Nil outside a loop
    left        \* the keys the loop has yet to visit

vars == <<map, result, at, left>>

Keys == DOMAIN map

TypeOK ==
    /\ Keys \subseteq Key /\ map \in [Keys -> Val]
    /\ result \in Val \union {Absent}
    /\ at \in Key \union {Nil} /\ left \subseteq Keys

Init ==
    /\ map = [k \in {} |-> Nil] /\ result = Absent
    /\ at = Nil /\ left = {}

With(k, v)  == [x \in Keys \union {k} |-> IF x = k THEN v ELSE map[x]]
Without(k)  == [x \in Keys \ {k} |-> map[x]]
Lookup(k)   == IF k \in Keys THEN map[k] ELSE Absent

(* A new key may reorder everything a loop has not visited or has.          *)
Put(k, v) ==
    /\ map' = With(k, v)
    /\ IF k \in Keys THEN left' = left
       ELSE left' \in SUBSET (Keys \union {k}) /\ (at = Nil => left' = {})
    /\ UNCHANGED <<result, at>>

Get(k) == result' = Lookup(k) /\ UNCHANGED <<map, at, left>>

(* The loop ends if the key it is at is removed.                            *)
Remove(k) ==
    /\ map' = Without(k) /\ result' = Lookup(k)
    /\ left' = IF k = at THEN {} ELSE left \ {k}
    /\ UNCHANGED at

First ==
    /\ at = Nil
    /\ IF Keys = {} THEN UNCHANGED vars
       ELSE \E k \in Keys : at' = k /\ left' = Keys \ {k} /\ UNCHANGED <<map, result>>

NextKey ==
    /\ at # Nil
    /\ IF left = {} THEN at' = Nil /\ left' = {}
       ELSE \E k \in left : at' = k /\ left' = left \ {k}
    /\ UNCHANGED <<map, result>>

Next ==
    \/ \E k \in Key, v \in Val : Put(k, v)
    \/ \E k \in Key : Get(k) \/ Remove(k)
    \/ First
    \/ NextKey

Spec == Init /\ [][Next]_vars
=============================================================================
