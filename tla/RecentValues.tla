---------------------------- MODULE RecentValues ----------------------------
(***************************************************************************)
(* What a cache with expiry promises its callers: for every key the value  *)
(* that was put last, until it is too old, or nothing.  A young value is   *)
(* forgotten only when as many others are remembered as there is room for, *)
(* and then it is the oldest.                                              *)
(***************************************************************************)
EXTENDS Integers, FiniteSets

CONSTANTS
  Keys,
  Values,
  Room,       \* how many values are remembered at most
  MaxAge,     \* how old a value may be when it is returned
  Absent      \* no value

VARIABLES
  recent,     \* the value a caller gets for a key
  age         \* the time since it was put, 0 if there is none

recentVars == <<recent, age>>

Remembered == {k \in Keys : recent[k] # Absent}

RecentInit ==
  /\ recent = [k \in Keys |-> Absent]
  /\ age = [k \in Keys |-> 0]

\* A value is put; one other may have to go.
PutAll(k, v, gone) ==
  /\ recent' = [j \in Keys |->
                  IF j = k THEN v ELSE IF j \in gone THEN Absent ELSE recent[j]]
  /\ age' = [j \in Keys |-> IF j = k \/ j \in gone THEN 0 ELSE age[j]]

Put(k) ==
  \E v \in Values :
    \/ PutAll(k, v, {})
    \/ /\ Cardinality(Remembered) >= Room
       /\ \E old \in Remembered \ {k} :
            /\ \A j \in Remembered : age[j] <= age[old]
            /\ PutAll(k, v, {old})

\* All values grow older, and those that are too old are gone.
Grown == {k \in Remembered : age[k] < MaxAge}

Pass ==
  /\ recent' = [k \in Keys |-> IF k \in Grown THEN recent[k] ELSE Absent]
  /\ age' = [k \in Keys |-> IF k \in Grown THEN age[k] + 1 ELSE 0]

ForgetAll ==
  /\ recent' = [k \in Keys |-> Absent]
  /\ age' = [k \in Keys |-> 0]

RecentNext == (\E k \in Keys : Put(k)) \/ Pass \/ ForgetAll

RecentSpec == RecentInit /\ [][RecentNext]_recentVars
=============================================================================
