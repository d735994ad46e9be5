--------------------------- MODULE FencedOwnership ---------------------------
(***************************************************************************)
(* What the task table promises its callers, with none of its columns: a   *)
(* task has at most one owner, each ownership has a number of its own, the *)
(* numbers only grow, and a number is never used for two owners.  A reply  *)
(* that carries the number of its ownership can therefore be told from a   *)
(* late one.                                                               *)
(*                                                                         *)
(* TaskStore.tla implements this (the mapping is in TaskStoreFence.tla).   *)
(***************************************************************************)
EXTENDS Naturals

CONSTANTS Things, Owners, Nobody

VARIABLES
  phase,   \* of each thing: new, free to be handed out, owned, or closed
  owner,   \* who owns each thing, or Nobody
  number   \* the number of the current ownership, or of the next one

fenceVars == <<phase, owner, number>>

Init ==
  /\ phase = [x \in Things |-> "new"]
  /\ owner = [x \in Things |-> Nobody]
  /\ number = [x \in Things |-> 1]

Open(x) ==
  /\ phase[x] = "new"
  /\ phase' = [phase EXCEPT ![x] = "free"]
  /\ UNCHANGED <<owner, number>>

\* A free thing is handed out under its number, which no owner has had yet.
Acquire(x, o) ==
  /\ phase[x] = "free"
  /\ phase' = [phase EXCEPT ![x] = "owned"]
  /\ owner' = [owner EXCEPT ![x] = o]
  /\ UNCHANGED number

\* Ownership passes on directly, under a new number.
Transfer(x, o) ==
  /\ phase[x] = "owned"
  /\ owner' = [owner EXCEPT ![x] = o]
  /\ number' = [number EXCEPT ![x] = @ + 1]
  /\ UNCHANGED phase

\* The thing is done with; its number is not used again.
Finish(x) ==
  /\ phase[x] \in {"free", "owned"}
  /\ phase' = [phase EXCEPT ![x] = "closed"]
  /\ owner' = [owner EXCEPT ![x] = Nobody]
  /\ UNCHANGED number

\* The things in X are taken from whoever has them and get new numbers; those
\* in K are free again, the others closed.
Revoke(X, K) ==
  /\ \A x \in X : phase[x] # "new"
  /\ phase' = [x \in Things |-> IF x \in K THEN "free"
                                ELSE IF x \in X THEN "closed" ELSE phase[x]]
  /\ owner' = [x \in Things |-> IF x \in X THEN Nobody ELSE owner[x]]
  /\ number' = [x \in Things |-> IF x \in X THEN number[x] + 1 ELSE number[x]]

Next ==
  \/ \E x \in Things : Open(x) \/ Finish(x)
  \/ \E x \in Things, o \in Owners : Acquire(x, o) \/ Transfer(x, o)
  \/ \E X \in SUBSET Things : \E K \in SUBSET X : Revoke(X, K)

Spec == Init /\ [][Next]_fenceVars

=============================================================================
