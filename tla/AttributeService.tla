--------------------------- MODULE AttributeService ---------------------------
(***************************************************************************)
(* What CanDevice promises its callers: an attribute of a device has at    *)
(* most one transaction at a time, no more than Slots run together, a call *)
(* is refused only because some attribute is taken, and a transaction that *)
(* runs is answered once, before its attribute becomes free.               *)
(***************************************************************************)
EXTENDS Integers, FiniteSets

CONSTANTS
  Keys,     \* (device, attribute) pairs
  Tx,       \* transactions
  NoTx,
  Slots     \* how many transactions may run together

VARIABLES
  owner,    \* the transaction each attribute is taken by
  result    \* what each caller has been told

vars == <<owner, result>>

Answers == {"ok", "failed", "data", "empty"}
Running(t) == \E k \in Keys : owner[k] = t

Init ==
  /\ owner = [k \in Keys |-> NoTx]
  /\ result = [t \in Tx |-> "pending"]

Start(t, k) ==
  /\ result[t] = "pending" /\ ~Running(t)
  /\ owner[k] = NoTx
  /\ Cardinality({j \in Keys : owner[j] # NoTx}) < Slots
  /\ owner' = [owner EXCEPT ![k] = t]
  /\ UNCHANGED result

Refuse(t) ==
  /\ result[t] = "pending" /\ ~Running(t)
  /\ \E k \in Keys : owner[k] # NoTx
  /\ result' = [result EXCEPT ![t] = "refused"]
  /\ UNCHANGED owner

Answer(t, r) ==
  /\ result[t] = "pending" /\ Running(t)
  /\ result' = [result EXCEPT ![t] = r]
  /\ UNCHANGED owner

Release(k) ==
  /\ owner[k] # NoTx /\ result[owner[k]] # "pending"
  /\ owner' = [owner EXCEPT ![k] = NoTx]
  /\ UNCHANGED result

Next ==
  \/ \E t \in Tx, k \in Keys : Start(t, k)
  \/ \E t \in Tx : Refuse(t)
  \/ \E t \in Tx, r \in Answers : Answer(t, r)
  \/ \E k \in Keys : Release(k)

Spec == Init /\ [][Next]_vars
=============================================================================
