--------------------------- MODULE ExpiringTokens ---------------------------
(***************************************************************************)
(* ExpiringTokenStore: bearer tokens in memory, each with a value, that    *)
(* are consumed at most once and forgotten when their time is over or when *)
(* there are too many.  A store is a set of items; tokens are numbered in  *)
(* the order in which they are issued.                                     *)
(***************************************************************************)
EXTENDS Integers, FiniteSets

CONSTANTS MaxItems   \* the bound of a store

ASSUME MaxItemsAssumption == MaxItems \in Nat \ {0}

Item(token, value, expires) == [token |-> token, value |-> value, expires |-> expires]

(* Whatever the store is asked, it drops what has expired first. *)
Unexpired(items, now) == {i \in items : i.expires > now}

(* The item that expires first, and of several the one issued first. *)
Oldest(items) ==
  {i \in items : \A j \in items : i.expires < j.expires
                                  \/ (i.expires = j.expires /\ i.token <= j.token)}

\* Mutant: nothing makes room.
RoomForAll(items) == items

Room(items) == IF Cardinality(items) >= MaxItems THEN items \ Oldest(items) ELSE items

Issued(items, token, value, now, ttl) ==
  Room(Unexpired(items, now)) \cup {Item(token, value, now + ttl)}

(* peek and consume raise unless there is such an item. *)
Holds(items, token, now) == \E i \in Unexpired(items, now) : i.token = token

ValueOf(items, token) == (CHOOSE i \in items : i.token = token).value

\* Mutant: a consumed token stays.
ConsumedLater(items, token, now) == Unexpired(items, now)

Consumed(items, token, now) == {i \in Unexpired(items, now) : i.token # token}
=============================================================================
