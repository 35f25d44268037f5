----------------------------- MODULE ColumnLocks -----------------------------
(***************************************************************************)
(* What the lock table of the Pessimistic strategy promises, without its   *)
(* counters: a transaction that begins gets every column of its access     *)
(* set that exists at that moment, or it gets none, and it is turned away  *)
(* only when a column it wants is really held in a conflicting mode.       *)
(*                                                                         *)
(* A column is a pair <<archetype, component>>.  Reads are shared, writes  *)
(* are exclusive, and a component in both sets is exclusive.               *)
(***************************************************************************)
CONSTANTS Txs, Archetypes, Components, AccessSets, NoAccess

VARIABLES
  columns,   \* the columns of the archetypes created so far
  status,    \* status[t]: "idle", "asking", "locked" (ready) or "unready"
  want,      \* want[t]: the Access of the transaction t is in
  sharedOf,  \* sharedOf[t]: the columns t holds in shared mode
  exclOf     \* exclOf[t]: the columns t holds in exclusive mode

absVars == <<columns, status, want, sharedOf, exclOf>>

Shared(acc) == {col \in columns : col[2] \in acc.reads \ acc.writes}
Exclusive(acc) == {col \in columns : col[2] \in acc.writes}

(* Some transaction stands in the way of the access acc.                   *)
Contended(acc) ==
  \E t \in Txs : \/ exclOf[t] \cap (Shared(acc) \cup Exclusive(acc)) # {}
                 \/ sharedOf[t] \cap Exclusive(acc) # {}

AbsInit ==
  /\ columns = {}
  /\ status = [t \in Txs |-> "idle"]
  /\ want = [t \in Txs |-> NoAccess]
  /\ sharedOf = [t \in Txs |-> {}]
  /\ exclOf = [t \in Txs |-> {}]

AbsNewArchetype ==
  /\ \A t \in Txs : status[t] # "asking"
  /\ \E a \in Archetypes, cs \in SUBSET Components :
       columns' = columns \cup ({a} \X cs)
  /\ UNCHANGED <<status, want, sharedOf, exclOf>>

AbsAsk(t) ==
  /\ status[t] = "idle"
  /\ \E acc \in AccessSets : want' = [want EXCEPT ![t] = acc]
  /\ status' = [status EXCEPT ![t] = "asking"]
  /\ UNCHANGED <<columns, sharedOf, exclOf>>

AbsAcquire(t) ==
  /\ status[t] = "asking"
  /\ ~Contended(want[t])
  /\ status' = [status EXCEPT ![t] = "locked"]
  /\ sharedOf' = [sharedOf EXCEPT ![t] = Shared(want[t])]
  /\ exclOf' = [exclOf EXCEPT ![t] = Exclusive(want[t])]
  /\ UNCHANGED <<columns, want>>

AbsDeny(t) ==
  /\ status[t] = "asking"
  /\ Contended(want[t])
  /\ status' = [status EXCEPT ![t] = "unready"]
  /\ UNCHANGED <<columns, want, sharedOf, exclOf>>

AbsRelease(t) ==
  /\ status[t] = "locked"
  /\ status' = [status EXCEPT ![t] = "idle"]
  /\ want' = [want EXCEPT ![t] = NoAccess]
  /\ sharedOf' = [sharedOf EXCEPT ![t] = {}]
  /\ exclOf' = [exclOf EXCEPT ![t] = {}]
  /\ UNCHANGED columns

AbsGiveUp(t) ==
  /\ status[t] = "unready"
  /\ status' = [status EXCEPT ![t] = "idle"]
  /\ want' = [want EXCEPT ![t] = NoAccess]
  /\ UNCHANGED <<columns, sharedOf, exclOf>>

AbsNext ==
  \/ AbsNewArchetype
  \/ \E t \in Txs : \/ AbsAsk(t) \/ AbsAcquire(t) \/ AbsDeny(t)
                    \/ AbsRelease(t) \/ AbsGiveUp(t)

AbsSpec == AbsInit /\ [][AbsNext]_absVars
=============================================================================
