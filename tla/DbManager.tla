----------------------------- MODULE DbManager -----------------------------
(***************************************************************************)
(* av/pva/persistence DBManager: the open databases, one per channel, with *)
(* the time each was last asked for.  GetDB looks under the read lock and  *)
(* goes on under the write lock; a full table evicts what is idle.  The    *)
(* lock is free between the two, and a database's age is "new" or "idle".  *)
(***************************************************************************)
EXTENDS Integers, FiniteSets

CONSTANTS Callers, Channels, NoDb,
          Threshold,              \* evictionThreshold
          MaxOpens

VARIABLES dbs, lastAccess,        \* DBManager
          open,                   \* handles [n, ch] that are open
          call,                   \* call[c]: the GetDB of c
          opens                   \* handles opened
dbVars == <<dbs, lastAccess, open, call, opens>>

NoCall == [pc |-> "idle", ch |-> NoDb, db |-> NoDb]
Init == /\ dbs = [ch \in Channels |-> NoDb] /\ lastAccess = [ch \in Channels |-> "none"]
        /\ open = {} /\ call = [c \in Callers |-> NoCall] /\ opens = 0

\* The read lock.
Look(c, ch) == /\ call[c].pc = "idle"
               /\ call' = [call EXCEPT ![c] = [pc |-> "locked", ch |-> ch, db |-> dbs[ch]]]
               /\ UNCHANGED <<dbs, lastAccess, open, opens>>
\* Found: touch it and return it.
Touch(c) == /\ call[c].pc = "locked" /\ call[c].db # NoDb
            /\ lastAccess' = [lastAccess EXCEPT ![call[c].ch] = "new"]
            /\ call' = [call EXCEPT ![c] = NoCall]
            /\ UNCHANGED <<dbs, open, opens>>

\* evictIdleLocked.
Idle == {ch \in Channels : lastAccess[ch] = "idle"}
Count == Cardinality({ch \in Channels : dbs[ch] # NoDb})
Evicted == IF Count >= Threshold THEN Idle ELSE {}

\* Not found: look again under the write lock, then evict and open.
Found_NoDoubleCheck(ch) == FALSE
Found(ch) == dbs[ch] # NoDb
Locked(c, ok) ==
  LET ch == call[c].ch
      db == [n |-> opens + 1, ch |-> ch]
      kept == [x \in Channels |-> IF x \in Evicted THEN NoDb ELSE dbs[x]]
      seen == [x \in Channels |-> IF x \in Evicted THEN "none" ELSE lastAccess[x]]
  IN  /\ call[c].pc = "locked" /\ call[c].db = NoDb /\ opens < MaxOpens
      /\ call' = [call EXCEPT ![c] = NoCall]
      /\ \/ /\ Found(ch)
            /\ lastAccess' = [lastAccess EXCEPT ![ch] = "new"]
            /\ UNCHANGED <<dbs, open, opens>>
         \/ /\ ~Found(ch) /\ opens' = opens + 1
            /\ dbs' = IF ok THEN [kept EXCEPT ![ch] = db] ELSE kept
            /\ lastAccess' = IF ok THEN [seen EXCEPT ![ch] = "new"] ELSE seen
            /\ open' = {d \in open : d \notin {dbs[x] : x \in Evicted}} \cup (IF ok THEN {db} ELSE {})

\* Ten minutes pass without a call for the channel.
Age(ch) == /\ lastAccess[ch] = "new"
           /\ lastAccess' = [lastAccess EXCEPT ![ch] = "idle"]
           /\ UNCHANGED <<dbs, open, call, opens>>

Close == /\ \E ch \in Channels : dbs[ch] # NoDb
         /\ dbs' = [ch \in Channels |-> NoDb] /\ open' = {}
         /\ UNCHANGED <<lastAccess, call, opens>>

Next == \/ \E c \in Callers : \/ \E ch \in Channels : Look(c, ch)
                              \/ Touch(c) \/ \E ok \in BOOLEAN : Locked(c, ok)
        \/ \E ch \in Channels : Age(ch)
        \/ Close

Spec == Init /\ [][Next]_dbVars

-----------------------------------------------------------------------------
\* The manager reaches every open database: each is the one of its channel, and
\* has a last access, so that it can be evicted.
OpenIsManaged == /\ open = {dbs[ch] : ch \in Channels} \ {NoDb}
                 /\ \A ch \in Channels : dbs[ch] # NoDb => lastAccess[ch] # "none"
=============================================================================
