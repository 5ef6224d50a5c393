---------------------------- MODULE ProductCache ----------------------------
(***************************************************************************)
(* "Redis": a product table with a cache in front of it (ProductService).  *)
(* GetAll and GetById are cache-aside: on a miss they query the table and  *)
(* later put what they read into the cache.  Create, Update and Delete     *)
(* change the table and then remove the keys they made stale.  Nothing     *)
(* ties the two stores together, and requests run concurrently.            *)
(*                                                                         *)
(* Each call of either store is atomic.  A product is one of a few values; *)
(* ids are IDENTITY values and never reused.                               *)
(***************************************************************************)
EXTENDS Integers

CONSTANTS
  Ids,
  Values,
  Absent,      \* no row, no cache entry
  Unborn,      \* an id that IDENTITY has not reached
  Clients,
  MaxWrites    \* bound: Create, Update and Delete requests

ASSUME CacheAssumption ==
  /\ {Absent, Unborn} \intersect Values = {}
  /\ Absent # Unborn
  /\ "products" \notin Ids
  /\ MaxWrites \in Nat

VARIABLES
  table,      \* the Products table
  cache,      \* the cache entries
  pc,         \* what the request of each client does next
  arg,        \* the key it reads, or the id it writes
  read,       \* what it read from the table
  toRemove,   \* the keys its commit made stale and it has not removed yet
  writes,     \* write requests so far
  raced,      \* history: clients whose read a commit has overtaken
  suspect,    \* history: keys filled from such a read
  abandoned   \* history: keys that were changed by a request that then failed

tableVars   == <<table, writes>>
historyVars == <<raced, suspect, abandoned>>
cacheVars   == <<tableVars, cache, pc, arg, read, toRemove, historyVars>>

\* "products" is the key of the list, an id that of the product.
Keys == Ids \union {"products"}

Products == Values \union {Absent}
Lists    == [Ids -> Products]
Steps    == {"Idle", "Lookup", "Query", "Fill", "Create", "Update", "Find", "Delete", "Remove"}

\* What may be cached under a key.
Data(k) == IF k = "products" THEN Lists ELSE Values

StoresOK ==
  /\ table \in [Ids -> Products \union {Unborn}]
  /\ cache \in [Keys -> Products \union Lists]
  /\ \A k \in Keys : cache[k] \in Data(k) \union {Absent}

RequestsOK ==
  /\ pc \in [Clients -> Steps]
  /\ arg \in [Clients -> Keys]
  /\ \A c \in Clients : pc[c] \in {"Update", "Find", "Delete"} => arg[c] \in Ids
  /\ read \in [Clients -> Products \union Lists]
  /\ \A c \in Clients : pc[c] = "Fill" => read[c] \in Data(arg[c])

MarksOK ==
  /\ toRemove \in [Clients -> SUBSET Keys]
  /\ writes \in 0..MaxWrites
  /\ raced \subseteq Clients
  /\ suspect \subseteq Keys
  /\ abandoned \subseteq Keys

TypeOK == StoresOK /\ RequestsOK /\ MarksOK

Init ==
  /\ table \in [Ids -> Values \union {Unborn}]
  /\ cache = [k \in Keys |-> Absent]
  /\ pc = [c \in Clients |-> "Idle"]
  /\ arg = [c \in Clients |-> "products"]
  /\ read = [c \in Clients |-> Absent]
  /\ toRemove = [c \in Clients |-> {}]
  /\ writes = 0
  /\ raced = {}
  /\ suspect = {}
  /\ abandoned = {}

\* The request of c goes on, or ends and drops its locals.
Goto(c, step) == pc' = [pc EXCEPT ![c] = step] /\ UNCHANGED <<arg, read>>

End(c) ==
  /\ pc' = [pc EXCEPT ![c] = "Idle"]
  /\ arg' = [arg EXCEPT ![c] = "products"]
  /\ read' = [read EXCEPT ![c] = Absent]

Row(i) == IF table[i] = Unborn THEN Absent ELSE table[i]

\* What the table holds for a key now.
View(k) == IF k = "products" THEN [i \in Ids |-> Row(i)] ELSE Row(k)

-----------------------------------------------------------------------------
(* GetAll and GetById *)

Get(c, k) ==
  /\ pc[c] = "Idle"
  /\ arg' = [arg EXCEPT ![c] = k]
  /\ pc' = [pc EXCEPT ![c] = "Lookup"]
  /\ UNCHANGED <<tableVars, cache, read, toRemove, historyVars>>

\* GetAsync: a hit is the answer.
Lookup(c) ==
  /\ pc[c] = "Lookup"
  /\ IF cache[arg[c]] = Absent THEN Goto(c, "Query") ELSE End(c)
  /\ UNCHANGED <<tableVars, cache, toRemove, historyVars>>

\* The repository: a product that is not there is not cached, an empty list is.
Query(c) ==
  /\ pc[c] = "Query"
  /\ IF View(arg[c]) = Absent
     THEN End(c)
     ELSE /\ pc' = [pc EXCEPT ![c] = "Fill"]
          /\ read' = [read EXCEPT ![c] = View(arg[c])]
          /\ UNCHANGED arg
  /\ UNCHANGED <<tableVars, cache, toRemove, historyVars>>

\* SetAsync, which overwrites.
Fill(c) ==
  LET k == arg[c] IN
  /\ pc[c] = "Fill"
  /\ cache' = [cache EXCEPT ![k] = read[c]]
  /\ suspect' = IF c \in raced THEN suspect \union {k} ELSE suspect \ {k}
  /\ abandoned' = abandoned \ {k}
  /\ raced' = raced \ {c}
  /\ End(c)
  /\ UNCHANGED <<tableVars, toRemove>>

-----------------------------------------------------------------------------
(* Create, Update and Delete *)

Write(c, k, step) ==
  /\ pc[c] = "Idle"
  /\ writes < MaxWrites
  /\ writes' = writes + 1
  /\ arg' = [arg EXCEPT ![c] = k]
  /\ pc' = [pc EXCEPT ![c] = step]
  /\ UNCHANGED <<table, cache, read, toRemove, historyVars>>

\* SaveChangesAsync commits a row; fills in flight that read it are overtaken.
Commit(c, i, row, keys) ==
  /\ table' = [table EXCEPT ![i] = row]
  /\ raced' = raced \union {r \in Clients : pc[r] = "Fill" /\ arg[r] \in {"products", i}}
  /\ toRemove' = [toRemove EXCEPT ![c] = keys]
  /\ Goto(c, "Remove")
  /\ UNCHANGED <<cache, writes, suspect, abandoned>>

StaleKeysOfItem(i) == {i}

\* The keys Update and Delete remove; Create removes the list only.
StaleKeys(i) == {"products", i}

\* Create, or an Update without an id, which EF inserts; it removes the new key too.
Create(c) ==
  /\ pc[c] = "Create"
  /\ \E i \in Ids, v \in Values :
       /\ table[i] = Unborn
       /\ \E keys \in {{"products"}, StaleKeys(i)} : Commit(c, i, v, keys)

\* The whole row is written; without it EF throws.
Update(c) ==
  /\ pc[c] = "Update"
  /\ table[arg[c]] \in Values
  /\ \E v \in Values : Commit(c, arg[c], v, StaleKeys(arg[c]))

\* FindAsync: without the row the answer is false, and nothing is removed.
Find(c) ==
  /\ pc[c] = "Find"
  /\ IF table[arg[c]] \in Values THEN Goto(c, "Delete") ELSE End(c)
  /\ UNCHANGED <<tableVars, cache, toRemove, historyVars>>

Delete(c) ==
  /\ pc[c] = "Delete"
  /\ table[arg[c]] \in Values
  /\ Commit(c, arg[c], Absent, StaleKeys(arg[c]))

\* RemoveAsync, one key at a time and the list first.
Remove(c) ==
  /\ pc[c] = "Remove"
  /\ \E k \in toRemove[c] :
       /\ k = "products" \/ "products" \notin toRemove[c]
       /\ cache' = [cache EXCEPT ![k] = Absent]
       /\ toRemove' = [toRemove EXCEPT ![c] = @ \ {k}]
       /\ suspect' = suspect \ {k}
       /\ abandoned' = abandoned \ {k}
       /\ IF toRemove[c] = {k} THEN End(c) ELSE Goto(c, "Remove")
  /\ UNCHANGED <<tableVars, raced>>

\* A store throws (for Update and Delete also because the row is gone), the client
\* disconnects or the process dies.
Fail(c) ==
  /\ pc[c] # "Idle"
  /\ abandoned' = abandoned \union toRemove[c]
  /\ toRemove' = [toRemove EXCEPT ![c] = {}]
  /\ raced' = raced \ {c}
  /\ End(c)
  /\ UNCHANGED <<tableVars, cache, suspect>>

NeverExpires(k) == FALSE

\* AbsoluteExpirationRelativeToNow: reading an entry does not prolong its life.
MayExpire(k) == cache[k] # Absent

Expire(k) ==
  /\ MayExpire(k)
  /\ cache' = [cache EXCEPT ![k] = Absent]
  /\ suspect' = suspect \ {k}
  /\ abandoned' = abandoned \ {k}
  /\ UNCHANGED <<tableVars, pc, arg, read, toRemove, raced>>

-----------------------------------------------------------------------------

Request(c) ==
  \/ \E k \in Keys : Get(c, k)
  \/ Write(c, "products", "Create")
  \/ \E i \in Ids : Write(c, i, "Update") \/ Write(c, i, "Find")

Reading(c) == Lookup(c) \/ Query(c) \/ Fill(c)

Writing(c) == Create(c) \/ Update(c) \/ Find(c) \/ Delete(c) \/ Remove(c)

Next ==
  \/ \E c \in Clients : Request(c) \/ Reading(c) \/ Writing(c) \/ Fail(c)
  \/ \E k \in Keys : Expire(k)

Spec == Init /\ [][Next]_cacheVars

\* Requests that were accepted are run to their end, and Redis expires its entries.
Fairness ==
  /\ \A c \in Clients : WF_cacheVars(Reading(c)) /\ WF_cacheVars(Writing(c))
  /\ \A k \in Keys : WF_cacheVars(Expire(k))

FairSpec == Spec /\ Fairness

-----------------------------------------------------------------------------
(* Properties *)

Fresh(k) == cache[k] \in {Absent, View(k)}

Pending(k) == \E c \in Clients : k \in toRemove[c]

\* An entry differs from the table only while the writer that changed it is about to
\* remove it, after that writer failed, or when it was filled from a read that a
\* commit had overtaken: the window cache-aside leaves between GetById and SetAsync.
StaleHasReason == \A k \in Keys : Fresh(k) \/ Pending(k) \/ k \in suspect \union abandoned

\* No reason is left for an entry that differs from the table.
Converged == raced = {} /\ \A k \in Keys : Fresh(k)

\* Only a commit can make the two disagree again: no read, refill, expiry, failure or
\* late removal does.
OnlyCommitsStale ==
  [][Converged => Converged' \/ \E c \in Clients : Create(c) \/ Update(c) \/ Delete(c)]_cacheVars

\* Whatever races and failures left in the cache, five minutes without writes are
\* enough: it then agrees with the table, and stays so although reads refill it.
EventuallyFresh == <>[]Converged

-----------------------------------------------------------------------------
(* The inductive invariant behind the safety property *)

\* What a client is about to fill in is what the table holds, unless it was overtaken.
FillsFresh ==
  \A c \in Clients : pc[c] = "Fill" /\ c \notin raced => read[c] = View(arg[c])

\* Nothing is cached, or about to be, for an id that does not exist yet.
NothingUnborn ==
  \A i \in Ids : table[i] = Unborn =>
    /\ cache[i] = Absent
    /\ \A c \in Clients : ~(pc[c] = "Fill" /\ arg[c] = i)

\* Only a writer past its commit has keys to remove.
RemoversFit ==
  \A c \in Clients : toRemove[c] # {} => pc[c] = "Remove"

IInv ==
  /\ TypeOK
  /\ FillsFresh
  /\ NothingUnborn
  /\ RemoversFit
  /\ StaleHasReason

=============================================================================
