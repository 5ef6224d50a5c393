------------------------ MODULE ProductCache_proofs ------------------------
(***************************************************************************)
(* Theorems about ProductCache, for any products, clients and writes.      *)
(***************************************************************************)
EXTENDS ProductCache, TLAPS

\* A row read from the table has the type of a product, a list that of a list.
LEMMA ViewType ==
  ASSUME table \in [Ids -> Products \union {Unborn}]
  PROVE  /\ View("products") \in Lists
         /\ \A i \in Ids : View(i) \in Products
  BY CacheAssumption DEF CacheAssumption, View, Row, Lists, Products

\* The cache starts empty, without any request.
LEMMA InitIInv == ASSUME Init PROVE IInv
  <1> USE CacheAssumption DEF CacheAssumption, Init
  <1>1. TypeOK
    BY DEF TypeOK, StoresOK, RequestsOK, MarksOK, Products, Steps, Keys
  <1>2. FillsFresh /\ NothingUnborn /\ RemoversFit
    BY DEF FillsFresh, NothingUnborn, RemoversFit, Keys
  <1>3. StaleHasReason
    BY DEF StaleHasReason, Fresh
  <1> QED
    BY <1>1, <1>2, <1>3 DEF IInv

\* The table and the cache keep their types.
LEMMA NextStores ==
  ASSUME TypeOK, [Next]_cacheVars
  PROVE  StoresOK'
  <1> USE CacheAssumption DEF CacheAssumption, TypeOK, StoresOK, RequestsOK,
            MarksOK, Keys, Steps, Data, Products, tableVars, historyVars
  <1>1. ASSUME NEW c \in Clients, NEW k \in Keys, Get(c, k)
        PROVE  StoresOK'
    BY <1>1 DEF Get
  <1>2. ASSUME NEW c \in Clients, Lookup(c)
        PROVE  StoresOK'
    BY <1>2 DEF Lookup, Goto, End
  <1>3. ASSUME NEW c \in Clients, Query(c)
        PROVE  StoresOK'
    BY <1>3 DEF Query, End
  <1>4. ASSUME NEW c \in Clients, Fill(c)
        PROVE  StoresOK'
    BY <1>4 DEF Fill, End
  <1>5. ASSUME NEW c \in Clients, Write(c, "products", "Create")
        PROVE  StoresOK'
    BY <1>5 DEF Write
  <1>6. ASSUME NEW c \in Clients, NEW i \in Ids, Write(c, i, "Update")
        PROVE  StoresOK'
    BY <1>6 DEF Write
  <1>7. ASSUME NEW c \in Clients, NEW i \in Ids, Write(c, i, "Find")
        PROVE  StoresOK'
    BY <1>7 DEF Write
  <1>8. ASSUME NEW c \in Clients, Create(c)
        PROVE  StoresOK'
    BY <1>8 DEF Create, Commit, Goto, StaleKeys
  <1>9. ASSUME NEW c \in Clients, Update(c)
        PROVE  StoresOK'
    BY <1>9 DEF Update, Commit, Goto, StaleKeys
  <1>10. ASSUME NEW c \in Clients, Find(c)
        PROVE  StoresOK'
    BY <1>10 DEF Find, Goto, End
  <1>11. ASSUME NEW c \in Clients, Delete(c)
        PROVE  StoresOK'
    BY <1>11 DEF Delete, Commit, Goto, StaleKeys
  <1>12. ASSUME NEW c \in Clients, Remove(c)
        PROVE  StoresOK'
    BY <1>12 DEF Remove, Goto, End
  <1>13. ASSUME NEW c \in Clients, Fail(c)
        PROVE  StoresOK'
    BY <1>13 DEF Fail, End
  <1>14. ASSUME NEW k \in Keys, Expire(k)
        PROVE  StoresOK'
    BY <1>14 DEF Expire, MayExpire
  <1>15. CASE UNCHANGED cacheVars
    BY <1>15 DEF cacheVars
  <1> QED
    BY <1>1, <1>2, <1>3, <1>4, <1>5, <1>6, <1>7, <1>8,
       <1>9, <1>10, <1>11, <1>12, <1>13, <1>14, <1>15
       DEF Next, Request, Reading, Writing

\* The requests keep the types of their locals.
LEMMA NextRequests ==
  ASSUME TypeOK, [Next]_cacheVars
  PROVE  RequestsOK'
  <1> USE CacheAssumption DEF CacheAssumption, TypeOK, StoresOK, RequestsOK,
            MarksOK, Keys, Steps, Products, tableVars, historyVars
  <1>1. ASSUME NEW c \in Clients, NEW k \in Keys, Get(c, k)
        PROVE  RequestsOK'
    BY <1>1 DEF Get
  <1>2. ASSUME NEW c \in Clients, Lookup(c)
        PROVE  RequestsOK'
    BY <1>2 DEF Lookup, Goto, End
  <1>3. ASSUME NEW c \in Clients, Query(c)
        PROVE  RequestsOK'
    <2>1. View(arg[c]) \in Products \union Lists
      BY ViewType
    <2>2. View(arg[c]) # Absent => View(arg[c]) \in Data(arg[c])
      BY ViewType DEF Data
    <2>3. CASE View(arg[c]) = Absent
      BY <1>3, <2>3 DEF Query, End, Data
    <2>4. CASE View(arg[c]) # Absent
      BY <1>3, <2>1, <2>2, <2>4 DEF Query
    <2> QED
      BY <2>3, <2>4
  <1>4. ASSUME NEW c \in Clients, Fill(c)
        PROVE  RequestsOK'
    BY <1>4 DEF Fill, End
  <1>5. ASSUME NEW c \in Clients, Write(c, "products", "Create")
        PROVE  RequestsOK'
    BY <1>5 DEF Write
  <1>6. ASSUME NEW c \in Clients, NEW i \in Ids, Write(c, i, "Update")
        PROVE  RequestsOK'
    BY <1>6 DEF Write
  <1>7. ASSUME NEW c \in Clients, NEW i \in Ids, Write(c, i, "Find")
        PROVE  RequestsOK'
    BY <1>7 DEF Write
  <1>8. ASSUME NEW c \in Clients, Create(c)
        PROVE  RequestsOK'
    BY <1>8 DEF Create, Commit, Goto, StaleKeys
  <1>9. ASSUME NEW c \in Clients, Update(c)
        PROVE  RequestsOK'
    BY <1>9 DEF Update, Commit, Goto, StaleKeys
  <1>10. ASSUME NEW c \in Clients, Find(c)
        PROVE  RequestsOK'
    BY <1>10 DEF Find, Goto, End
  <1>11. ASSUME NEW c \in Clients, Delete(c)
        PROVE  RequestsOK'
    BY <1>11 DEF Delete, Commit, Goto, StaleKeys
  <1>12. ASSUME NEW c \in Clients, Remove(c)
        PROVE  RequestsOK'
    BY <1>12 DEF Remove, Goto, End
  <1>13. ASSUME NEW c \in Clients, Fail(c)
        PROVE  RequestsOK'
    BY <1>13 DEF Fail, End
  <1>14. ASSUME NEW k \in Keys, Expire(k)
        PROVE  RequestsOK'
    BY <1>14 DEF Expire, MayExpire
  <1>15. CASE UNCHANGED cacheVars
    BY <1>15 DEF cacheVars
  <1> QED
    BY <1>1, <1>2, <1>3, <1>4, <1>5, <1>6, <1>7, <1>8,
       <1>9, <1>10, <1>11, <1>12, <1>13, <1>14, <1>15
       DEF Next, Request, Reading, Writing

\* The keys to remove, the counter and the history keep their types.
LEMMA NextMarks ==
  ASSUME TypeOK, [Next]_cacheVars
  PROVE  MarksOK'
  <1> USE CacheAssumption DEF CacheAssumption, TypeOK, StoresOK, RequestsOK,
            MarksOK, Keys, Steps, tableVars, historyVars
  <1>1. ASSUME NEW c \in Clients, NEW k \in Keys, Get(c, k)
        PROVE  MarksOK'
    BY <1>1 DEF Get
  <1>2. ASSUME NEW c \in Clients, Lookup(c)
        PROVE  MarksOK'
    BY <1>2 DEF Lookup, Goto, End
  <1>3. ASSUME NEW c \in Clients, Query(c)
        PROVE  MarksOK'
    BY <1>3 DEF Query, End
  <1>4. ASSUME NEW c \in Clients, Fill(c)
        PROVE  MarksOK'
    BY <1>4 DEF Fill, End
  <1>5. ASSUME NEW c \in Clients, Write(c, "products", "Create")
        PROVE  MarksOK'
    BY <1>5 DEF Write
  <1>6. ASSUME NEW c \in Clients, NEW i \in Ids, Write(c, i, "Update")
        PROVE  MarksOK'
    BY <1>6 DEF Write
  <1>7. ASSUME NEW c \in Clients, NEW i \in Ids, Write(c, i, "Find")
        PROVE  MarksOK'
    BY <1>7 DEF Write
  <1>8. ASSUME NEW c \in Clients, Create(c)
        PROVE  MarksOK'
    BY <1>8 DEF Create, Commit, Goto, StaleKeys
  <1>9. ASSUME NEW c \in Clients, Update(c)
        PROVE  MarksOK'
    BY <1>9 DEF Update, Commit, Goto, StaleKeys
  <1>10. ASSUME NEW c \in Clients, Find(c)
        PROVE  MarksOK'
    BY <1>10 DEF Find, Goto, End
  <1>11. ASSUME NEW c \in Clients, Delete(c)
        PROVE  MarksOK'
    BY <1>11 DEF Delete, Commit, Goto, StaleKeys
  <1>12. ASSUME NEW c \in Clients, Remove(c)
        PROVE  MarksOK'
    BY <1>12 DEF Remove, Goto, End
  <1>13. ASSUME NEW c \in Clients, Fail(c)
        PROVE  MarksOK'
    BY <1>13 DEF Fail, End
  <1>14. ASSUME NEW k \in Keys, Expire(k)
        PROVE  MarksOK'
    BY <1>14 DEF Expire, MayExpire
  <1>15. CASE UNCHANGED cacheVars
    BY <1>15 DEF cacheVars
  <1> QED
    BY <1>1, <1>2, <1>3, <1>4, <1>5, <1>6, <1>7, <1>8,
       <1>9, <1>10, <1>11, <1>12, <1>13, <1>14, <1>15
       DEF Next, Request, Reading, Writing


\* Keys are left to remove only between a commit and the end of its request.
LEMMA NextRemovers ==
  ASSUME TypeOK, RemoversFit, [Next]_cacheVars
  PROVE  RemoversFit'
  <1> USE CacheAssumption DEF CacheAssumption, TypeOK, StoresOK, RequestsOK,
            MarksOK, RemoversFit, Keys, Steps, tableVars, historyVars
  <1>1. ASSUME NEW c \in Clients, NEW k \in Keys, Get(c, k)
        PROVE  RemoversFit'
    BY <1>1 DEF Get
  <1>2. ASSUME NEW c \in Clients, Lookup(c)
        PROVE  RemoversFit'
    BY <1>2 DEF Lookup, Goto, End
  <1>3. ASSUME NEW c \in Clients, Query(c)
        PROVE  RemoversFit'
    BY <1>3 DEF Query, End
  <1>4. ASSUME NEW c \in Clients, Fill(c)
        PROVE  RemoversFit'
    BY <1>4 DEF Fill, End
  <1>5. ASSUME NEW c \in Clients, Write(c, "products", "Create")
        PROVE  RemoversFit'
    BY <1>5 DEF Write
  <1>6. ASSUME NEW c \in Clients, NEW i \in Ids, Write(c, i, "Update")
        PROVE  RemoversFit'
    BY <1>6 DEF Write
  <1>7. ASSUME NEW c \in Clients, NEW i \in Ids, Write(c, i, "Find")
        PROVE  RemoversFit'
    BY <1>7 DEF Write
  <1>8. ASSUME NEW c \in Clients, Create(c)
        PROVE  RemoversFit'
    BY <1>8 DEF Create, Commit, Goto, StaleKeys
  <1>9. ASSUME NEW c \in Clients, Update(c)
        PROVE  RemoversFit'
    BY <1>9 DEF Update, Commit, Goto, StaleKeys
  <1>10. ASSUME NEW c \in Clients, Find(c)
        PROVE  RemoversFit'
    BY <1>10 DEF Find, Goto, End
  <1>11. ASSUME NEW c \in Clients, Delete(c)
        PROVE  RemoversFit'
    BY <1>11 DEF Delete, Commit, Goto, StaleKeys
  <1>12. ASSUME NEW c \in Clients, Remove(c)
        PROVE  RemoversFit'
    BY <1>12 DEF Remove, Goto, End
  <1>13. ASSUME NEW c \in Clients, Fail(c)
        PROVE  RemoversFit'
    BY <1>13 DEF Fail, End
  <1>14. ASSUME NEW k \in Keys, Expire(k)
        PROVE  RemoversFit'
    BY <1>14 DEF Expire, MayExpire
  <1>15. CASE UNCHANGED cacheVars
    BY <1>15 DEF cacheVars
  <1> QED
    BY <1>1, <1>2, <1>3, <1>4, <1>5, <1>6, <1>7, <1>8,
       <1>9, <1>10, <1>11, <1>12, <1>13, <1>14, <1>15
       DEF Next, Request, Reading, Writing

\* Nothing is cached or about to be for an id that does not exist yet.
LEMMA NextUnborn ==
  ASSUME TypeOK, NothingUnborn, [Next]_cacheVars
  PROVE  NothingUnborn'
  <1> USE CacheAssumption DEF CacheAssumption, TypeOK, StoresOK, RequestsOK,
            MarksOK, NothingUnborn, Keys, Steps, View, Row, Products, tableVars,
            historyVars
  <1>1. ASSUME NEW c \in Clients, NEW k \in Keys, Get(c, k)
        PROVE  NothingUnborn'
    BY <1>1 DEF Get
  <1>2. ASSUME NEW c \in Clients, Lookup(c)
        PROVE  NothingUnborn'
    BY <1>2 DEF Lookup, Goto, End
  <1>3. ASSUME NEW c \in Clients, Query(c)
        PROVE  NothingUnborn'
    BY <1>3 DEF Query, End
  <1>4. ASSUME NEW c \in Clients, Fill(c)
        PROVE  NothingUnborn'
    BY <1>4 DEF Fill, End
  <1>5. ASSUME NEW c \in Clients, Write(c, "products", "Create")
        PROVE  NothingUnborn'
    BY <1>5 DEF Write
  <1>6. ASSUME NEW c \in Clients, NEW i \in Ids, Write(c, i, "Update")
        PROVE  NothingUnborn'
    BY <1>6 DEF Write
  <1>7. ASSUME NEW c \in Clients, NEW i \in Ids, Write(c, i, "Find")
        PROVE  NothingUnborn'
    BY <1>7 DEF Write
  <1>8. ASSUME NEW c \in Clients, Create(c)
        PROVE  NothingUnborn'
    BY <1>8 DEF Create, Commit, Goto, StaleKeys
  <1>9. ASSUME NEW c \in Clients, Update(c)
        PROVE  NothingUnborn'
    BY <1>9 DEF Update, Commit, Goto, StaleKeys
  <1>10. ASSUME NEW c \in Clients, Find(c)
        PROVE  NothingUnborn'
    BY <1>10 DEF Find, Goto, End
  <1>11. ASSUME NEW c \in Clients, Delete(c)
        PROVE  NothingUnborn'
    BY <1>11 DEF Delete, Commit, Goto, StaleKeys
  <1>12. ASSUME NEW c \in Clients, Remove(c)
        PROVE  NothingUnborn'
    BY <1>12 DEF Remove, Goto, End
  <1>13. ASSUME NEW c \in Clients, Fail(c)
        PROVE  NothingUnborn'
    BY <1>13 DEF Fail, End
  <1>14. ASSUME NEW k \in Keys, Expire(k)
        PROVE  NothingUnborn'
    BY <1>14 DEF Expire, MayExpire
  <1>15. CASE UNCHANGED cacheVars
    BY <1>15 DEF cacheVars
  <1> QED
    BY <1>1, <1>2, <1>3, <1>4, <1>5, <1>6, <1>7, <1>8,
       <1>9, <1>10, <1>11, <1>12, <1>13, <1>14, <1>15
       DEF Next, Request, Reading, Writing

\* A read in flight equals the table or has been overtaken.
LEMMA NextFills ==
  ASSUME TypeOK, FillsFresh, [Next]_cacheVars
  PROVE  FillsFresh'
  <1> USE CacheAssumption DEF CacheAssumption, TypeOK, StoresOK, RequestsOK,
            MarksOK, FillsFresh, Keys, Steps, View, Row, tableVars, historyVars
  <1>1. ASSUME NEW c \in Clients, NEW k \in Keys, Get(c, k)
        PROVE  FillsFresh'
    BY <1>1 DEF Get
  <1>2. ASSUME NEW c \in Clients, Lookup(c)
        PROVE  FillsFresh'
    BY <1>2 DEF Lookup, Goto, End
  <1>3. ASSUME NEW c \in Clients, Query(c)
        PROVE  FillsFresh'
    BY <1>3 DEF Query, End
  <1>4. ASSUME NEW c \in Clients, Fill(c)
        PROVE  FillsFresh'
    BY <1>4 DEF Fill, End
  <1>5. ASSUME NEW c \in Clients, Write(c, "products", "Create")
        PROVE  FillsFresh'
    BY <1>5 DEF Write
  <1>6. ASSUME NEW c \in Clients, NEW i \in Ids, Write(c, i, "Update")
        PROVE  FillsFresh'
    BY <1>6 DEF Write
  <1>7. ASSUME NEW c \in Clients, NEW i \in Ids, Write(c, i, "Find")
        PROVE  FillsFresh'
    BY <1>7 DEF Write
  <1>8. ASSUME NEW c \in Clients, Create(c)
        PROVE  FillsFresh'
    BY <1>8 DEF Create, Commit, Goto, StaleKeys
  <1>9. ASSUME NEW c \in Clients, Update(c)
        PROVE  FillsFresh'
    BY <1>9 DEF Update, Commit, Goto, StaleKeys
  <1>10. ASSUME NEW c \in Clients, Find(c)
        PROVE  FillsFresh'
    BY <1>10 DEF Find, Goto, End
  <1>11. ASSUME NEW c \in Clients, Delete(c)
        PROVE  FillsFresh'
    BY <1>11 DEF Delete, Commit, Goto, StaleKeys
  <1>12. ASSUME NEW c \in Clients, Remove(c)
        PROVE  FillsFresh'
    BY <1>12 DEF Remove, Goto, End
  <1>13. ASSUME NEW c \in Clients, Fail(c)
        PROVE  FillsFresh'
    BY <1>13 DEF Fail, End
  <1>14. ASSUME NEW k \in Keys, Expire(k)
        PROVE  FillsFresh'
    BY <1>14 DEF Expire, MayExpire
  <1>15. CASE UNCHANGED cacheVars
    BY <1>15 DEF cacheVars
  <1> QED
    BY <1>1, <1>2, <1>3, <1>4, <1>5, <1>6, <1>7, <1>8,
       <1>9, <1>10, <1>11, <1>12, <1>13, <1>14, <1>15
       DEF Next, Request, Reading, Writing

\* No step leaves a stale entry without its reason.
LEMMA NextStale ==
  ASSUME IInv, [Next]_cacheVars
  PROVE  StaleHasReason'
  <1> USE CacheAssumption DEF CacheAssumption, IInv, TypeOK, StoresOK, RequestsOK,
            MarksOK, FillsFresh, NothingUnborn, RemoversFit, StaleHasReason, Fresh,
            Pending, Keys, Steps, View, Row, tableVars, historyVars
  <1>1. ASSUME NEW c \in Clients, NEW k \in Keys, Get(c, k)
        PROVE  StaleHasReason'
    BY <1>1 DEF Get
  <1>2. ASSUME NEW c \in Clients, Lookup(c)
        PROVE  StaleHasReason'
    BY <1>2 DEF Lookup, Goto, End
  <1>3. ASSUME NEW c \in Clients, Query(c)
        PROVE  StaleHasReason'
    BY <1>3 DEF Query, End
  <1>4. ASSUME NEW c \in Clients, Fill(c)
        PROVE  StaleHasReason'
    BY <1>4 DEF Fill, End
  <1>5. ASSUME NEW c \in Clients, Write(c, "products", "Create")
        PROVE  StaleHasReason'
    BY <1>5 DEF Write
  <1>6. ASSUME NEW c \in Clients, NEW i \in Ids, Write(c, i, "Update")
        PROVE  StaleHasReason'
    BY <1>6 DEF Write
  <1>7. ASSUME NEW c \in Clients, NEW i \in Ids, Write(c, i, "Find")
        PROVE  StaleHasReason'
    BY <1>7 DEF Write
  <1>8. ASSUME NEW c \in Clients, Create(c)
        PROVE  StaleHasReason'
    BY <1>8 DEF Create, Commit, Goto, StaleKeys
  <1>9. ASSUME NEW c \in Clients, Update(c)
        PROVE  StaleHasReason'
    BY <1>9 DEF Update, Commit, Goto, StaleKeys
  <1>10. ASSUME NEW c \in Clients, Find(c)
        PROVE  StaleHasReason'
    BY <1>10 DEF Find, Goto, End
  <1>11. ASSUME NEW c \in Clients, Delete(c)
        PROVE  StaleHasReason'
    BY <1>11 DEF Delete, Commit, Goto, StaleKeys
  <1>12. ASSUME NEW c \in Clients, Remove(c)
        PROVE  StaleHasReason'
    BY <1>12 DEF Remove, Goto, End
  <1>13. ASSUME NEW c \in Clients, Fail(c)
        PROVE  StaleHasReason'
    BY <1>13 DEF Fail, End
  <1>14. ASSUME NEW k \in Keys, Expire(k)
        PROVE  StaleHasReason'
    BY <1>14 DEF Expire, MayExpire
  <1>15. CASE UNCHANGED cacheVars
    BY <1>15 DEF cacheVars
  <1> QED
    BY <1>1, <1>2, <1>3, <1>4, <1>5, <1>6, <1>7, <1>8,
       <1>9, <1>10, <1>11, <1>12, <1>13, <1>14, <1>15
       DEF Next, Request, Reading, Writing

-----------------------------------------------------------------------------

\* The inductive invariant of the product cache holds in every reachable state.
THEOREM CacheInvariant == Spec => []IInv
  <1>1. Init => IInv
    BY InitIInv
  <1>2. IInv /\ [Next]_cacheVars => IInv'
    BY NextStores, NextRequests, NextMarks, NextRemovers, NextUnborn,
       NextFills, NextStale DEF IInv, TypeOK
  <1> QED
    BY <1>1, <1>2, PTL DEF Spec

\* A cache entry that differs from the table is about to be removed, or was left by
\* a failed writer or an overtaken read.
THEOREM StaleIsAccounted == Spec => []StaleHasReason
  <1>1. IInv => StaleHasReason
    BY DEF IInv
  <1> QED
    BY <1>1, CacheInvariant, PTL

-----------------------------------------------------------------------------
(* What keeps the cache in step once it is *)

\* A read that no commit has overtaken fills in what the table holds; every other step
\* without a commit leaves an entry alone or removes it.
LEMMA ConvergedStays ==
  ASSUME IInv, Converged, [Next]_cacheVars,
         \A c \in Clients : ~(Create(c) \/ Update(c) \/ Delete(c))
  PROVE  Converged'
  <1> USE DEF IInv, TypeOK, StoresOK, RequestsOK, MarksOK, Converged, Fresh, View, Row,
              Keys, tableVars, historyVars
  <1>1. ASSUME NEW c \in Clients, Fill(c)
        PROVE  Converged'
    BY <1>1 DEF Fill, End, FillsFresh
  <1>2. ASSUME NEW c \in Clients, Remove(c)
        PROVE  Converged'
    BY <1>2 DEF Remove, Goto, End
  <1>3. ASSUME NEW k \in Keys, Expire(k)
        PROVE  Converged'
    BY <1>3 DEF Expire
  <1>4. ASSUME NEW c \in Clients, Fail(c)
        PROVE  Converged'
    BY <1>4 DEF Fail
  <1>5. ASSUME NEW c \in Clients, Request(c) \/ Lookup(c) \/ Query(c) \/ Find(c)
        PROVE  Converged'
    BY <1>5 DEF Request, Get, Write, Lookup, Query, Find
  <1>6. CASE UNCHANGED cacheVars
    BY <1>6 DEF cacheVars
  <1> QED
    BY <1>1, <1>2, <1>3, <1>4, <1>5, <1>6 DEF Next, Reading, Writing

\* Once the cache agrees with the table, with no overtaken read in flight, only another
\* commit of Create, Update or Delete ends that.
THEOREM AgreementLasts == Spec => OnlyCommitsStale
  <1> DEFINE Commits == \E c \in Clients : Create(c) \/ Update(c) \/ Delete(c)
  <1>1. IInv /\ [Next]_cacheVars => [Converged => Converged' \/ Commits]_cacheVars
    BY ConvergedStays
  <1> QED
    BY <1>1, CacheInvariant, PTL DEF Spec, OnlyCommitsStale

=============================================================================
