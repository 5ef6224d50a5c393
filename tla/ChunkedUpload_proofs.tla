------------------------ MODULE ChunkedUpload_proofs ------------------------
(***************************************************************************)
(* Theorems about ChunkedUpload, for any number of chunks, upload and      *)
(* merge requests.                                                         *)
(***************************************************************************)
EXTENDS ChunkedUpload, FiniteSetTheorems, TLAPS

\* Rows are chunks, so counting N of them means having them all.
LEMMA RowsCounted ==
  ASSUME rows \subseteq Chunks
  PROVE  /\ Cardinality(rows) \in 0..N
         /\ Cardinality(rows) >= N => rows = Chunks
         /\ \A i \in Chunks \ rows : Cardinality(rows \union {i}) = Cardinality(rows) + 1
  <1>1. IsFiniteSet(Chunks) /\ Cardinality(Chunks) = N
    BY UploadAssumption, FS_Interval DEF UploadAssumption, Chunks
  <1>2. IsFiniteSet(rows) /\ Cardinality(rows) <= N /\ (Cardinality(rows) = N => rows = Chunks)
    BY <1>1, FS_Subset
  <1>3. Cardinality(rows) \in Nat
    BY <1>2, FS_CardinalityType
  <1>4. \A i \in Chunks \ rows : Cardinality(rows \union {i}) = Cardinality(rows) + 1
    BY <1>2, FS_AddElement
  <1> QED
    BY <1>2, <1>3, <1>4, UploadAssumption DEF UploadAssumption

\* The chunk files of the client's chunks and of the merge loop.
LEMMA IndexesFit == Chunks \subseteq Int /\ 1..N \subseteq Indexes
  BY UploadAssumption DEF UploadAssumption, Chunks, Indexes

\* What the transaction of UploadChunkV2 does to both tables.
LEMMA CommitCounts ==
  ASSUME TypeOK, CopiesBelowRows, NEW u \in Uploads, Commit(u)
  PROVE  /\ rows' \subseteq Chunks /\ rows \subseteq rows'
         /\ Cardinality(rows) \in 0..N
         /\ Cardinality(rows') \in 0..N
         /\ Cardinality(rows') = Cardinality(rows) + 1
         /\ entity' \in Entities
         /\ entity'.uploaded = copy[u].uploaded + 1
         /\ entity'.uploaded <= Cardinality(rows')
  <1> USE DEF TypeOK
  <1>1. /\ rows' = rows \union {chunk[u]} /\ chunk[u] \in Chunks \ rows
        /\ entity' = [copy[u] EXCEPT !.uploaded = copy[u].uploaded + 1]
    BY DEF Commit, Insertable
  <1>2. Cardinality(rows) \in 0..N /\ Cardinality(rows') = Cardinality(rows) + 1
    BY <1>1, RowsCounted
  <1>3. IsFiniteSet(Chunks) /\ Cardinality(Chunks) = N
    BY UploadAssumption, FS_Interval DEF UploadAssumption, Chunks
  <1>4. rows' \subseteq Chunks /\ Cardinality(rows') <= N
    BY <1>1, <1>3, FS_Subset
  <1>5. copy[u] \in Entities /\ copy[u].uploaded <= Cardinality(rows)
    BY DEF CopiesBelowRows
  <1>6. copy[u].uploaded \in Nat /\ copy[u].uploaded + 1 \in 0..N
    BY <1>2, <1>4, <1>5, UploadAssumption DEF Entities, UploadAssumption
  <1>7. entity'.uploaded = copy[u].uploaded + 1 /\ entity' \in Entities
    BY <1>1, <1>5, <1>6 DEF Entities
  <1> QED
    BY <1>1, <1>2, <1>4, <1>5, <1>6, <1>7, UploadAssumption DEF UploadAssumption

\* What one round of the merge loop copies.
LEMMA CopyStep ==
  ASSUME TypeOK, NEW m \in Merges, CopyChunk(m)
  PROVE  LET i == Len(out[m]) + 1 IN
         /\ i \in 1..N /\ i \in Indexes
         /\ file[i] \in {"part", "whole"}
         /\ out' \in [Merges -> Seq({"part", "whole"})]
         /\ \A k \in Merges \ {m} : out'[k] = out[k]
         /\ Len(out'[m]) = i /\ out'[m] # <<>>
         /\ DOMAIN out'[m] = DOMAIN out[m] \union {i}
         /\ \A j \in DOMAIN out[m] : out'[m][j] = out[m][j]
         /\ out'[m][i] = file[i]
         /\ mpc' = [mpc EXCEPT ![m] = "Copied"]
         /\ mpc[m] = "Copying"
         /\ UNCHANGED <<entity, rows, folder, file, pc, chunk, copy, final, rewritten>>
  <1> DEFINE i == Len(out[m]) + 1
  <1>1. /\ mpc[m] = "Copying" /\ i <= N /\ file[i] # "absent"
        /\ out' = [out EXCEPT ![m] = Append(out[m], file[i])]
        /\ mpc' = [mpc EXCEPT ![m] = "Copied"]
        /\ UNCHANGED <<entity, rows, folder, file, pc, chunk, copy, final, rewritten>>
    BY DEF CopyChunk, MoreChunks, NextChunk, MGoto
  <1>2. out \in [Merges -> Seq({"part", "whole"})] /\ file \in [Indexes -> Contents]
    BY DEF TypeOK
  <1>3. out[m] \in Seq({"part", "whole"}) /\ Len(out[m]) \in Nat
    BY <1>2
  <1>4. i \in 1..N /\ i \in Indexes
    BY <1>1, <1>3, IndexesFit, UploadAssumption DEF UploadAssumption
  <1>5. file[i] \in {"part", "whole"}
    BY <1>1, <1>2, <1>4 DEF Contents
  <1>6. /\ Append(out[m], file[i]) \in Seq({"part", "whole"})
        /\ Len(Append(out[m], file[i])) = i
        /\ DOMAIN Append(out[m], file[i]) = DOMAIN out[m] \union {i}
        /\ \A j \in DOMAIN out[m] : Append(out[m], file[i])[j] = out[m][j]
        /\ Append(out[m], file[i])[i] = file[i]
    BY <1>3, <1>5
  <1>7. out'[m] = Append(out[m], file[i]) /\ \A k \in Merges \ {m} : out'[k] = out[k]
    BY <1>1, <1>2
  <1>8. out' \in [Merges -> Seq({"part", "whole"})]
    BY <1>1, <1>2, <1>6
  <1>9. out'[m] # <<>>
    BY <1>3, <1>6, <1>7
  <1> HIDE DEF i
  <1> QED
    BY <1>1, <1>4, <1>5, <1>6, <1>7, <1>8, <1>9 DEF i

\* Init satisfies the invariant: the folder and the FileChunks table are empty.
LEMMA InitIInv == ASSUME Init PROVE IInv
  <1> USE UploadAssumption DEF UploadAssumption, Init
  <1>e. entity \in Entities
    BY DEF Entities
  <1>o. out \in [Merges -> Seq({"part", "whole"})]
    OBVIOUS
  <1>c. copy \in [Uploads \union Merges -> Entities]
    BY <1>e
  <1>1. TypeOK
    BY <1>e, <1>o, <1>c DEF TypeOK, Contents, Steps, MSteps
  <1>2. Cardinality(rows) = 0
    BY FS_EmptySet
  <1>3. CountBelowRows /\ CopiesBelowRows /\ MergeNeedsAllRows /\ RecordedChunkKept
    BY <1>2 DEF CountBelowRows, CopiesBelowRows, MergeNeedsAllRows, RecordedChunkKept
  <1>4. WrittenKept /\ CopiedWhole /\ FinalHeld /\ MergeFits
    BY DEF WrittenKept, CopiedWhole, FinalHeld, MergeFits, Joining
  <1> QED
    BY <1>1, <1>3, <1>4 DEF IInv

\* Every step keeps the type invariant.
LEMMA NextTypeOK ==
  ASSUME TypeOK, CopiesBelowRows, MergeFits, [Next]_uploadVars
  PROVE  TypeOK'
  <1> DEFINE Goal == TypeOK'
  <1> SUFFICES Goal
    OBVIOUS
  <1>r. /\ Cardinality(rows) \in 0..N
        /\ Cardinality(rows) >= N => rows = Chunks
        /\ \A i \in Chunks \ rows : Cardinality(rows \union {i}) = Cardinality(rows) + 1
    BY RowsCounted DEF TypeOK
  <1> USE UploadAssumption DEF UploadAssumption, TypeOK, Entities, Contents, Steps,
              Answers, MSteps, MAnswers, CopiesBelowRows
  <1>1. ASSUME NEW u \in Uploads, FindFile(u) PROVE Goal
    BY <1>1 DEF FindFile, Goto, mergeVars
  <1>2. ASSUME NEW u \in Uploads, CheckExists(u) PROVE Goal
    BY <1>2 DEF CheckExists, Goto, mergeVars
  <1>3. ASSUME NEW u \in Uploads, CreateChunk(u) PROVE Goal
    <2>1. CASE Locked(chunk[u])
      BY <1>3, <2>1 DEF CreateChunk, Goto, mergeVars
    <2>2. CASE ~Locked(chunk[u])
      <3>1. /\ file' = [file EXCEPT ![chunk[u]] = "part"]
            /\ pc' = [pc EXCEPT ![u] = "Writing"]
            /\ rewritten' \subseteq rewritten \union {chunk[u]}
            /\ UNCHANGED <<entity, rows, folder, chunk, copy, mpc, out, final>>
        BY <1>3, <2>2 DEF CreateChunk, Goto, mergeVars
      <3>2. /\ chunk[u] \in Chunks
            /\ file' \in [Indexes -> Contents]
            /\ pc' \in [Uploads -> Steps]
        BY <3>1
      <3> QED
        BY <3>1, <3>2
    <2> QED
      BY <2>1, <2>2
  <1>4. ASSUME NEW u \in Uploads, WriteChunk(u) PROVE Goal
    BY <1>4 DEF WriteChunk, Goto, mergeVars, Written
  <1>5. ASSUME NEW u \in Uploads, SaveChunk(u) PROVE Goal
    BY <1>5, CommitCounts DEF SaveChunk, Goto, mergeVars
  <1>6. ASSUME NEW u \in Uploads, SaveCaught(u) PROVE Goal
    BY <1>6, CommitCounts DEF SaveCaught, Goto, mergeVars
  <1>7. ASSUME NEW u \in Uploads, AbortUpload(u) PROVE Goal
    BY <1>7 DEF AbortUpload, Goto, mergeVars
  <1>8. ASSUME NEW m \in Merges, FindForMerge(m) PROVE Goal
    BY <1>8 DEF FindForMerge, MGoto
  <1>9. ASSUME NEW m \in Merges, BeginMerge(m) PROVE Goal
    BY <1>9 DEF BeginMerge, MGoto
  <1>10. ASSUME NEW m \in Merges, SkipMerge(m) PROVE Goal
    BY <1>10 DEF SkipMerge, MGoto
  <1>11. ASSUME NEW m \in Merges, CopyChunk(m) PROVE Goal
    <2>1. out' \in [Merges -> Seq({"part", "whole"})]
      BY <1>11, CopyStep
    <2>2. mpc' = [mpc EXCEPT ![m] = "Copied"]
      BY <1>11, CopyStep
    <2>3. UNCHANGED <<entity, rows, folder, file, pc, chunk, copy, final, rewritten>>
      BY <1>11, CopyStep
    <2> QED
      BY <2>1, <2>2, <2>3
  <1>12. ASSUME NEW m \in Merges, DeleteChunk(m) PROVE Goal
    BY <1>12 DEF DeleteChunk, MGoto
  <1>13. ASSUME NEW m \in Merges, ChunkMissing(m) PROVE Goal
    BY <1>13 DEF ChunkMissing, MGoto, MoreChunks, NextChunk
  <1>14. ASSUME NEW m \in Merges, EndOfCopy(m) PROVE Goal
    BY <1>14 DEF EndOfCopy, MGoto, MoreChunks, NextChunk
  <1>15. ASSUME NEW m \in Merges, SaveMerge(m) PROVE Goal
    BY <1>15 DEF SaveMerge, MGoto, AfterCleanup
  <1>16. ASSUME NEW m \in Merges, AbortMerge(m) PROVE Goal
    BY <1>16 DEF AbortMerge, MGoto
  <1>17. CASE UNCHANGED uploadVars
    BY <1>17 DEF uploadVars
  <1> QED
    BY <1>1, <1>2, <1>3, <1>4, <1>5, <1>6, <1>7, <1>8, <1>9,
       <1>10, <1>11, <1>12, <1>13, <1>14, <1>15, <1>16, <1>17
       DEF Next, Upload, Merge

\* Overlapping requests lose increments and never invent one.
LEMMA NextCounts ==
  ASSUME TypeOK, CountBelowRows, CopiesBelowRows, TypeOK', [Next]_uploadVars
  PROVE  CountBelowRows' /\ CopiesBelowRows'
  <1> DEFINE Goal == CountBelowRows' /\ CopiesBelowRows'
  <1> SUFFICES Goal
    OBVIOUS
  <1>r. /\ Cardinality(rows) \in 0..N
        /\ Cardinality(rows) >= N => rows = Chunks
        /\ \A i \in Chunks \ rows : Cardinality(rows \union {i}) = Cardinality(rows) + 1
    BY RowsCounted DEF TypeOK
  <1> USE UploadAssumption DEF UploadAssumption, TypeOK, Entities, CountBelowRows,
              CopiesBelowRows
  <1>1. ASSUME NEW u \in Uploads, FindFile(u) PROVE Goal
    BY <1>1, <1>r DEF FindFile, Goto, mergeVars
  <1>2. ASSUME NEW u \in Uploads, CheckExists(u) PROVE Goal
    BY <1>2, <1>r DEF CheckExists, Goto, mergeVars
  <1>3. ASSUME NEW u \in Uploads, CreateChunk(u) PROVE Goal
    BY <1>3, <1>r DEF CreateChunk, Goto, mergeVars, Locked
  <1>4. ASSUME NEW u \in Uploads, WriteChunk(u) PROVE Goal
    BY <1>4, <1>r DEF WriteChunk, Goto, mergeVars, Written
  <1>5. ASSUME NEW u \in Uploads, SaveChunk(u) PROVE Goal
    BY <1>5, <1>r, CommitCounts DEF SaveChunk, Goto, mergeVars
  <1>6. ASSUME NEW u \in Uploads, SaveCaught(u) PROVE Goal
    <2>1. CASE Commit(u)
      BY <1>6, <2>1, <1>r, CommitCounts DEF SaveCaught, Goto, mergeVars
    <2>2. CASE UNCHANGED <<rows, entity>>
      BY <1>6, <2>2, <1>r DEF SaveCaught, Goto, mergeVars
    <2> QED
      BY <1>6, <2>1, <2>2 DEF SaveCaught
  <1>7. ASSUME NEW u \in Uploads, AbortUpload(u) PROVE Goal
    BY <1>7, <1>r DEF AbortUpload, Goto, mergeVars
  <1>8. ASSUME NEW m \in Merges, FindForMerge(m) PROVE Goal
    BY <1>8, <1>r DEF FindForMerge, MGoto
  <1>9. ASSUME NEW m \in Merges, BeginMerge(m) PROVE Goal
    BY <1>9, <1>r DEF BeginMerge, MGoto
  <1>10. ASSUME NEW m \in Merges, SkipMerge(m) PROVE Goal
    BY <1>10, <1>r DEF SkipMerge, MGoto
  <1>11. ASSUME NEW m \in Merges, CopyChunk(m) PROVE Goal
    <2>1. UNCHANGED <<entity, rows, copy>>
      BY <1>11, CopyStep
    <2> QED
      BY <2>1
  <1>12. ASSUME NEW m \in Merges, DeleteChunk(m) PROVE Goal
    BY <1>12, <1>r DEF DeleteChunk, MGoto
  <1>13. ASSUME NEW m \in Merges, ChunkMissing(m) PROVE Goal
    BY <1>13, <1>r DEF ChunkMissing, MGoto, MoreChunks, NextChunk
  <1>14. ASSUME NEW m \in Merges, EndOfCopy(m) PROVE Goal
    BY <1>14, <1>r DEF EndOfCopy, MGoto, MoreChunks, NextChunk
  <1>15. ASSUME NEW m \in Merges, SaveMerge(m) PROVE Goal
    BY <1>15, <1>r DEF SaveMerge, MGoto, AfterCleanup
  <1>16. ASSUME NEW m \in Merges, AbortMerge(m) PROVE Goal
    BY <1>16, <1>r DEF AbortMerge, MGoto
  <1>17. CASE UNCHANGED uploadVars
    BY <1>17 DEF uploadVars
  <1> QED
    BY <1>1, <1>2, <1>3, <1>4, <1>5, <1>6, <1>7, <1>8, <1>9,
       <1>10, <1>11, <1>12, <1>13, <1>14, <1>15, <1>16, <1>17
       DEF Next, Upload, Merge

\* A merge joins the chunks only of an upload whose rows are all there.
LEMMA NextMerge ==
  ASSUME IInv, TypeOK', CopiesBelowRows', [Next]_uploadVars
  PROVE  MergeNeedsAllRows' /\ MergeFits'
  <1> DEFINE Goal == MergeNeedsAllRows' /\ MergeFits'
  <1> SUFFICES Goal
    OBVIOUS
  <1>r. /\ Cardinality(rows) \in 0..N
        /\ Cardinality(rows) >= N => rows = Chunks
        /\ \A i \in Chunks \ rows : Cardinality(rows \union {i}) = Cardinality(rows) + 1
    BY RowsCounted DEF IInv, TypeOK
  <1> USE UploadAssumption DEF UploadAssumption, IInv, TypeOK, Entities, Contents,
              Steps, Answers, MSteps, MAnswers, CopiesBelowRows, MergeNeedsAllRows,
              MergeFits, AllUploaded
  <1>1. ASSUME NEW u \in Uploads, FindFile(u) PROVE Goal
    BY <1>1, <1>r DEF FindFile, Goto, mergeVars
  <1>2. ASSUME NEW u \in Uploads, CheckExists(u) PROVE Goal
    BY <1>2, <1>r DEF CheckExists, Goto, mergeVars
  <1>3. ASSUME NEW u \in Uploads, CreateChunk(u) PROVE Goal
    BY <1>3, <1>r DEF CreateChunk, Goto, mergeVars, Locked
  <1>4. ASSUME NEW u \in Uploads, WriteChunk(u) PROVE Goal
    BY <1>4, <1>r DEF WriteChunk, Goto, mergeVars, Written
  <1>5. ASSUME NEW u \in Uploads, SaveChunk(u) PROVE Goal
    BY <1>5, <1>r DEF SaveChunk, Goto, mergeVars, Commit, Insertable
  <1>6. ASSUME NEW u \in Uploads, SaveCaught(u) PROVE Goal
    BY <1>6, <1>r DEF SaveCaught, Goto, mergeVars, Commit, Insertable
  <1>7. ASSUME NEW u \in Uploads, AbortUpload(u) PROVE Goal
    BY <1>7, <1>r DEF AbortUpload, Goto, mergeVars
  <1>8. ASSUME NEW m \in Merges, FindForMerge(m) PROVE Goal
    BY <1>8, <1>r DEF FindForMerge, MGoto
  <1>9. ASSUME NEW m \in Merges, BeginMerge(m) PROVE Goal
    BY <1>9, <1>r DEF BeginMerge, MGoto
  <1>10. ASSUME NEW m \in Merges, SkipMerge(m) PROVE Goal
    BY <1>10, <1>r DEF SkipMerge, MGoto
  <1>11. ASSUME NEW m \in Merges, CopyChunk(m) PROVE Goal
    <2>1. /\ mpc[m] = "Copying" /\ mpc' = [mpc EXCEPT ![m] = "Copied"]
          /\ UNCHANGED <<rows, copy>>
      BY <1>11, CopyStep
    <2>2. /\ Len(out'[m]) \in 1..N /\ out'[m] # <<>>
          /\ \A k \in Merges \ {m} : out'[k] = out[k]
      BY <1>11, CopyStep
    <2>3. MergeNeedsAllRows'
      BY <2>1
    <2>4. MergeFits'
      BY <2>1, <2>2
    <2> QED
      BY <2>3, <2>4
  <1>12. ASSUME NEW m \in Merges, DeleteChunk(m) PROVE Goal
    BY <1>12, <1>r DEF DeleteChunk, MGoto
  <1>13. ASSUME NEW m \in Merges, ChunkMissing(m) PROVE Goal
    BY <1>13, <1>r DEF ChunkMissing, MGoto, MoreChunks, NextChunk
  <1>14. ASSUME NEW m \in Merges, EndOfCopy(m) PROVE Goal
    BY <1>14, <1>r DEF EndOfCopy, MGoto, MoreChunks, NextChunk
  <1>15. ASSUME NEW m \in Merges, SaveMerge(m) PROVE Goal
    BY <1>15, <1>r DEF SaveMerge, MGoto, AfterCleanup
  <1>16. ASSUME NEW m \in Merges, AbortMerge(m) PROVE Goal
    BY <1>16, <1>r DEF AbortMerge, MGoto
  <1>17. CASE UNCHANGED uploadVars
    BY <1>17 DEF uploadVars
  <1> QED
    BY <1>1, <1>2, <1>3, <1>4, <1>5, <1>6, <1>7, <1>8, <1>9,
       <1>10, <1>11, <1>12, <1>13, <1>14, <1>15, <1>16, <1>17
       DEF Next, Upload, Merge

\* Recorded chunks stay on disk until they are merged.
LEMMA NextKept ==
  ASSUME IInv, TypeOK', MergeFits', [Next]_uploadVars
  PROVE  RecordedChunkKept' /\ WrittenKept'
  <1> DEFINE Goal == RecordedChunkKept' /\ WrittenKept'
  <1> SUFFICES Goal
    OBVIOUS
  <1> USE UploadAssumption DEF UploadAssumption, IInv, TypeOK, Entities, Contents,
              Steps, Answers, MSteps, MAnswers, RecordedChunkKept, WrittenKept,
              MergeFits, ChunkKept, Consumed
  <1>1. ASSUME NEW u \in Uploads, FindFile(u) PROVE Goal
    BY <1>1 DEF FindFile, Goto, mergeVars
  <1>2. ASSUME NEW u \in Uploads, CheckExists(u) PROVE Goal
    BY <1>2 DEF CheckExists, Goto, mergeVars
  <1>3. ASSUME NEW u \in Uploads, CreateChunk(u) PROVE Goal
    <2> DEFINE i == chunk[u]
    <2>1. CASE Locked(i)
      BY <1>3, <2>1 DEF CreateChunk, Goto, mergeVars
    <2>2. CASE ~Locked(i)
      <3>1. /\ pc' = [pc EXCEPT ![u] = "Writing"]
            /\ file' = [file EXCEPT ![i] = "part"]
            /\ rewritten' = IF file[i] # "absent" \/ i \in rows THEN rewritten \union {i}
                                                                 ELSE rewritten
            /\ UNCHANGED <<entity, rows, folder, chunk, copy, mpc, out, final>>
        BY <1>3, <2>2 DEF CreateChunk, Goto, mergeVars
      <3>2. i \in rows => i \in rewritten'
        BY <3>1
      <3>3. \A v \in Uploads : pc'[v] = "Saving" /\ chunk[v] = i => i \in rewritten'
        BY <3>1
      <3> QED
        BY <3>1, <3>2, <3>3
    <2> QED
      BY <2>1, <2>2
  <1>4. ASSUME NEW u \in Uploads, WriteChunk(u) PROVE Goal
    BY <1>4 DEF WriteChunk, Goto, mergeVars, Written
  <1>5. ASSUME NEW u \in Uploads, SaveChunk(u) PROVE Goal
    BY <1>5 DEF SaveChunk, Goto, mergeVars, Commit, Insertable
  <1>6. ASSUME NEW u \in Uploads, SaveCaught(u) PROVE Goal
    BY <1>6 DEF SaveCaught, Goto, mergeVars, Commit, Insertable
  <1>7. ASSUME NEW u \in Uploads, AbortUpload(u) PROVE Goal
    BY <1>7 DEF AbortUpload, Goto, mergeVars
  <1>8. ASSUME NEW m \in Merges, FindForMerge(m) PROVE Goal
    BY <1>8 DEF FindForMerge, MGoto
  <1>9. ASSUME NEW m \in Merges, BeginMerge(m) PROVE Goal
    BY <1>9 DEF BeginMerge, MGoto
  <1>10. ASSUME NEW m \in Merges, SkipMerge(m) PROVE Goal
    BY <1>10 DEF SkipMerge, MGoto
  <1>11. ASSUME NEW m \in Merges, CopyChunk(m) PROVE Goal
    <2>1. \A k \in Merges : DOMAIN out[k] \subseteq DOMAIN out'[k]
      BY <1>11, CopyStep
    <2>2. UNCHANGED <<rows, file, pc, chunk, rewritten>>
      BY <1>11, CopyStep
    <2> QED
      BY <2>1, <2>2
  <1>12. ASSUME NEW m \in Merges, DeleteChunk(m) PROVE Goal
    BY <1>12 DEF DeleteChunk, MGoto
  <1>13. ASSUME NEW m \in Merges, ChunkMissing(m) PROVE Goal
    BY <1>13 DEF ChunkMissing, MGoto, MoreChunks, NextChunk
  <1>14. ASSUME NEW m \in Merges, EndOfCopy(m) PROVE Goal
    BY <1>14 DEF EndOfCopy, MGoto, MoreChunks, NextChunk
  <1>15. ASSUME NEW m \in Merges, SaveMerge(m) PROVE Goal
    BY <1>15 DEF SaveMerge, MGoto, AfterCleanup
  <1>16. ASSUME NEW m \in Merges, AbortMerge(m) PROVE Goal
    BY <1>16 DEF AbortMerge, MGoto
  <1>17. CASE UNCHANGED uploadVars
    BY <1>17 DEF uploadVars
  <1> QED
    BY <1>1, <1>2, <1>3, <1>4, <1>5, <1>6, <1>7, <1>8, <1>9,
       <1>10, <1>11, <1>12, <1>13, <1>14, <1>15, <1>16, <1>17
       DEF Next, Upload, Merge

\* A merge copies whole chunks only.
LEMMA NextCopied ==
  ASSUME IInv, TypeOK', [Next]_uploadVars
  PROVE  CopiedWhole'
  <1> DEFINE Goal == CopiedWhole'
  <1> SUFFICES Goal
    OBVIOUS
  <1> USE UploadAssumption DEF UploadAssumption, IInv, TypeOK, Entities, Contents,
              Steps, Answers, MSteps, MAnswers, CopiedWhole, RecordedChunkKept,
              WrittenKept, MergeNeedsAllRows, ChunkKept, MergeFits, AllUploaded
  <1>1. ASSUME NEW u \in Uploads, FindFile(u) PROVE Goal
    BY <1>1 DEF FindFile, Goto, mergeVars
  <1>2. ASSUME NEW u \in Uploads, CheckExists(u) PROVE Goal
    BY <1>2 DEF CheckExists, Goto, mergeVars
  <1>3. ASSUME NEW u \in Uploads, CreateChunk(u) PROVE Goal
    BY <1>3 DEF CreateChunk, Goto, mergeVars, Locked
  <1>4. ASSUME NEW u \in Uploads, WriteChunk(u) PROVE Goal
    BY <1>4 DEF WriteChunk, Goto, mergeVars, Written
  <1>5. ASSUME NEW u \in Uploads, SaveChunk(u) PROVE Goal
    BY <1>5 DEF SaveChunk, Goto, mergeVars, Commit, Insertable
  <1>6. ASSUME NEW u \in Uploads, SaveCaught(u) PROVE Goal
    BY <1>6 DEF SaveCaught, Goto, mergeVars, Commit, Insertable
  <1>7. ASSUME NEW u \in Uploads, AbortUpload(u) PROVE Goal
    BY <1>7 DEF AbortUpload, Goto, mergeVars
  <1>8. ASSUME NEW m \in Merges, FindForMerge(m) PROVE Goal
    BY <1>8 DEF FindForMerge, MGoto
  <1>9. ASSUME NEW m \in Merges, BeginMerge(m) PROVE Goal
    BY <1>9 DEF BeginMerge, MGoto
  <1>10. ASSUME NEW m \in Merges, SkipMerge(m) PROVE Goal
    BY <1>10 DEF SkipMerge, MGoto
  <1>11. ASSUME NEW m \in Merges, CopyChunk(m) PROVE Goal
    <2> DEFINE i == Len(out[m]) + 1
    <2>1. i \in Indexes /\ file[i] # "absent" /\ mpc[m] = "Copying" /\ rewritten' = rewritten
      BY <1>11, CopyStep
    <2>2. DOMAIN out'[m] = DOMAIN out[m] \union {i} /\ out'[m][i] = file[i]
      BY <1>11, CopyStep
    <2>3. /\ \A j \in DOMAIN out[m] : out'[m][j] = out[m][j]
          /\ \A k \in Merges \ {m} : out'[k] = out[k]
      BY <1>11, CopyStep
    <2>4. i \in rewritten \/ file[i] = "whole"
      BY <2>1
    <2> HIDE DEF i
    <2>5. \A j \in DOMAIN out'[m] \ rewritten : out'[m][j] = "whole"
      BY <2>2, <2>3, <2>4
    <2>6. \A k \in Merges \ {m} : \A j \in DOMAIN out'[k] \ rewritten : out'[k][j] = "whole"
      BY <2>3
    <2>7. ASSUME NEW k \in Merges, NEW j \in DOMAIN out'[k] \ rewritten'
          PROVE  out'[k][j] = "whole"
      <3>1. CASE k = m
        BY <2>1, <2>5, <2>7, <3>1
      <3>2. CASE k # m
        BY <2>1, <2>6, <2>7, <3>2
      <3> QED
        BY <3>1, <3>2
    <2> QED
      BY <2>7
  <1>12. ASSUME NEW m \in Merges, DeleteChunk(m) PROVE Goal
    BY <1>12 DEF DeleteChunk, MGoto
  <1>13. ASSUME NEW m \in Merges, ChunkMissing(m) PROVE Goal
    BY <1>13 DEF ChunkMissing, MGoto, MoreChunks, NextChunk
  <1>14. ASSUME NEW m \in Merges, EndOfCopy(m) PROVE Goal
    BY <1>14 DEF EndOfCopy, MGoto, MoreChunks, NextChunk
  <1>15. ASSUME NEW m \in Merges, SaveMerge(m) PROVE Goal
    BY <1>15 DEF SaveMerge, MGoto, AfterCleanup
  <1>16. ASSUME NEW m \in Merges, AbortMerge(m) PROVE Goal
    BY <1>16 DEF AbortMerge, MGoto
  <1>17. CASE UNCHANGED uploadVars
    BY <1>17 DEF uploadVars
  <1> QED
    BY <1>1, <1>2, <1>3, <1>4, <1>5, <1>6, <1>7, <1>8, <1>9,
       <1>10, <1>11, <1>12, <1>13, <1>14, <1>15, <1>16, <1>17
       DEF Next, Upload, Merge

\* The file at finalPath belongs to the last merge that began.
LEMMA NextFinal ==
  ASSUME IInv, TypeOK', [Next]_uploadVars
  PROVE  FinalHeld'
  <1> DEFINE Goal == FinalHeld'
  <1> SUFFICES Goal
    OBVIOUS
  <1> USE UploadAssumption DEF UploadAssumption, IInv, TypeOK, Entities, Contents,
              Steps, Answers, MSteps, MAnswers, FinalHeld, MergeFits, Joining,
              AllUploaded
  <1>1. ASSUME NEW u \in Uploads, FindFile(u) PROVE Goal
    BY <1>1 DEF FindFile, Goto, mergeVars
  <1>2. ASSUME NEW u \in Uploads, CheckExists(u) PROVE Goal
    BY <1>2 DEF CheckExists, Goto, mergeVars
  <1>3. ASSUME NEW u \in Uploads, CreateChunk(u) PROVE Goal
    BY <1>3 DEF CreateChunk, Goto, mergeVars, Locked
  <1>4. ASSUME NEW u \in Uploads, WriteChunk(u) PROVE Goal
    BY <1>4 DEF WriteChunk, Goto, mergeVars, Written
  <1>5. ASSUME NEW u \in Uploads, SaveChunk(u) PROVE Goal
    BY <1>5 DEF SaveChunk, Goto, mergeVars, Commit, Insertable
  <1>6. ASSUME NEW u \in Uploads, SaveCaught(u) PROVE Goal
    BY <1>6 DEF SaveCaught, Goto, mergeVars, Commit, Insertable
  <1>7. ASSUME NEW u \in Uploads, AbortUpload(u) PROVE Goal
    BY <1>7 DEF AbortUpload, Goto, mergeVars
  <1>8. ASSUME NEW m \in Merges, FindForMerge(m) PROVE Goal
    <2>1. \A k \in Merges \ {m} : copy'[k] = copy[k] /\ mpc'[k] = mpc[k]
      BY <1>8 DEF FindForMerge, MGoto
    <2>2. ~Joining(m)'
      BY <1>8 DEF FindForMerge, MGoto
    <2>3. mpc[m] = "New" /\ final' = final
      BY <1>8 DEF FindForMerge
    <2>4. \A k \in Merges \ {m} : Joining(k)' => Joining(k)
      BY <2>1
    <2>5. SUFFICES ASSUME NEW j \in Merges, j # m, Joining(j)', final # j
                   PROVE  \E k \in Merges \ {j} :
                            mpc'[k] \in MSteps \ {"New", "NoChunks"} /\ AllUploaded(k)'
      BY <2>2, <2>3
    <2>6. PICK k \in Merges \ {j} : mpc[k] \in MSteps \ {"New", "NoChunks"} /\ AllUploaded(k)
      BY <2>4, <2>5
    <2> QED
      BY <2>1, <2>3, <2>6
  <1>9. ASSUME NEW m \in Merges, BeginMerge(m) PROVE Goal
    BY <1>9 DEF BeginMerge, MGoto
  <1>10. ASSUME NEW m \in Merges, SkipMerge(m) PROVE Goal
    BY <1>10 DEF SkipMerge, MGoto
  <1>11. ASSUME NEW m \in Merges, CopyChunk(m) PROVE Goal
    <2>1. /\ mpc[m] = "Copying" /\ mpc'[m] = "Copied"
          /\ \A k \in Merges \ {m} : mpc'[k] = mpc[k]
          /\ UNCHANGED <<copy, final>>
      BY <1>11, CopyStep
    <2>2. \A k \in Merges : Joining(k)' <=> Joining(k)
      BY <2>1
    <2>3. SUFFICES ASSUME NEW j \in Merges, Joining(j), final # j
                   PROVE  \E k \in Merges \ {j} :
                            mpc'[k] \in MSteps \ {"New", "NoChunks"} /\ AllUploaded(k)'
      BY <2>1, <2>2
    <2>4. PICK k \in Merges \ {j} : mpc[k] \in MSteps \ {"New", "NoChunks"} /\ AllUploaded(k)
      BY <2>3
    <2>5. mpc'[k] \in MSteps \ {"New", "NoChunks"} /\ AllUploaded(k)'
      BY <2>1, <2>4
    <2> QED
      BY <2>5
  <1>12. ASSUME NEW m \in Merges, DeleteChunk(m) PROVE Goal
    BY <1>12 DEF DeleteChunk, MGoto
  <1>13. ASSUME NEW m \in Merges, ChunkMissing(m) PROVE Goal
    BY <1>13 DEF ChunkMissing, MGoto, MoreChunks, NextChunk
  <1>14. ASSUME NEW m \in Merges, EndOfCopy(m) PROVE Goal
    BY <1>14 DEF EndOfCopy, MGoto, MoreChunks, NextChunk
  <1>15. ASSUME NEW m \in Merges, SaveMerge(m) PROVE Goal
    BY <1>15 DEF SaveMerge, MGoto, AfterCleanup
  <1>16. ASSUME NEW m \in Merges, AbortMerge(m) PROVE Goal
    BY <1>16 DEF AbortMerge, MGoto
  <1>17. CASE UNCHANGED uploadVars
    BY <1>17 DEF uploadVars
  <1> QED
    BY <1>1, <1>2, <1>3, <1>4, <1>5, <1>6, <1>7, <1>8, <1>9,
       <1>10, <1>11, <1>12, <1>13, <1>14, <1>15, <1>16, <1>17
       DEF Next, Upload, Merge

\* The inductive invariant holds in every reachable state.
THEOREM UploadInvariant == Spec => []IInv
  <1>1. Init => IInv
    BY InitIInv
  <1>2. IInv /\ [Next]_uploadVars => IInv'
    <2> SUFFICES ASSUME IInv, [Next]_uploadVars PROVE IInv'
      OBVIOUS
    <2>1. TypeOK'
      BY NextTypeOK DEF IInv
    <2>2. CountBelowRows' /\ CopiesBelowRows'
      BY <2>1, NextCounts DEF IInv
    <2>3. MergeNeedsAllRows' /\ MergeFits'
      BY <2>1, <2>2, NextMerge
    <2>4. RecordedChunkKept' /\ WrittenKept'
      BY <2>1, <2>3, NextKept
    <2>5. CopiedWhole' /\ FinalHeld'
      BY <2>1, NextCopied, NextFinal
    <2> QED
      BY <2>1, <2>2, <2>3, <2>4, <2>5 DEF IInv
  <1> QED
    BY <1>1, <1>2, PTL DEF Spec

\* UploadedChunks of UploadChunkV2 never exceeds the FileChunks rows ...
THEOREM CountIsSafe == Spec => []CountBelowRows
  <1>1. IInv => CountBelowRows
    BY DEF IInv
  <1> QED
    BY <1>1, UploadInvariant, PTL

\* ... so MergeFileV2 deletes chunk files only when every chunk was recorded.
THEOREM MergesOnlyComplete == Spec => []MergeNeedsAllRows
  <1>1. IInv => MergeNeedsAllRows
    BY DEF IInv
  <1> QED
    BY <1>1, UploadInvariant, PTL

\* A recorded chunk is on disk in whole until a merge took it, unless it was rewritten.
THEOREM ChunksKept == Spec => []RecordedChunkKept
  <1>1. IInv => RecordedChunkKept
    BY DEF IInv
  <1> QED
    BY <1>1, UploadInvariant, PTL

\* What MergeFileV2 reports as merged is all chunks, whole but for rewritten ones ...
THEOREM MergedIsWhole == Spec => []JoinedIsWhole
  <1>1. IInv => JoinedIsWhole
    BY UploadAssumption DEF IInv, TypeOK, JoinedIsWhole, Joined, MergeFits, CopiedWhole,
       UploadAssumption
  <1> QED
    BY <1>1, UploadInvariant, PTL

\* ... and only another merge takes the file away.
THEOREM MergedStays == Spec => []FinalLostOnlyToMerge
  <1>1. IInv => FinalLostOnlyToMerge
    BY DEF IInv, FinalLostOnlyToMerge, FinalHeld, Joined, Joining
  <1> QED
    BY <1>1, UploadInvariant, PTL

\* Once all rows are there, no late upload takes "Completed" back.
THEOREM StaysCompleted == Spec => CompletedNotReopened
  <1> DEFINE Kept == entity.status = "Completed" /\ rows = Chunks => entity'.status = "Completed"
  <1>1. IInv /\ [Next]_uploadVars => [Kept]_uploadVars
    <2> SUFFICES ASSUME IInv, [Next]_uploadVars, entity.status = "Completed", rows = Chunks
                 PROVE  entity'.status = "Completed" \/ UNCHANGED uploadVars
      OBVIOUS
    <2> USE DEF IInv, TypeOK, Entities
    <2>1. ASSUME NEW u \in Uploads, Upload(u) PROVE entity' = entity
      BY <2>1 DEF Upload, FindFile, CheckExists, CreateChunk, WriteChunk, SaveChunk, SaveCaught,
         AbortUpload, Commit, Insertable
    <2>2. ASSUME NEW m \in Merges, Merge(m) PROVE entity' = entity \/ entity'.status = "Completed"
      <3>1. CASE SaveMerge(m)
        BY <3>1 DEF SaveMerge
      <3>2. CASE ~SaveMerge(m)
        BY <2>2, <3>2 DEF Merge, FindForMerge, BeginMerge, SkipMerge, CopyChunk, DeleteChunk,
           ChunkMissing, EndOfCopy, AbortMerge
      <3> QED
        BY <3>1, <3>2
    <2> QED
      BY <2>1, <2>2 DEF Next
  <1> QED
    BY <1>1, UploadInvariant, PTL DEF Spec, CompletedNotReopened

=============================================================================
