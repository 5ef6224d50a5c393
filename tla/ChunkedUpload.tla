--------------------------- MODULE ChunkedUpload ---------------------------
(***************************************************************************)
(* FilesUploading, version 2: the chunks of one initialised upload arrive  *)
(* in parallel requests (UploadChunkV2), each written to a file of its own *)
(* and recorded in FileChunks, and a merge request (MergeFileV2) joins     *)
(* them.  Requests share nothing but the database and the chunk folder:    *)
(* each works on the copy of the Files row it read at its beginning, and   *)
(* DbSet.Update writes all columns of that copy back.                      *)
(*                                                                         *)
(* A chunk file is absent, in part (being written, or left so by a request *)
(* that died) or whole; its bytes are those of its index.                  *)
(***************************************************************************)
EXTENDS Integers, FiniteSets, Sequences

CONSTANTS
  N,          \* File.TotalChunks
  First,      \* the index the client gives its first chunk
  Uploads,    \* upload requests, retries among them
  Merges,     \* merge requests
  NoMerge

ASSUME UploadAssumption ==
  /\ N \in Nat \ {0}
  /\ First \in {0, 1}
  /\ Uploads \intersect Merges = {}
  /\ NoMerge \notin Merges

Chunks  == First..(First + N - 1)    \* what the client sends
Indexes == First..N                  \* what chunk files are asked for

VARIABLES
  entity,      \* the Files row: UploadedChunks and Status
  rows,        \* ChunkIndex of the FileChunks rows
  folder,      \* the chunk folder exists
  file,        \* the chunk files
  pc,          \* where each upload request is, or its answer
  chunk,       \* its chunkIndex
  copy,        \* the entity an upload or merge request read
  mpc,         \* where each merge request is, or its answer
  out,         \* what a merge wrote to its final file: the chunk files' states
  final,       \* the merge whose output is at finalPath
  rewritten    \* history: chunks written over an existing file or after their row

uploadVars == <<entity, rows, folder, file, pc, chunk, copy, mpc, out, final, rewritten>>

Entities  == [uploaded : 0..N, status : {"uploading", "Completed"}]
Contents  == {"absent", "part", "whole"}
Answers   == {"Uploaded", "Exists", "InDb", "Failed"}
Steps     == {"New", "Found", "Clear", "Writing", "Saving"} \union Answers
MAnswers  == {"Success", "Missing", "NoChunks", "Failed"}
MSteps    == {"New", "Found", "Copying", "Copied", "Saving"} \union MAnswers

TypeOK ==
  /\ entity \in Entities
  /\ rows \subseteq Chunks
  /\ folder \in BOOLEAN
  /\ file \in [Indexes -> Contents]
  /\ pc \in [Uploads -> Steps]
  /\ chunk \in [Uploads -> Chunks]
  /\ copy \in [Uploads \union Merges -> Entities]
  /\ mpc \in [Merges -> MSteps]
  /\ out \in [Merges -> Seq({"part", "whole"})]
  /\ final \in Merges \union {NoMerge}
  /\ rewritten \subseteq Chunks

\* The state InitializeUpload leaves, and requests to come.
Init ==
  /\ entity = [uploaded |-> 0, status |-> "uploading"]
  /\ rows = {}
  /\ folder = FALSE
  /\ file = [i \in Indexes |-> "absent"]
  /\ pc = [u \in Uploads |-> "New"]
  /\ chunk \in [Uploads -> Chunks]
  /\ copy = [q \in Uploads \union Merges |-> entity]
  /\ mpc = [m \in Merges |-> "New"]
  /\ out = [m \in Merges |-> <<>>]
  /\ final = NoMerge
  /\ rewritten = {}

-----------------------------------------------------------------------------
(* UploadChunkV2 *)

Goto(u, step) == pc' = [pc EXCEPT ![u] = step]

mergeVars == <<mpc, out, final>>

\* GetFileAsync, and CreateDirectory if there is no folder.
FindFile(u) ==
  /\ pc[u] = "New"
  /\ copy' = [copy EXCEPT ![u] = entity]
  /\ folder' = TRUE
  /\ Goto(u, "Found")
  /\ UNCHANGED <<entity, rows, file, chunk, mergeVars, rewritten>>

\* if (File.Exists(chunkPath)) return "Chunk already exists"
CheckExists(u) ==
  /\ pc[u] = "Found"
  /\ Goto(u, IF file[chunk[u]] = "absent" THEN "Clear" ELSE "Exists")
  /\ UNCHANGED <<entity, rows, folder, file, chunk, copy, mergeVars, rewritten>>

\* A chunk file that is being written is open for its writer alone.
Locked(i) == \E u \in Uploads : pc[u] = "Writing" /\ chunk[u] = i

\* new FileStream(chunkPath, FileMode.Create): throws, or truncates.
CreateChunk(u) ==
  LET i == chunk[u] IN
  /\ pc[u] = "Clear"
  /\ IF Locked(i)
     THEN /\ Goto(u, "Failed")
          /\ UNCHANGED <<file, rewritten>>
     ELSE /\ Goto(u, "Writing")
          /\ file' = [file EXCEPT ![i] = "part"]
          /\ rewritten' = IF file[i] # "absent" \/ i \in rows THEN rewritten \union {i}
                                                              ELSE rewritten
  /\ UNCHANGED <<entity, rows, folder, chunk, copy, mergeVars>>

WrittenUnawaited == "part"

\* What the awaited CopyToAsync and the end of the using block leave.
Written == "whole"

WriteChunk(u) ==
  /\ pc[u] = "Writing"
  /\ file' = [file EXCEPT ![chunk[u]] = Written]
  /\ Goto(u, "Saving")
  /\ UNCHANGED <<entity, rows, folder, chunk, copy, mergeVars, rewritten>>

InsertableAlways(i) == TRUE

\* UQ_File_Chunk
Insertable(i) == i \notin rows

\* One transaction: the FileChunks row and all columns of the Files row.
Commit(u) ==
  /\ Insertable(chunk[u])
  /\ rows' = rows \union {chunk[u]}
  /\ entity' = [copy[u] EXCEPT !.uploaded = @ + 1]

SaveChunk(u) ==
  /\ pc[u] = "Saving"
  /\ Commit(u)
  /\ Goto(u, "Uploaded")
  /\ UNCHANGED <<folder, file, chunk, copy, mergeVars, rewritten>>

\* catch: a unique violation, or any other exception of SaveChangesAsync, which
\* may come after the commit.
SaveCaught(u) ==
  /\ pc[u] = "Saving"
  /\ Commit(u) \/ UNCHANGED <<rows, entity>>
  /\ Goto(u, "InDb")
  /\ UNCHANGED <<folder, file, chunk, copy, mergeVars, rewritten>>

\* The process dies, or an await before the try block throws.
AbortUpload(u) ==
  /\ pc[u] \in {"New", "Found", "Clear", "Writing", "Saving"}
  /\ Goto(u, "Failed")
  /\ UNCHANGED <<entity, rows, folder, file, chunk, copy, mergeVars, rewritten>>

-----------------------------------------------------------------------------
(* MergeFileV2 *)

MGoto(m, step) == mpc' = [mpc EXCEPT ![m] = step]

FindForMerge(m) ==
  /\ mpc[m] = "New"
  /\ copy' = [copy EXCEPT ![m] = entity]
  /\ MGoto(m, IF folder THEN "Found" ELSE "NoChunks")
  /\ UNCHANGED <<entity, rows, folder, file, pc, chunk, out, final, rewritten>>

AllUploadedButOne(m) == copy[m].uploaded >= N - 1

\* if (file.TotalChunks == file.UploadedChunks)
AllUploaded(m) == copy[m].uploaded = N

\* Deletes and creates finalPath.
BeginMerge(m) ==
  /\ mpc[m] = "Found"
  /\ AllUploaded(m)
  /\ final' = m
  /\ MGoto(m, "Copying")
  /\ UNCHANGED <<entity, rows, folder, file, pc, chunk, copy, out, rewritten>>

SkipMerge(m) ==
  /\ mpc[m] = "Found"
  /\ ~AllUploaded(m)
  /\ MGoto(m, "Saving")
  /\ UNCHANGED <<entity, rows, folder, file, pc, chunk, copy, out, final, rewritten>>

NextChunk(m) == Len(out[m]) + 1

MoreChunksShort(m) == NextChunk(m) < N

\* for (int i = 1; i <= file.TotalChunks; i++)
MoreChunks(m) == NextChunk(m) <= N

CopyChunk(m) ==
  LET i == NextChunk(m) IN
  /\ mpc[m] = "Copying"
  /\ MoreChunks(m)
  /\ file[i] # "absent"
  /\ ~Locked(i)
  /\ out' = [out EXCEPT ![m] = Append(@, file[i])]
  /\ MGoto(m, "Copied")
  /\ UNCHANGED <<entity, rows, folder, file, pc, chunk, copy, final, rewritten>>

DeleteChunk(m) ==
  /\ mpc[m] = "Copied"
  /\ file' = [file EXCEPT ![Len(out[m])] = "absent"]
  /\ MGoto(m, "Copying")
  /\ UNCHANGED <<entity, rows, folder, pc, chunk, copy, out, final, rewritten>>

\* break, and delete whatever is at finalPath.
ChunkMissing(m) ==
  /\ mpc[m] = "Copying"
  /\ MoreChunks(m)
  /\ file[NextChunk(m)] = "absent"
  /\ final' = NoMerge
  /\ MGoto(m, "Missing")
  /\ UNCHANGED <<entity, rows, folder, file, pc, chunk, copy, out, rewritten>>

EndOfCopy(m) ==
  /\ mpc[m] = "Copying"
  /\ ~MoreChunks(m)
  /\ MGoto(m, "Saving")
  /\ UNCHANGED <<entity, rows, folder, file, pc, chunk, copy, out, final, rewritten>>

\* Directory.Delete(chunkFolder, true), which the source has commented out.
AfterCleanupOfFolder == NoMerge

AfterCleanup == final

SaveMerge(m) ==
  /\ mpc[m] = "Saving"
  /\ entity' = [copy[m] EXCEPT !.status = "Completed"]
  /\ final' = AfterCleanup
  /\ MGoto(m, "Success")
  /\ UNCHANGED <<rows, folder, file, pc, chunk, copy, out, rewritten>>

\* The process dies, a database call throws, or a file is open elsewhere.
AbortMerge(m) ==
  /\ mpc[m] \in {"New", "Found", "Copying", "Copied", "Saving"}
  /\ MGoto(m, "Failed")
  /\ UNCHANGED <<entity, rows, folder, file, pc, chunk, copy, out, final, rewritten>>

-----------------------------------------------------------------------------

Upload(u) ==
  \/ FindFile(u)
  \/ CheckExists(u)
  \/ CreateChunk(u)
  \/ WriteChunk(u)
  \/ SaveChunk(u)
  \/ SaveCaught(u)
  \/ AbortUpload(u)

Merge(m) ==
  \/ FindForMerge(m)
  \/ BeginMerge(m)
  \/ SkipMerge(m)
  \/ CopyChunk(m)
  \/ DeleteChunk(m)
  \/ ChunkMissing(m)
  \/ EndOfCopy(m)
  \/ SaveMerge(m)
  \/ AbortMerge(m)

Next == (\E u \in Uploads : Upload(u)) \/ (\E m \in Merges : Merge(m))

Spec == Init /\ [][Next]_uploadVars

-----------------------------------------------------------------------------
(* Properties *)

\* The counter only ever errs downwards: requests that overlap lose increments,
\* but no interleaving of uploads and merges counts a chunk that has no row.
CountBelowRows == entity.uploaded <= Cardinality(rows)

\* A merge deletes chunk files only when every chunk was recorded: the counter it
\* compares may be stale, but never too high.
MergeNeedsAllRows ==
  \A m \in Merges : mpc[m] \in {"Copying", "Copied"} => rows = Chunks

Consumed(i) == \E m \in Merges : i \in DOMAIN out[m]

ChunkKept(i) == file[i] = "whole" \/ (file[i] = "absent" /\ Consumed(i))

\* The file of a recorded chunk is on disk in whole, or a merge has copied it and
\* deleted it, unless another upload of the same chunk rewrote it.
RecordedChunkKept == \A i \in rows \ rewritten : ChunkKept(i)

Joined(m) == mpc[m] = "Success" /\ AllUploaded(m)

\* "File merged successfully" after the loop: all chunks are in the file, each
\* whole unless two uploads of it raced or it was uploaded again.
JoinedIsWhole ==
  \A m \in Merges : Joined(m) =>
    /\ Len(out[m]) = N
    /\ \A i \in 1..N \ rewritten : out[m][i] = "whole"

\* The final file of a merge that succeeded is only ever lost to another merge
\* (which finds no chunks any more and deletes it).
FinalLostOnlyToMerge ==
  \A m \in Merges : Joined(m) /\ final # m =>
    \E k \in Merges \ {m} : mpc[k] \in MSteps \ {"New", "NoChunks"} /\ AllUploaded(k)

\* No late upload sets the Status of a complete upload back to the "uploading" it
\* read: once all rows are there, UQ_File_Chunk rolls its transaction back.
CompletedNotReopened ==
  [][entity.status = "Completed" /\ rows = Chunks => entity'.status = "Completed"]_uploadVars

Quiet == \A u \in Uploads : pc[u] \in {"New"} \union Answers

Told(i, answers) == \E u \in Uploads : chunk[u] = i /\ pc[u] \in answers

\* The readme: V2 is "Retry safe".
RetrySafe ==
  Quiet /\ (\A i \in Chunks : Told(i, {"Uploaded", "Exists"})) => rows = Chunks

\* The readme: "Merge fails if any chunk is missing".
MergeFailsIfMissing == \A m \in Merges : mpc[m] = "Success" => Len(out[m]) = N

-----------------------------------------------------------------------------
(* The inductive invariant behind the safety properties *)

CopiesBelowRows == \A q \in Uploads \union Merges : copy[q].uploaded <= Cardinality(rows)

\* A chunk that was written but not recorded yet is kept like a recorded one, and
\* only chunks the client sends are ever on disk.
WrittenKept ==
  /\ \A u \in Uploads : pc[u] = "Saving" /\ chunk[u] \notin rewritten => ChunkKept(chunk[u])
  /\ \A i \in Indexes : file[i] # "absent" => i \in Chunks

\* How far a merge is, and that it took the branch of a complete upload.
MergeFits ==
  \A m \in Merges :
    /\ mpc[m] \in {"New", "Found"} => out[m] = <<>>
    /\ mpc[m] \in {"Copying", "Copied"} => AllUploaded(m)
    /\ mpc[m] = "Copied" => out[m] # <<>>
    /\ mpc[m] \in {"Saving", "Success"} /\ AllUploaded(m) => Len(out[m]) = N
    /\ Len(out[m]) <= N
    /\ out[m] # <<>> => rows = Chunks

CopiedWhole ==
  \A m \in Merges : \A i \in DOMAIN out[m] \ rewritten : out[m][i] = "whole"

Joining(m) == \/ mpc[m] \in {"Copying", "Copied"}
              \/ mpc[m] \in {"Saving", "Success"} /\ AllUploaded(m)

FinalHeld ==
  \A m \in Merges : Joining(m) /\ final # m =>
    \E k \in Merges \ {m} : mpc[k] \in MSteps \ {"New", "NoChunks"} /\ AllUploaded(k)

IInv ==
  /\ TypeOK
  /\ CountBelowRows
  /\ CopiesBelowRows
  /\ MergeNeedsAllRows
  /\ RecordedChunkKept
  /\ WrittenKept
  /\ MergeFits
  /\ CopiedWhole
  /\ FinalHeld

=============================================================================
