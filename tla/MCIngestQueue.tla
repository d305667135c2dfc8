--------------------------- MODULE MCIngestQueue ---------------------------
(***************************************************************************)
(* Instances of IngestQueue for TLC: one or two jobs, of which the first   *)
(* has two files, and two goroutines, in one process or in two.            *)
(***************************************************************************)
EXTENDS IngestQueue, TLC

OneJob  == {1}
TwoJobs == {1, 2}

\* Job 1 has two files and job 2 has one.
TwoAndOne == [j \in Jobs |-> 3 - j]

\* A chunk for each file, whose id is the file itself.
OwnChunks   == FileRefs
OwnChunkOf  == [r \in FileRefs |-> r]

\* One chunk for each job: plain text files that share the form's doc_id.
SharedChunks  == Jobs
SharedChunkOf == [r \in FileRefs |-> r[1]]

\* The first file of each job has entity_keys.
FirstKeyed == {r \in FileRefs : r[2] = 1}

OneProcess == [w \in Workers |-> CHOOSE p \in Procs : TRUE]
OwnProcess == [w \in Workers |-> w]

WorkerSymmetry == Permutations(Workers)
=============================================================================
