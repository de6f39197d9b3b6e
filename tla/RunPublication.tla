---------------------------- MODULE RunPublication --------------------------
(***************************************************************************)
(* run_campaign (measurement/orchestration/campaign.py): a run is built    *)
(* file by file in a directory aside and renamed when it is whole.  An     *)
(* exception removes that directory; a death of the process leaves it,     *)
(* with the file it was writing torn, to the next attempt with the same    *)
(* run_id.                                                                 *)
(*                                                                         *)
(* The content of a file is the number of the attempt that wrote it, 0     *)
(* when its writing was interrupted.  A directory that is not there has    *)
(* no files.  One process publishes a given run_id at a time.              *)
(***************************************************************************)
EXTENDS Integers, Sequences, TLC, SequencesExt

CONSTANTS
  Procs,         \* processes that may operate on the run
  MaxMishaps     \* bound: exceptions, crashes, deletions of derived views

VARIABLES
  pc,         \* per process: what it does next
  hashes,     \* hashes given so far, attempts included
  mishaps,    \* mishaps so far
  attempt,    \* the call of run_campaign under way
  staging,    \* <run_id>.staging/: file -> content
  runDir      \* <run_id>/ as it was renamed: file -> content

publication == <<attempt, staging, runDir>>

HasRun == DOMAIN runDir # {}

\* What is written, in this order: a call may come without a baseline.
FilesOf(baseline) ==
  <<"definition", "context">>
    \o (IF baseline THEN <<"baseline">> ELSE <<>>)
    \o <<"series", "capture", "manifest", "event", "state", "index">>

\* The directory once this file is written: created, or replaced.
With(dir, file, content) ==
  [f \in DOMAIN dir \cup {file} |-> IF f = file THEN content ELSE dir[f]]

NoAttempt == [id |-> 0, todo |-> <<>>]

PublicationInit ==
  /\ attempt = NoAttempt
  /\ staging = <<>> /\ runDir = <<>>
  /\ mishaps = 0 /\ hashes = 0

Publishing(p) == pc[p] \in {"clear", "build", "rename"}

\* A run_id names one run: a second one is refused.
RunCampaign(p) ==
  /\ \A q \in Procs : ~Publishing(q)
  /\ pc[p] = "idle"
  /\ ~HasRun
  /\ \E baseline \in BOOLEAN :
       attempt' = [id |-> hashes + 1, todo |-> FilesOf(baseline)]
  /\ hashes' = hashes + 1
  /\ pc' = [pc EXCEPT ![p] = "clear"]
  /\ UNCHANGED <<mishaps, staging, runDir>>

\* Mutant: what an attempt that died left is built upon.
ClearStagingKept(p) ==
  /\ pc[p] = "clear"
  /\ pc' = [pc EXCEPT ![p] = "build"]
  /\ UNCHANGED <<hashes, mishaps, publication>>

ClearStaging(p) ==
  /\ pc[p] = "clear"
  /\ staging' = <<>>
  /\ pc' = [pc EXCEPT ![p] = "build"]
  /\ UNCHANGED <<hashes, mishaps, attempt, runDir>>

WriteFile(p) ==
  /\ pc[p] = "build"
  /\ staging' = With(staging, Head(attempt.todo), attempt.id)
  /\ attempt' = [attempt EXCEPT !.todo = Tail(@)]
  /\ pc' = [pc EXCEPT ![p] = IF Len(attempt.todo) = 1 THEN "rename" ELSE "build"]
  /\ UNCHANGED <<hashes, mishaps, runDir>>

\* A write or a validation raises: no run, and the run_id may be used again.
Abandon(p) ==
  /\ pc[p] = "build"
  /\ mishaps < MaxMishaps
  /\ staging' = <<>>
  /\ mishaps' = mishaps + 1
  /\ attempt' = NoAttempt
  /\ pc' = [pc EXCEPT ![p] = "idle"]
  /\ UNCHANGED <<hashes, runDir>>

Publish(p) ==
  /\ pc[p] = "rename"
  /\ runDir' = staging
  /\ staging' = <<>>
  /\ attempt' = NoAttempt
  /\ pc' = [pc EXCEPT ![p] = "idle"]
  /\ UNCHANGED <<hashes, mishaps>>

\* The file being written when the process dies is left torn.
TearStaging(p) ==
  /\ pc[p] = "build"
  /\ staging' = With(staging, Head(attempt.todo), 0)

\* tooling.md:69-72: a run that is there is whole: every file, none torn, none
\* that another attempt left; an attempt that failed or died leaves no run.
PublishedIsWhole ==
  HasRun =>
    \E baseline \in BOOLEAN, id \in 1 .. hashes :
      runDir = [file \in ToSet(FilesOf(baseline)) |-> id]

=============================================================================
