--------------------------- MODULE EvidenceArchive --------------------------
(***************************************************************************)
(* The archive of one run (measurement/orchestration/campaign.py): an      *)
(* append-only history of chained event files, one analysis, and views     *)
(* derived from them (state and index; the report is rendered last and     *)
(* read by nobody).  Each operation reads the archive, then writes files   *)
(* one after the other, without a lock; a process may die between two      *)
(* writes, or within one and leave a torn file behind.                     *)
(*                                                                         *)
(* The run first has to be published (RunPublication): until then there is *)
(* nothing to operate on.  The hash of a file is a number no other file    *)
(* ever has; the acquisition event has that of its attempt.                *)
(***************************************************************************)
EXTENDS RunPublication, FiniteSets, FiniteSetsExt

CONSTANTS
  Analyses,      \* analyses that may be recorded
  RebuildFirst,  \* TRUE: after a crash, rebuild_derived runs before the rest
  MaxEvents      \* bound: event files of the run

ASSUME ArchiveAssumption ==
  /\ RebuildFirst \in BOOLEAN
  /\ MaxEvents \in Nat \ {0} /\ MaxMishaps \in Nat
  /\ Analyses \cap {"none", "torn"} = {}

VARIABLES
  nature,      \* acquisition_nature of the manifest
  events,      \* evidence-events/: file name -> event
  analysis,    \* analysis-result.json
  state,       \* evidence-state.json
  index,       \* archive-index.json
  local,       \* per process: what an operation holds
  dirty,       \* a process died and no rebuild has completed since
  written,     \* history: hashes of the events completely written
  analysed     \* history: analyses completely written

given == <<nature, publication>>   \* what no operation on a run changes
archive == <<events, analysis, state, index>>
history == <<written, analysed>>
vars == <<given, archive, pc, local, hashes, mishaps, dirty, history>>

EventTypes == {"acquisition", "promotion", "review", "verdict"}
Verdicts   == {"PASS", "INCONCLUSIVE"}
Decisive   == {"PASS"}
Statuses   == {"RAW", "REVIEWED", "M", "S"}

-----------------------------------------------------------------------------
(* The event files, NNNN-type.json.  A name is the number that puts it     *)
(* where sorted() does: by the number of the event, then by its type.      *)

TypeRank == [acquisition |-> 0, promotion |-> 1, review |-> 2, verdict |-> 3]

Name(id, type) == 4 * id + TypeRank[type]

\* The contents of the files of a directory.
InOrder(dir) ==
  LET names == DOMAIN dir
  IN  [k \in 1 .. Cardinality(names) |->
         dir[CHOOSE n \in names : Cardinality({m \in names : m <= n}) = k]]

Files == InOrder(events)

Event(type, from, to, verdict, link, previous, hash) ==
  [type |-> type, from |-> from, to |-> to, verdict |-> verdict,
   link |-> link, previous |-> previous, hash |-> hash, torn |-> FALSE]

HasTornEvent == \E n \in DOMAIN events : events[n].torn

-----------------------------------------------------------------------------
(* _reconstruct_state: the history replayed.                               *)

LegalTransitions ==
  [acquisition |-> {<<"NONE", "RAW">>, <<"NONE", "S">>},
   verdict     |-> {<<"RAW", "RAW">>, <<"REVIEWED", "REVIEWED">>, <<"S", "S">>},
   review      |-> {<<"RAW", "REVIEWED">>},
   promotion   |-> {<<"REVIEWED", "M">>}]

Legal(e, status) ==
  /\ ~e.torn
  /\ status # "M"
  /\ e.from = status
  /\ <<e.from, e.to>> \in LegalTransitions[e.type]

StatusAfter(files, k) == IF k = 0 THEN "NONE" ELSE files[k].to

\* The last verdict; none is as good as one about no analysis.
LastVerdict(files) ==
  LET verdicts == {k \in DOMAIN files : files[k].type = "verdict"}
  IN  IF verdicts = {} THEN [verdict |-> "NOT_RUN", link |-> "none"]
                       ELSE files[Max(verdicts)]

LastHash(files) == IF files = <<>> THEN 0 ELSE Last(files).hash

Replay(files) ==
  [ok      |-> HasRun /\ \A k \in DOMAIN files :
                           Legal(files[k], StatusAfter(files, k - 1)),
   status  |-> StatusAfter(files, Len(files)),
   verdict |-> LastVerdict(files).verdict,
   latest  |-> LastHash(files)]

Replayed == Replay(Files)

\* _immutable_paths, and the hashes of those files.
Hashes       == {events[n].hash : n \in DOMAIN events}
IndexOfFiles == [events |-> Hashes, analysis |-> analysis]

StateOf(status, verdict, latest) ==
  [status |-> status, verdict |-> verdict, locked |-> status = "M",
   latest |-> latest]

\* A derived file that is not there, and one whose writing was interrupted.
Absent == [file |-> "absent"]
Torn   == [file |-> "torn"]

\* previous_event_sha256 of every event is the hash of the file before it.
Chained ==
  LET files == Files
  IN  \A k \in DOMAIN files :
        files[k].previous = IF k = 1 THEN 0 ELSE files[k - 1].hash

\* verify_run does not raise.
Verifies ==
  /\ analysis # "torn"
  /\ ~HasTornEvent /\ Chained
  /\ LET now == Replayed
     IN  /\ now.ok
         /\ state # Absent =>
              state = StateOf(now.status, now.verdict, now.latest)
  /\ index # Absent => index = IndexOfFiles

\* What promotion asks of the dossier: an approved baseline of this protocol, a
\* complete context, a reproducible build.  A call that brings the baseline is
\* taken to bring the rest.
Qualified == "baseline" \in DOMAIN runDir

-----------------------------------------------------------------------------
(* run_campaign: the archive begins with what it publishes.                *)

AcquiredStatus == IF nature = "simulated" THEN "S" ELSE "RAW"

Idle == [op |-> "none", from |-> "NONE", to |-> "NONE", verdict |-> "NOT_RUN",
         link |-> "none", id |-> 0, previous |-> 0, latest |-> 0]

Init ==
  /\ PublicationInit
  /\ nature \in {"measured", "simulated"}
  /\ events = <<>> /\ analysis = "none" /\ state = Absent /\ index = Absent
  /\ pc = [p \in Procs |-> "idle"]
  /\ local = [p \in Procs |-> Idle]
  /\ dirty = FALSE
  /\ written = {} /\ analysed = {}

\* The rename: the operations find the files of the directory built aside.
PublishRun(p) ==
  /\ Publish(p)
  /\ events' = With(<<>>, Name(1, "acquisition"),
                    Event("acquisition", "NONE", AcquiredStatus, "NOT_RUN",
                          "none", 0, staging["event"]))
  /\ state' = StateOf(AcquiredStatus, "NOT_RUN", staging["state"])
  /\ index' = [events |-> {staging["index"]}, analysis |-> "none"]
  /\ written' = {staging["event"]}
  /\ UNCHANGED <<nature, analysis, local, dirty, analysed>>

Campaign(p) ==
  \/ /\ RunCampaign(p) \/ ClearStaging(p) \/ WriteFile(p) \/ Abandon(p)
     /\ UNCHANGED <<nature, archive, local, dirty, history>>
  \/ PublishRun(p)

-----------------------------------------------------------------------------
(* What an operation reads and checks before it writes anything.           *)

Readable == state \notin {Absent, Torn}

EnsureNotLockedNever == TRUE     \* mutant

\* _ensure_not_locked: the lock is read from the derived state.
EnsureNotLocked == ~state.locked

Starts(p, next, l) ==
  /\ pc' = [pc EXCEPT ![p] = next]
  /\ local' = [local EXCEPT ![p] = l]
  /\ UNCHANGED <<given, archive, hashes, mishaps, dirty, history>>

\* Any operation but the rebuild.
MayStart(p) ==
  /\ pc[p] = "idle"
  /\ RebuildFirst => ~dirty
  /\ Readable /\ EnsureNotLocked

StartEvent(p, type, to, verdict, link) ==
  /\ Cardinality(DOMAIN events) < MaxEvents
  /\ Starts(p, "list", [Idle EXCEPT !.op = type, !.from = state.status,
                                    !.to = to, !.verdict = verdict,
                                    !.link = link])

\* A verdict without a complete link is one linked to another analysis than
\* the archive's: promotion refuses both.
RecordVerdict(p) ==
  /\ MayStart(p)
  /\ \E v \in Verdicts, link \in Analyses :
       StartEvent(p, "verdict", state.status, v, link)

AnalysisAbsent == analysis = "none"

RecordAnalysis(p) ==
  /\ MayStart(p)
  /\ AnalysisAbsent
  /\ \E a \in Analyses : Starts(p, "analysis", [Idle EXCEPT !.op = "analysis",
                                                            !.link = a])

ReviewableFromAnywhere(s) == nature = "measured"     \* mutant

Reviewable(s) == nature = "measured" /\ s.status = "RAW"

MarkReviewed(p) ==
  /\ MayStart(p)
  /\ Reviewable(state)
  /\ StartEvent(p, "review", "REVIEWED", state.verdict, "none")

\* Mutant: the verdict's link is not compared with the analysis.
PromotableUnlinked(s) ==
  /\ nature # "simulated"
  /\ s.status = "REVIEWED"
  /\ Qualified
  /\ Verifies
  /\ analysis # "none"
  /\ LastVerdict(Files).link # "none"
  /\ s.verdict \in Decisive

Promotable(s) ==
  /\ nature # "simulated"
  /\ s.status = "REVIEWED"
  /\ Qualified
  /\ Verifies
  /\ analysis # "none"
  /\ LastVerdict(Files).link = analysis
  /\ s.verdict \in Decisive

PromoteToMeasured(p) ==
  /\ MayStart(p)
  /\ Promotable(state)
  /\ StartEvent(p, "promotion", "M", state.verdict, "none")

\* rebuild_derived reads the history alone, and raises unless it replays.
RebuildDerived(p) ==
  /\ pc[p] = "idle"
  /\ HasRun
  /\ LET now == Replayed
     IN  /\ now.ok
         /\ Starts(p, "state", [Idle EXCEPT !.op = "rebuild", !.to = now.status,
                                            !.verdict = now.verdict,
                                            !.latest = now.latest])

-----------------------------------------------------------------------------
(* What it writes, one file after the other.                               *)

NextIdSkipping == Cardinality(DOMAIN events) + 2     \* mutant

NextId == Cardinality(DOMAIN events) + 1

\* _append_event lists the directory ...
List(p) ==
  /\ pc[p] = "list"
  /\ local' = [local EXCEPT ![p].id = NextId,
                            ![p].previous = LastHash(Files)]
  /\ pc' = [pc EXCEPT ![p] = "append"]
  /\ UNCHANGED <<given, archive, hashes, mishaps, dirty, history>>

EventOf(l, hash) ==
  Event(l.op, l.from, l.to, IF l.op = "verdict" THEN l.verdict ELSE "NOT_RUN",
        l.link, l.previous, hash)

NameOf(l) == Name(l.id, l.op)

\* ... and writes the event under the number it found.
AppendEvent(p) ==
  /\ pc[p] = "append"
  /\ LET l == local[p]
         h == hashes + 1
     IN  /\ events' = With(events, NameOf(l), EventOf(l, h))
         /\ hashes' = h
         /\ written' = written \cup {h}
         /\ local' = [local EXCEPT ![p].latest = h]
  /\ pc' = [pc EXCEPT ![p] = "state"]
  /\ UNCHANGED <<given, analysis, state, index, mishaps, dirty, analysed>>

\* The state is made from what the operation read, not from the history.
WriteState(p) ==
  /\ pc[p] = "state"
  /\ state' = StateOf(local[p].to, local[p].verdict, local[p].latest)
  /\ pc' = [pc EXCEPT ![p] = "index"]
  /\ UNCHANGED <<given, events, analysis, index, local, hashes, mishaps, dirty,
                 history>>

\* Mutant: the index is not rebuilt once the analysis is there.
WriteAnalysisUnindexed(p) ==
  /\ pc[p] = "analysis"
  /\ analysis' = local[p].link
  /\ analysed' = analysed \cup {local[p].link}
  /\ pc' = [pc EXCEPT ![p] = "idle"]
  /\ UNCHANGED <<given, events, state, index, local, hashes, mishaps, dirty,
                 written>>

WriteAnalysis(p) ==
  /\ pc[p] = "analysis"
  /\ analysis' = local[p].link
  /\ analysed' = analysed \cup {local[p].link}
  /\ pc' = [pc EXCEPT ![p] = "index"]
  /\ UNCHANGED <<given, events, state, index, local, hashes, mishaps, dirty,
                 written>>

WriteIndex(p) ==
  /\ pc[p] = "index"
  /\ index' = IndexOfFiles
  /\ pc' = [pc EXCEPT ![p] = "idle"]
  /\ local' = [local EXCEPT ![p] = Idle]
  /\ dirty' = (dirty /\ local[p].op # "rebuild")
  /\ UNCHANGED <<given, events, analysis, state, hashes, mishaps, history>>

-----------------------------------------------------------------------------
(* What happens to the process and to the directory.                       *)

\* The file being written when the process dies is left torn.
TearFile(p) ==
  CASE pc[p] = "append" ->
         /\ events' = With(events, NameOf(local[p]),
                           [EventOf(local[p], hashes + 1) EXCEPT !.torn = TRUE])
         /\ hashes' = hashes + 1
         /\ UNCHANGED <<analysis, state, index>>
    [] pc[p] = "analysis" ->
         analysis' = "torn" /\ UNCHANGED <<events, state, index, hashes>>
    [] pc[p] = "state" ->
         state' = Torn /\ UNCHANGED <<events, analysis, index, hashes>>
    [] pc[p] = "index" ->
         index' = Torn /\ UNCHANGED <<events, analysis, state, hashes>>
    [] OTHER -> FALSE

Crash(p) ==
  /\ pc[p] # "idle"
  /\ mishaps < MaxMishaps
  /\ \/ UNCHANGED <<archive, hashes, staging>>
     \/ TearFile(p) /\ UNCHANGED staging
     \/ TearStaging(p) /\ UNCHANGED <<archive, hashes>>
  /\ pc' = [pc EXCEPT ![p] = "idle"]
  /\ local' = [local EXCEPT ![p] = Idle]
  /\ mishaps' = mishaps + 1
  /\ dirty' = (dirty \/ HasRun)
  /\ attempt' = NoAttempt
  /\ UNCHANGED <<nature, runDir, history>>

\* Derived views may be deleted: they are rebuilt from the rest.
DeleteDerived ==
  /\ HasRun
  /\ mishaps < MaxMishaps
  /\ \A p \in Procs : pc[p] = "idle"
  /\ state' \in {state, Absent} /\ index' \in {index, Absent}
  /\ mishaps' = mishaps + 1
  /\ UNCHANGED <<given, events, analysis, pc, local, hashes, dirty, history>>

Operate(p) ==
  \/ RecordVerdict(p)
  \/ RecordAnalysis(p)
  \/ MarkReviewed(p)
  \/ PromoteToMeasured(p)
  \/ RebuildDerived(p)

Write(p) ==
  \/ List(p)
  \/ AppendEvent(p)
  \/ WriteState(p)
  \/ WriteAnalysis(p)
  \/ WriteIndex(p)

Next ==
  \/ \E p \in Procs : Campaign(p) \/ Operate(p) \/ Write(p) \/ Crash(p)
  \/ DeleteDerived

Spec == Init /\ [][Next]_vars

-----------------------------------------------------------------------------
(* What the archive promises.                                              *)

Contents == Analyses \cup {"none", "torn"}

EventRecords ==
  [type : EventTypes, from : Statuses \cup {"NONE"}, to : Statuses,
   verdict : Verdicts \cup {"NOT_RUN"}, link : Contents,
   previous : Nat, hash : Nat, torn : BOOLEAN]

\* The variables have the types of the archive's files.
TypeOK ==
  /\ nature \in {"measured", "simulated"}
  /\ \A n \in DOMAIN events :
       /\ events[n] \in EventRecords
       /\ \E id \in 1 .. MaxEvents : n = Name(id, events[n].type)
       /\ events[n].previous < events[n].hash /\ events[n].hash <= hashes
  /\ analysis \in Contents
  /\ state \in [status : Statuses, verdict : Verdicts \cup {"NOT_RUN"},
                locked : BOOLEAN, latest : 0 .. hashes] \cup {Absent, Torn}
  /\ index \in [events : SUBSET (1 .. hashes), analysis : Contents]
                 \cup {Absent, Torn}
  /\ written \subseteq 1 .. hashes /\ analysed \subseteq Analyses

\* measurement-data-model.md:72-74, campaign.py:10-11: nothing is appended to
\* a run whose history reached M.
LockedAtM ==
  LET files == Files
  IN  \A k \in DOMAIN files :
        files[k].type = "promotion" /\ ~files[k].torn => k = Len(files)

\* architecture.md:80-82: events and analysis are append-only: what was written
\* completely is never overwritten or lost.
AppendOnly ==
  /\ written \subseteq Hashes
  /\ analysed \subseteq {analysis}

\* As long as no event file was torn, the events of the run form one chain and
\* replay as a legal history, whatever crashed and was rebuilt.
HistoryReplays ==
  HasRun /\ ~HasTornEvent => Chained /\ Replayed.ok

\* measurement-data-model.md:196-203: once every operation has ended and every
\* crash was followed by a rebuild, verify_run accepts the archive: the derived
\* views that are there say what the history says.
ArchiveVerifies ==
  HasRun /\ (\A p \in Procs : pc[p] = "idle") /\ ~dirty /\ analysis # "torn"
    => Verifies

\* campaign-workflow.md:38-42: a run reaches M by a real acquisition, a review
\* and a decisive last verdict, tied to the very analysis the archive holds.
MeasuredIsQualified ==
  LET files == Files
  IN  \A k \in DOMAIN files :
        files[k].type = "promotion" /\ ~files[k].torn =>
          /\ nature = "measured" /\ Qualified
          /\ \E j \in 1 .. k - 1 : files[j].type = "review"
          /\ \E j \in 1 .. k - 1 :
               /\ files[j].type = "verdict" /\ files[j].verdict \in Decisive
               /\ files[j].link = analysis /\ analysis \in Analyses
               /\ \A i \in j + 1 .. k - 1 : files[i].type # "verdict"

\* The archive is a trail of evidence as EvidenceLifeCycle describes it: files,
\* crashes and rebuilds included, it only grows, moves along the statuses,
\* keeps its one analysis, reaches M by a decisive verdict on that analysis,
\* and ends there.  What a crash tore is not evidence.
Trail == InOrder(Restrict(events, {n \in DOMAIN events : ~events[n].torn}))

LifeCycle == INSTANCE EvidenceLifeCycle WITH
  trail <- Trail,
  analysis <- IF analysis = "torn" THEN "none" ELSE analysis,
  Events <- EventRecords

ImplementsLifeCycle == LifeCycle!Spec

=============================================================================
