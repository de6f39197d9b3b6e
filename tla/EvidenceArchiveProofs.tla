------------------------ MODULE EvidenceArchiveProofs -----------------------
(***************************************************************************)
(* Proofs about EvidenceArchive, for any processes, analyses, number of    *)
(* events and of mishaps.  A run that is published is whole, however many  *)
(* processes there are.  The rest is about one process that rebuilds what  *)
(* a crash left before it goes on: its archive is a trail of evidence as   *)
(* EvidenceLifeCycle describes it, and verifies whenever it is at rest.    *)
(*                                                                         *)
(* The inductive invariant says what the history is (every event follows   *)
(* legally from those before it, a torn one is the last and nothing comes  *)
(* after it) and what an operation under way holds of it: nobody else      *)
(* writes, so what it read when it started is still so when it writes.     *)
(***************************************************************************)
EXTENDS EvidenceArchive, FiniteSetTheorems, NaturalsInduction, WellFoundedInduction,
        TLAPS

OneProcess == \A p, q \in Procs : p = q

-----------------------------------------------------------------------------
(* The publication of a run.                                               *)

Phases == {"idle", "clear", "build", "rename",
           "list", "append", "state", "analysis", "index"}

FileNames == {"definition", "context", "baseline", "series", "capture",
              "manifest", "event", "state", "index"}

Attempts == [id : 1 .. hashes, todo : Seq(FileNames)]

\* The first i files are there, and the rest is still to do.
Built(baseline, i) ==
  LET files == FilesOf(baseline)
  IN  /\ attempt.todo = SubSeq(files, i + 1, Len(files))
      /\ staging = [file \in {files[j] : j \in 1 .. i} |-> attempt.id]

\* What the attempt of a process has built.
AttemptOf(p, baseline) ==
  /\ pc[p] = "clear" => attempt.todo = FilesOf(baseline)
  /\ pc[p] = "build" => \E i \in 0 .. Len(FilesOf(baseline)) - 1 : Built(baseline, i)
  /\ pc[p] = "rename" =>
       staging = [file \in ToSet(FilesOf(baseline)) |-> attempt.id]

PublicationInv ==
  /\ hashes \in Nat
  /\ pc \in [Procs -> Phases]
  /\ \A p, q \in Procs : Publishing(p) /\ Publishing(q) => p = q
  /\ \A p \in Procs : Publishing(p) =>
       /\ ~HasRun
       /\ attempt \in Attempts
       /\ \E baseline \in BOOLEAN : AttemptOf(p, baseline)
  /\ \A p \in Procs : pc[p] = "idle" \/ Publishing(p) \/ HasRun
  /\ PublishedIsWhole

-----------------------------------------------------------------------------
(* The history.                                                            *)

\* The events are numbered without a gap, and in that order in the directory.
NamesInv ==
  /\ IsFiniteSet(DOMAIN events)
  /\ DOMAIN events = {Name(k, Files[k].type) : k \in 1 .. Len(Files)}

\* A verdict among the first n is decisive, about this analysis, and the last.
Decided(files, n) ==
  \E j \in 1 .. n :
    /\ files[j].type = "verdict" /\ files[j].verdict \in Decisive
    /\ files[j].link = analysis
    /\ \A i \in j + 1 .. n : files[i].type # "verdict"

\* A promotion at place k is earned.
Earned(files, k) ==
  /\ nature = "measured" /\ Qualified
  /\ analysis \in Analyses
  /\ Decided(files, k - 1)

\* An event that was written completely.
WholeEvent(files, k) ==
  /\ Legal(files[k], StatusAfter(files, k - 1))
  /\ files[k].type = "verdict" =>
       files[k].verdict \in Verdicts /\ files[k].link \in Analyses
  /\ files[k].to \in {"REVIEWED", "M"} =>
       \E j \in 1 .. k : files[j].type = "review"
  /\ files[k].type = "promotion" => Earned(files, k)

EventOK(files, k) ==
  /\ files[k] \in EventRecords
  /\ files[k].previous = (IF k = 1 THEN 0 ELSE files[k - 1].hash)
  /\ files[k].previous < files[k].hash /\ files[k].hash <= hashes
  /\ StatusAfter(files, k - 1) # "M"
  /\ files[k].torn => k = Len(files)
  /\ ~files[k].torn => WholeEvent(files, k)

History(files) == \A k \in 1 .. Len(files) : EventOK(files, k)

HistoryInv == NamesInv /\ History(Files) /\ Len(Files) <= MaxEvents

-----------------------------------------------------------------------------
(* The operation under way.                                                *)

Working(p) == pc[p] \in {"list", "append", "state", "analysis", "index"}

\* The derived state says what the history says.
StateCurrent == state = StateOf(Replayed.status, Replayed.verdict, Replayed.latest)

\* What an operation that writes an event holds, from its checks until then.
EventPending(l) ==
  /\ Cardinality(DOMAIN events) < MaxEvents
  /\ l.op \in {"verdict", "review", "promotion"}
  /\ l.from = Replayed.status /\ l.from # "M"
  /\ <<l.from, l.to>> \in LegalTransitions[l.op]
  /\ IF l.op = "verdict"
       THEN l.verdict \in Verdicts /\ l.link \in Analyses
       ELSE l.verdict = Replayed.verdict /\ l.link = "none"
  /\ l.op = "promotion" =>
       nature = "measured" /\ Qualified /\ analysis \in Analyses
       /\ Decided(Files, Len(Files))

\* What holds of an operation at each of its steps.
OperationInv(p) ==
  LET l == local[p]
  IN  /\ ~Working(p) => l = Idle
      /\ Working(p) =>
           /\ HasRun /\ ~HasTornEvent
           /\ pc[p] = "state" \/ StateCurrent
           /\ dirty => l.op = "rebuild" /\ pc[p] \in {"state", "index"}
      /\ pc[p] \in {"list", "append"} => EventPending(l)
      /\ pc[p] = "append" =>
           l.id = Len(Files) + 1 /\ l.previous = LastHash(Files)
      /\ pc[p] = "state" =>
           /\ l.to = Replayed.status /\ l.verdict = Replayed.verdict
           /\ l.latest = Replayed.latest
      /\ pc[p] = "analysis" =>
           l.link \in Analyses /\ analysis = "none" /\ Replayed.status # "M"

\* The archive at rest, every crash rebuilt.
RestInv ==
  HasRun /\ ~dirty /\ (\A p \in Procs : pc[p] = "idle") =>
    /\ ~HasTornEvent
    /\ state = Absent \/ StateCurrent
    /\ index = Absent \/ index = IndexOfFiles

\* Nothing is there before the run.
VoidInv ==
  /\ HasRun <=> Len(Files) >= 1
  /\ ~HasRun => /\ events = <<>> /\ state = Absent /\ index = Absent
                /\ analysis = "none" /\ written = {} /\ analysed = {} /\ ~dirty

LocalRecords ==
  [op : EventTypes \cup {"none", "analysis", "rebuild"},
   from : Statuses \cup {"NONE"}, to : Statuses \cup {"NONE"},
   verdict : Verdicts \cup {"NOT_RUN"}, link : Contents,
   id : Nat, previous : Nat, latest : Nat]

StateRecords == [status : Statuses, verdict : Verdicts \cup {"NOT_RUN"},
                 locked : BOOLEAN, latest : 0 .. hashes]
IndexRecords == [events : SUBSET (1 .. hashes), analysis : Contents]

\* TypeOK, but for the events.
TypesInv ==
  /\ nature \in {"measured", "simulated"}
  /\ analysis \in Contents
  /\ state \in StateRecords \cup {Absent, Torn}
  /\ index \in IndexRecords \cup {Absent, Torn}
  /\ written \subseteq 1 .. hashes /\ analysed \subseteq Analyses
  /\ dirty \in BOOLEAN
  /\ local \in [Procs -> LocalRecords]

ArchiveInv ==
  /\ PublicationInv
  /\ TypesInv
  /\ HistoryInv
  /\ \A p \in Procs : OperationInv(p)
  /\ RestInv
  /\ VoidInv
  /\ AppendOnly

-----------------------------------------------------------------------------
(* A run that is published is whole.                                       *)

LEMMA FilesOfIs ==
  ASSUME NEW b \in BOOLEAN
  PROVE  FilesOf(b) \in Seq(FileNames) /\ Len(FilesOf(b)) \in Nat \ {0}
PROOF
  <1> DEFINE mid == IF b THEN <<"baseline">> ELSE <<>>
             pre == <<"definition", "context">>
             post == <<"series", "capture", "manifest", "event", "state", "index">>
  <1>1. mid \in Seq(FileNames) /\ Len(mid) \in Nat
    <2>1. <<"baseline">> \in Seq(FileNames) /\ <<>> \in Seq(FileNames)
      BY DEF FileNames
    <2>2. mid \in Seq(FileNames)
      BY <2>1
    <2> QED BY <2>2
  <1>2. pre \in Seq(FileNames) /\ Len(pre) > 0
    BY DEF FileNames
  <1>3. post \in Seq(FileNames) /\ Len(post) \in Nat
    BY DEF FileNames
  <1>4. FilesOf(b) = pre \o mid \o post
    BY DEF FilesOf
  <1> HIDE DEF mid, pre, post
  <1>5. pre \o mid \in Seq(FileNames) /\ Len(pre \o mid) > 0
    BY <1>1, <1>2
  <1> QED BY <1>3, <1>4, <1>5

LEMMA RestOfFiles ==
  ASSUME NEW s \in Seq(FileNames), NEW i \in 0 .. Len(s) - 1
  PROVE  LET todo == SubSeq(s, i + 1, Len(s))
         IN  /\ Len(todo) = Len(s) - i /\ Head(todo) = s[i + 1]
             /\ Tail(todo) = SubSeq(s, i + 2, Len(s))
PROOF
  <1> DEFINE todo == SubSeq(s, i + 1, Len(s))
             rest == SubSeq(s, i + 2, Len(s))
             n == Len(s)
  <1>1. n \in Nat /\ i \in Nat /\ i < n
    OBVIOUS
  <1>2. /\ todo \in Seq(FileNames) /\ Len(todo) = n - i
        /\ \A j \in 1 .. n - i : todo[j] = s[i + j]
    BY <1>1
  <1>3. /\ rest \in Seq(FileNames) /\ Len(rest) = n - i - 1
        /\ \A j \in 1 .. n - i - 1 : rest[j] = s[i + 1 + j]
    BY <1>1
  <1> HIDE DEF todo, rest, n
  <1>4. Head(todo) = s[i + 1]
    BY <1>1, <1>2
  <1>5. Tail(todo) = rest
    <2>1. /\ Tail(todo) \in Seq(FileNames) /\ Len(Tail(todo)) = n - i - 1
          /\ \A j \in 1 .. n - i - 1 : Tail(todo)[j] = todo[j + 1]
      BY <1>1, <1>2
    <2>2. \A j \in 1 .. n - i - 1 : Tail(todo)[j] = rest[j]
      BY <1>1, <1>2, <1>3, <2>1
    <2> QED BY <1>1, <1>3, <2>1, <2>2
  <1> QED BY <1>2, <1>4, <1>5 DEF todo, rest, n

\* Steps that leave the publication alone.
LEMMA PublicationKept ==
  ASSUME PublicationInv, hashes' \in Nat, hashes' >= hashes,
         NEW p \in Procs, ~Publishing(p), NEW phase \in Phases,
         phase \notin {"clear", "build", "rename"},
         phase = "idle" \/ HasRun,
         pc' = [pc EXCEPT ![p] = phase], runDir' = runDir,
         HasRun \/ (attempt' = attempt /\ staging' = staging)
  PROVE  PublicationInv'
PROOF
  <1>1. /\ hashes \in Nat /\ pc \in [Procs -> Phases]
        /\ \A r, q \in Procs : Publishing(r) /\ Publishing(q) => r = q
        /\ \A q \in Procs : Publishing(q) =>
             /\ ~HasRun
             /\ attempt \in Attempts
             /\ \E baseline \in BOOLEAN : AttemptOf(q, baseline)
        /\ \A q \in Procs : pc[q] = "idle" \/ Publishing(q) \/ HasRun
        /\ PublishedIsWhole
    BY DEF PublicationInv
  <1>2. HasRun' = HasRun
    BY DEF HasRun
  <1>3. \A q \in Procs : pc'[q] = IF q = p THEN phase ELSE pc[q]
    BY <1>1
  <1>4. \A q \in Procs : Publishing(q)' <=> Publishing(q)
    BY <1>3 DEF Publishing
  <1>5. ASSUME NEW q \in Procs, Publishing(q)'
        PROVE  /\ ~HasRun' /\ attempt' \in Attempts'
               /\ \E baseline \in BOOLEAN : AttemptOf(q, baseline)'
    <2>1. Publishing(q) /\ q # p /\ ~HasRun /\ pc'[q] = pc[q]
      BY <1>1, <1>3, <1>4, <1>5
    <2>2. attempt' = attempt /\ staging' = staging
      BY <2>1
    <2>3. attempt' \in Attempts'
      BY <1>1, <2>1, <2>2 DEF Attempts
    <2>4. PICK baseline \in BOOLEAN : AttemptOf(q, baseline)
      BY <1>1, <2>1
    <2>5. AttemptOf(q, baseline)'
      BY <2>1, <2>2, <2>4 DEF AttemptOf, Built
    <2> QED BY <1>2, <2>1, <2>3, <2>5
  <1>6. PublishedIsWhole'
    BY <1>1, <1>2 DEF PublishedIsWhole
  <1>7. \A q \in Procs : pc'[q] = "idle" \/ Publishing(q)' \/ HasRun'
    BY <1>1, <1>2, <1>3, <1>4
  <1>8. pc' \in [Procs -> Phases]
    BY <1>1
  <1> QED BY <1>1, <1>4, <1>5, <1>6, <1>7, <1>8 DEF PublicationInv

\* Steps after which nobody publishes.
LEMMA NobodyPublishes ==
  ASSUME PublicationInv, hashes' \in Nat, hashes' >= hashes,
         NEW p \in Procs, Publishing(p), pc' = [pc EXCEPT ![p] = "idle"],
         PublishedIsWhole'
  PROVE  PublicationInv'
PROOF
  <1>1. /\ pc \in [Procs -> Phases] /\ ~HasRun
        /\ \A r, q \in Procs : Publishing(r) /\ Publishing(q) => r = q
        /\ \A q \in Procs : pc[q] = "idle" \/ Publishing(q) \/ HasRun
    BY DEF PublicationInv
  <1>2. \A q \in Procs : pc'[q] = "idle"
    BY <1>1
  <1>3. \A q \in Procs : ~Publishing(q)'
    BY <1>2 DEF Publishing
  <1>4. pc' \in [Procs -> Phases]
    BY <1>1 DEF Phases
  <1> QED BY <1>2, <1>3, <1>4 DEF PublicationInv

\* A step of the process that publishes, from one phase of it to another.
LEMMA AttemptGoesOn ==
  ASSUME PublicationInv, NEW p \in Procs, hashes' \in Nat, hashes' >= hashes,
         Publishing(p) \/ \A q \in Procs : ~Publishing(q),
         ~HasRun, runDir' = runDir,
         NEW phase \in {"clear", "build", "rename"},
         pc' = [pc EXCEPT ![p] = phase], attempt' \in Attempts',
         NEW baseline \in BOOLEAN, AttemptOf(p, baseline)'
  PROVE  PublicationInv'
PROOF
  <1>1. /\ pc \in [Procs -> Phases]
        /\ \A r, q \in Procs : Publishing(r) /\ Publishing(q) => r = q
        /\ \A q \in Procs : pc[q] = "idle" \/ Publishing(q)
    BY DEF PublicationInv
  <1>2. /\ pc'[p] = phase /\ \A q \in Procs : q # p => pc'[q] = pc[q]
        /\ pc' \in [Procs -> Phases]
    BY <1>1 DEF Phases
  <1>3. \A q \in Procs : Publishing(q)' <=> q = p
    BY <1>1, <1>2 DEF Publishing
  <1>4. ~HasRun' /\ PublishedIsWhole'
    BY DEF HasRun, PublishedIsWhole
  <1>5. \A q \in Procs : pc'[q] = "idle" \/ Publishing(q)'
    BY <1>1, <1>2, <1>3
  <1> QED BY <1>2, <1>3, <1>4, <1>5 DEF PublicationInv

LEMMA PublicationInitInv == ASSUME Init PROVE PublicationInv
PROOF
  <1>1. /\ pc = [p \in Procs |-> "idle"] /\ hashes = 0 /\ runDir = <<>>
    BY DEF Init, PublicationInit
  <1>2. ~HasRun
    BY <1>1 DEF HasRun
  <1>3. \A p \in Procs : ~Publishing(p)
    BY <1>1 DEF Publishing
  <1>4. pc \in [Procs -> Phases]
    BY <1>1 DEF Phases
  <1> QED BY <1>1, <1>2, <1>3, <1>4 DEF PublicationInv, PublishedIsWhole

LEMMA RunCampaignPublishes ==
  ASSUME PublicationInv, NEW p \in Procs, RunCampaign(p) PROVE PublicationInv'
PROOF
  <1>1. PICK baseline \in BOOLEAN :
          attempt' = [id |-> hashes + 1, todo |-> FilesOf(baseline)]
    BY DEF RunCampaign
  <1>2. /\ hashes' = hashes + 1 /\ pc' = [pc EXCEPT ![p] = "clear"]
        /\ runDir' = runDir /\ ~HasRun /\ \A q \in Procs : ~Publishing(q)
    BY DEF RunCampaign
  <1>3. hashes \in Nat /\ pc \in [Procs -> Phases]
    BY DEF PublicationInv
  <1>4. pc'[p] = "clear"
    BY <1>2, <1>3
  <1>5. AttemptOf(p, baseline)'
    BY <1>1, <1>4 DEF AttemptOf
  <1>6. hashes' \in Nat /\ hashes' >= hashes /\ attempt' \in Attempts'
    BY <1>1, <1>2, <1>3, FilesOfIs DEF Attempts
  <1> QED BY <1>2, <1>5, <1>6, AttemptGoesOn

LEMMA ClearStagingPublishes ==
  ASSUME PublicationInv, NEW p \in Procs, ClearStaging(p) PROVE PublicationInv'
PROOF
  <1>1. /\ pc[p] = "clear" /\ staging' = <<>>
        /\ pc' = [pc EXCEPT ![p] = "build"]
        /\ hashes' = hashes /\ attempt' = attempt /\ runDir' = runDir
    BY DEF ClearStaging
  <1>2. Publishing(p)
    BY <1>1 DEF Publishing
  <1>3. PICK baseline \in BOOLEAN : AttemptOf(p, baseline)
    BY <1>2 DEF PublicationInv
  <1>4. /\ hashes \in Nat /\ pc \in [Procs -> Phases] /\ ~HasRun
        /\ attempt \in Attempts
    BY <1>2 DEF PublicationInv
  <1> DEFINE files == FilesOf(baseline)
  <1>5. files \in Seq(FileNames) /\ Len(files) \in Nat \ {0}
    BY FilesOfIs
  <1>6. attempt.todo = files
    BY <1>1, <1>3 DEF AttemptOf
  <1> HIDE DEF files
  <1>7. SubSeq(files, 1, Len(files)) = files
    BY <1>5
  <1>8. staging' = [file \in {files[j] : j \in 1 .. 0} |-> attempt'.id]
    BY <1>1
  <1>9. pc'[p] = "build"
    BY <1>1, <1>4
  <1>10. Built(baseline, 0)'
    BY <1>1, <1>6, <1>7, <1>8 DEF Built, files
  <1>11. 0 \in 0 .. Len(files) - 1
    BY <1>5
  <1>12. AttemptOf(p, baseline)'
    BY <1>9, <1>10, <1>11 DEF AttemptOf, files
  <1>13. hashes' \in Nat /\ hashes' >= hashes /\ attempt' \in Attempts'
    BY <1>1, <1>4 DEF Attempts
  <1> QED BY <1>1, <1>2, <1>4, <1>12, <1>13, AttemptGoesOn

LEMMA WriteFilePublishes ==
  ASSUME PublicationInv, NEW p \in Procs, WriteFile(p) PROVE PublicationInv'
PROOF
  <1>1. /\ pc[p] = "build"
        /\ staging' = With(staging, Head(attempt.todo), attempt.id)
        /\ attempt' = [attempt EXCEPT !.todo = Tail(attempt.todo)]
        /\ pc' = [pc EXCEPT ![p] =
                    IF Len(attempt.todo) = 1 THEN "rename" ELSE "build"]
        /\ hashes' = hashes /\ runDir' = runDir
    BY DEF WriteFile
  <1>2. Publishing(p)
    BY <1>1 DEF Publishing
  <1>3. PICK baseline \in BOOLEAN : AttemptOf(p, baseline)
    BY <1>2 DEF PublicationInv
  <1>4. /\ hashes \in Nat /\ pc \in [Procs -> Phases] /\ ~HasRun
        /\ attempt \in Attempts
    BY <1>2 DEF PublicationInv
  <1> DEFINE files == FilesOf(baseline)
             n == Len(files)
             left == Len(attempt.todo)
             done(k) == {files[j] : j \in 1 .. k}
  <1>5. files \in Seq(FileNames) /\ n \in Nat \ {0}
    BY FilesOfIs
  <1>6. PICK i \in 0 .. n - 1 : Built(baseline, i)
    BY <1>1, <1>3 DEF AttemptOf
  <1>7. /\ attempt.todo = SubSeq(files, i + 1, n)
        /\ staging = [file \in done(i) |-> attempt.id]
    BY <1>6 DEF Built
  <1> HIDE DEF files
  <1>8. /\ left = n - i /\ Head(attempt.todo) = files[i + 1]
        /\ Tail(attempt.todo) = SubSeq(files, i + 2, n)
    BY <1>5, <1>7, RestOfFiles
  <1>9. /\ attempt'.id = attempt.id /\ attempt'.todo = SubSeq(files, i + 2, n)
        /\ attempt' \in Attempts'
    <2>1. SubSeq(files, i + 2, n) \in Seq(FileNames)
      BY <1>5
    <2> QED BY <1>1, <1>4, <1>8, <2>1 DEF Attempts
  <1>10. staging' = [file \in done(i + 1) |-> attempt'.id]
    <2>1. done(i + 1) = done(i) \cup {files[i + 1]}
      BY <1>5
    <2> HIDE DEF done
    <2>2. staging' = With(staging, files[i + 1], attempt.id)
      BY <1>1, <1>8
    <2>3. DOMAIN staging = done(i) /\ \A f \in done(i) : staging[f] = attempt.id
      BY <1>7
    <2> QED BY <1>9, <2>1, <2>2, <2>3 DEF With
  <1>11. CASE i = n - 1
    <2>1. left = 1
      BY <1>5, <1>8, <1>11
    <2>2. pc' = [pc EXCEPT ![p] = "rename"] /\ pc'[p] = "rename"
      BY <1>1, <1>4, <2>1
    <2>3. done(i + 1) = ToSet(files)
      BY <1>5, <1>11 DEF ToSet
    <2>4. AttemptOf(p, baseline)'
      BY <1>10, <2>2, <2>3 DEF AttemptOf, files
    <2>5. hashes' \in Nat /\ hashes' >= hashes
      BY <1>1, <1>4
    <2> QED BY <1>1, <1>2, <1>4, <1>9, <2>2, <2>4, <2>5, AttemptGoesOn
  <1>12. CASE i < n - 1
    <2>1. left # 1
      <3> HIDE DEF n, left
      <3> QED BY <1>5, <1>8, <1>12
    <2>2. pc' = [pc EXCEPT ![p] = "build"] /\ pc'[p] = "build"
      BY <1>1, <1>4, <2>1
    <2>3. Built(baseline, i + 1)'
      BY <1>5, <1>9, <1>10 DEF Built, files
    <2>4. i + 1 \in 0 .. n - 1
      BY <1>5, <1>12
    <2>5. AttemptOf(p, baseline)'
      BY <2>2, <2>3, <2>4 DEF AttemptOf, files
    <2>6. hashes' \in Nat /\ hashes' >= hashes
      BY <1>1, <1>4
    <2> QED BY <1>1, <1>2, <1>4, <1>9, <2>2, <2>5, <2>6, AttemptGoesOn
  <1> QED BY <1>5, <1>11, <1>12

LEMMA AbandonPublishes ==
  ASSUME PublicationInv, NEW p \in Procs, Abandon(p) PROVE PublicationInv'
PROOF
  <1>1. /\ pc[p] = "build" /\ pc' = [pc EXCEPT ![p] = "idle"]
        /\ hashes' = hashes /\ runDir' = runDir
    BY DEF Abandon
  <1>2. Publishing(p) /\ hashes \in Nat /\ PublishedIsWhole
    BY <1>1 DEF Publishing, PublicationInv
  <1>3. PublishedIsWhole'
    BY <1>1, <1>2 DEF PublishedIsWhole, HasRun
  <1>4. hashes' \in Nat /\ hashes' >= hashes
    BY <1>1, <1>2
  <1> QED BY <1>1, <1>2, <1>3, <1>4, NobodyPublishes

LEMMA PublishPublishes ==
  ASSUME PublicationInv, NEW p \in Procs, Publish(p)
  PROVE  /\ PublicationInv' /\ ~HasRun /\ HasRun' /\ Publishing(p)
         /\ \E baseline \in BOOLEAN :
              runDir' = [file \in ToSet(FilesOf(baseline)) |-> attempt.id]
         /\ attempt.id \in 1 .. hashes
PROOF
  <1>1. /\ pc[p] = "rename" /\ pc' = [pc EXCEPT ![p] = "idle"]
        /\ hashes' = hashes /\ runDir' = staging
    BY DEF Publish
  <1>2. Publishing(p) /\ hashes \in Nat
    BY <1>1 DEF Publishing, PublicationInv
  <1>3. ~HasRun /\ attempt.id \in 1 .. hashes
    BY <1>2 DEF PublicationInv, Attempts
  <1>4. PICK baseline \in BOOLEAN : AttemptOf(p, baseline)
    BY <1>2 DEF PublicationInv
  <1>5. runDir' = [file \in ToSet(FilesOf(baseline)) |-> attempt.id]
    BY <1>1, <1>4 DEF AttemptOf
  <1>6. PublishedIsWhole'
    BY <1>1, <1>3, <1>5 DEF PublishedIsWhole
  <1>7. HasRun'
    BY <1>5, FilesOfIs DEF HasRun, ToSet
  <1>8. hashes' \in Nat /\ hashes' >= hashes
    BY <1>1, <1>2
  <1> QED BY <1>1, <1>2, <1>3, <1>5, <1>6, <1>7, <1>8, NobodyPublishes

\* What is read of a run that is not there.
NothingToRead == HasRun \/ state = Absent

LEMMA OperatePublication ==
  ASSUME PublicationInv, NothingToRead, NEW p \in Procs, Operate(p)
  PROVE  PublicationInv' /\ NothingToRead' /\ HasRun
PROOF
  <1>1. /\ pc[p] = "idle"
        /\ \E phase \in {"list", "analysis", "state"} : pc' = [pc EXCEPT ![p] = phase]
        /\ hashes' = hashes /\ runDir' = runDir /\ state' = state
        /\ HasRun
    <2>1. CASE RebuildDerived(p)
      BY <2>1 DEF RebuildDerived, Starts, given, publication, archive
    <2>2. CASE RecordVerdict(p) \/ RecordAnalysis(p) \/ MarkReviewed(p)
               \/ PromoteToMeasured(p)
      BY <2>2 DEF RecordVerdict, RecordAnalysis, MarkReviewed, PromoteToMeasured,
           MayStart, StartEvent, Starts, given, publication, archive, Readable,
           NothingToRead
    <2> QED BY <2>1, <2>2 DEF Operate
  <1>2. PICK phase \in {"list", "analysis", "state"} : pc' = [pc EXCEPT ![p] = phase]
    BY <1>1
  <1>3. ~Publishing(p) /\ phase \in Phases /\ phase \notin {"clear", "build", "rename"}
    BY <1>1 DEF Publishing, Phases
  <1>4. hashes' \in Nat /\ hashes' >= hashes
    BY <1>1 DEF PublicationInv
  <1>5. PublicationInv'
    BY <1>1, <1>2, <1>3, <1>4, PublicationKept
  <1>6. NothingToRead'
    BY <1>1 DEF NothingToRead, HasRun
  <1> QED BY <1>1, <1>5, <1>6

LEMMA WritePublication ==
  ASSUME PublicationInv, NEW p \in Procs, Write(p)
  PROVE  PublicationInv' /\ NothingToRead' /\ HasRun
PROOF
  <1>1. /\ pc[p] \in {"list", "append", "state", "analysis", "index"}
        /\ \E phase \in {"append", "state", "index", "idle"} :
             pc' = [pc EXCEPT ![p] = phase]
        /\ hashes' = hashes \/ hashes' = hashes + 1
        /\ runDir' = runDir
    BY DEF Write, List, AppendEvent, WriteState, WriteAnalysis, WriteIndex, given,
         publication
  <1>2. PICK phase \in {"append", "state", "index", "idle"} :
          pc' = [pc EXCEPT ![p] = phase]
    BY <1>1
  <1>3. ~Publishing(p) /\ phase \in Phases /\ phase \notin {"clear", "build", "rename"}
    BY <1>1 DEF Publishing, Phases
  <1>4. HasRun
    BY <1>1, <1>3 DEF PublicationInv
  <1>5. hashes' \in Nat /\ hashes' >= hashes
    BY <1>1 DEF PublicationInv
  <1>6. PublicationInv'
    BY <1>1, <1>2, <1>3, <1>4, <1>5, PublicationKept
  <1> QED BY <1>1, <1>4, <1>6 DEF NothingToRead, HasRun

LEMMA CrashPublication ==
  ASSUME PublicationInv, NothingToRead, NEW p \in Procs, Crash(p)
  PROVE  PublicationInv' /\ NothingToRead'
PROOF
  <1>1. /\ pc[p] # "idle" /\ pc' = [pc EXCEPT ![p] = "idle"]
        /\ hashes' = hashes \/ hashes' = hashes + 1
        /\ runDir' = runDir
    BY DEF Crash, TearFile, archive
  <1>2. hashes' \in Nat /\ hashes' >= hashes /\ PublishedIsWhole /\ hashes \in Nat
    BY <1>1 DEF PublicationInv
  <1>3. CASE Publishing(p)
    <2>1. PublishedIsWhole'
      BY <1>1, <1>2 DEF PublishedIsWhole, HasRun
    <2>2. state' = state
      <3>1. pc[p] \in {"clear", "build", "rename"}
        BY <1>3 DEF Publishing
      <3> QED BY <3>1 DEF Crash, TearFile, archive
    <2> QED BY <1>1, <1>2, <1>3, <2>1, <2>2, NobodyPublishes DEF NothingToRead, HasRun
  <1>4. CASE ~Publishing(p)
    <2>1. HasRun
      BY <1>1, <1>4 DEF PublicationInv
    <2>2. "idle" \in Phases
      BY DEF Phases
    <2>3. PublicationInv'
      BY <1>1, <1>2, <1>4, <2>1, <2>2, PublicationKept
    <2> QED BY <1>1, <2>1, <2>3 DEF NothingToRead, HasRun
  <1> QED BY <1>3, <1>4

LEMMA UnchangedPublication ==
  ASSUME PublicationInv, pc' = pc, hashes' = hashes, runDir' = runDir,
         attempt' = attempt, staging' = staging
  PROVE  PublicationInv' /\ HasRun' = HasRun
PROOF
  <1>1. \A p \in Procs : Publishing(p)' <=> Publishing(p)
    BY DEF Publishing
  <1>2. HasRun' = HasRun /\ PublishedIsWhole' = PublishedIsWhole /\ Attempts' = Attempts
    BY DEF PublishedIsWhole, HasRun, Attempts
  <1>3. \A p \in Procs, b \in BOOLEAN : AttemptOf(p, b)' <=> AttemptOf(p, b)
    BY DEF AttemptOf, Built
  <1> QED BY <1>1, <1>2, <1>3 DEF PublicationInv

LEMMA PublicationStep ==
  ASSUME PublicationInv, NothingToRead, [Next]_vars
  PROVE  PublicationInv' /\ NothingToRead'
PROOF
  <1>1. ASSUME NEW p \in Procs, Campaign(p)
        PROVE  PublicationInv' /\ NothingToRead'
    <2>1. CASE RunCampaign(p) /\ UNCHANGED archive
      BY <2>1, RunCampaignPublishes DEF NothingToRead, archive, RunCampaign, HasRun
    <2>2. CASE ClearStaging(p) /\ UNCHANGED archive
      BY <2>2, ClearStagingPublishes DEF NothingToRead, archive, ClearStaging, HasRun
    <2>3. CASE WriteFile(p) /\ UNCHANGED archive
      BY <2>3, WriteFilePublishes DEF NothingToRead, archive, WriteFile, HasRun
    <2>4. CASE Abandon(p) /\ UNCHANGED archive
      BY <2>4, AbandonPublishes DEF NothingToRead, archive, Abandon, HasRun
    <2>5. CASE PublishRun(p)
      BY <2>5, PublishPublishes DEF NothingToRead, PublishRun
    <2> QED BY <1>1, <2>1, <2>2, <2>3, <2>4, <2>5 DEF Campaign
  <1>2. CASE DeleteDerived
    BY <1>2, UnchangedPublication DEF DeleteDerived, given, publication, NothingToRead
  <1>3. CASE UNCHANGED vars
    BY <1>3, UnchangedPublication DEF vars, given, publication, NothingToRead, archive
  <1> QED BY <1>1, <1>2, <1>3, OperatePublication, WritePublication, CrashPublication
       DEF Next

-----------------------------------------------------------------------------
(* tooling.md:69-72, for any number of processes: what run_campaign leaves *)
(* under the name of a run is whole, whatever raised or died on the way.   *)
THEOREM RunsArePublishedWhole == Spec => []PublishedIsWhole
PROOF
  <1>1. Init => PublicationInv /\ NothingToRead
    BY PublicationInitInv DEF NothingToRead, Init
  <1>2. PublicationInv /\ NothingToRead /\ [Next]_vars => PublicationInv' /\ NothingToRead'
    BY PublicationStep
  <1>3. PublicationInv => PublishedIsWhole
    BY DEF PublicationInv
  <1> QED BY <1>1, <1>2, <1>3, PTL DEF Spec

-----------------------------------------------------------------------------
(* The files, in their order.                                              *)

LEMMA NameIs ==
  ASSUME NEW k \in Nat, NEW type \in EventTypes
  PROVE  Name(k, type) \in Nat /\ 4 * k <= Name(k, type) /\ Name(k, type) <= 4 * k + 3
PROOF
  <1>1. TypeRank[type] \in 0 .. 3
    BY DEF TypeRank, EventTypes
  <1> QED BY <1>1 DEF Name

\* The images of an increasing function are counted by its domain.
LEMMA CountNames ==
  ASSUME NEW n \in Nat, NEW g \in [1 .. n -> Nat],
         \A i, j \in 1 .. n : i < j => g[i] < g[j]
  PROVE  LET names == {g[k] : k \in 1 .. n}
         IN  IsFiniteSet(names) /\ Cardinality(names) = n
PROOF
  <1> DEFINE names == {g[k] : k \in 1 .. n}
  <1>1. g \in Bijection(1 .. n, names)
    <2>1. \A i, j \in 1 .. n : g[i] = g[j] => i = j
      OBVIOUS
    <2>2. g \in [1 .. n -> names] /\ \A x \in names : \E k \in 1 .. n : g[k] = x
      OBVIOUS
    <2> HIDE DEF names
    <2> QED BY <2>1, <2>2 DEF Bijection, Injection, Surjection,
         IsInjective
  <1>2. ExistsBijection(1 .. n, names)
    BY <1>1 DEF ExistsBijection
  <1> HIDE DEF names
  <1>3. IsFiniteSet(names) /\ Cardinality(names) = n
    BY <1>2, FS_CountingElements, FS_NatBijection
  <1> QED BY <1>3 DEF names

LEMMA InOrderIs ==
  ASSUME NEW n \in Nat, NEW t \in [1 .. n -> EventTypes], NEW dir,
         DOMAIN dir = {Name(k, t[k]) : k \in 1 .. n}
  PROVE  /\ IsFiniteSet(DOMAIN dir) /\ Cardinality(DOMAIN dir) = n
         /\ InOrder(dir) = [k \in 1 .. n |-> dir[Name(k, t[k])]]
PROOF
  <1> DEFINE names == DOMAIN dir
             g == [k \in 1 .. n |-> Name(k, t[k])]
  <1>1. /\ g \in [1 .. n -> Nat]
        /\ \A i, j \in 1 .. n : i < j => g[i] < g[j]
    <2>1. ASSUME NEW k \in 1 .. n
          PROVE  g[k] \in Nat /\ 4 * k <= g[k] /\ g[k] <= 4 * k + 3
      <3>1. k \in Nat /\ t[k] \in EventTypes /\ g[k] = Name(k, t[k])
        OBVIOUS
      <3> HIDE DEF g
      <3> QED BY <3>1, NameIs
    <2>2. g \in [1 .. n -> Nat]
      BY <2>1
    <2> HIDE DEF g
    <2> QED BY <2>1, <2>2
  <1>2. names = {g[k] : k \in 1 .. n} /\ \A k \in 1 .. n : g[k] = Name(k, t[k])
    OBVIOUS
  <1> HIDE DEF names
  <1> HIDE DEF g
  <1>3. IsFiniteSet(names) /\ Cardinality(names) = n
    BY <1>1, <1>2, CountNames
  <1> DEFINE below(m) == {x \in names : x <= m}
  <1>4. ASSUME NEW k \in 1 .. n PROVE Cardinality(below(g[k])) = k
    <2> DEFINE h == [i \in 1 .. k |-> g[i]]
    <2>1. k \in Nat /\ h \in [1 .. k -> Nat] /\ \A i \in 1 .. k : h[i] = g[i]
      BY <1>1
    <2> HIDE DEF h
    <2>2. \A i, j \in 1 .. k : i < j => h[i] < h[j]
      BY <1>1, <2>1
    <2>3. below(g[k]) = {h[i] : i \in 1 .. k}
      <3>1. \A i \in 1 .. n : g[i] <= g[k] <=> i <= k
        BY <1>1
      <3> QED BY <1>2, <2>1, <3>1
    <2> HIDE DEF below
    <2> QED BY <2>1, <2>2, <2>3, CountNames
  <1>5. ASSUME NEW k \in 1 .. n
        PROVE  (CHOOSE x \in names : Cardinality(below(x)) = k) = g[k]
    <2>1. g[k] \in names /\ Cardinality(below(g[k])) = k
      BY <1>2, <1>4
    <2>2. \A x \in names : Cardinality(below(x)) = k => x = g[k]
      BY <1>2, <1>4
    <2> HIDE DEF below
    <2> QED BY <2>1, <2>2
  <1>6. InOrder(dir) =
          [k \in 1 .. n |-> dir[CHOOSE x \in names : Cardinality(below(x)) = k]]
    BY <1>3 DEF InOrder, names
  <1> HIDE DEF below
  <1> QED BY <1>2, <1>3, <1>5, <1>6 DEF names

\* What a well-formed directory holds.
LEMMA FilesAre ==
  ASSUME NamesInv, History(Files)
  PROVE  LET n == Cardinality(DOMAIN events)
         IN  /\ n \in Nat /\ IsFiniteSet(DOMAIN events)
             /\ Files \in [1 .. n -> EventRecords] /\ Len(Files) = n
             /\ Files \in Seq(EventRecords)
             /\ DOMAIN events = {Name(k, Files[k].type) : k \in 1 .. n}
             /\ \A k \in 1 .. n : Files[k] = events[Name(k, Files[k].type)]
PROOF
  <1> DEFINE n == Cardinality(DOMAIN events)
             t == [k \in 1 .. n |-> Files[k].type]
             f == Files
  <1>1. n \in Nat /\ IsFiniteSet(DOMAIN events)
    BY FS_CardinalityType DEF NamesInv
  <1>2. DOMAIN f = 1 .. n /\ Len(f) = n
    BY <1>1 DEF Files, InOrder
  <1> HIDE DEF n, f
  <1>3. \A k \in 1 .. n : f[k] \in EventRecords
    BY <1>2 DEF History, EventOK, f
  <1>4. f = [k \in 1 .. n |-> f[k]]
    BY <1>2 DEF Files, InOrder, f, n
  <1>5. f \in [1 .. n -> EventRecords] /\ f \in Seq(EventRecords)
    BY <1>1, <1>3, <1>4
  <1>6. \A k \in 1 .. n : t[k] \in EventTypes /\ t[k] = f[k].type
    BY <1>3 DEF EventRecords, f
  <1>7. t \in [1 .. n -> EventTypes]
    BY <1>6
  <1>8. DOMAIN events = {Name(k, t[k]) : k \in 1 .. n}
    BY <1>2 DEF NamesInv, f
  <1> HIDE DEF t
  <1>9. f = [k \in 1 .. n |-> events[Name(k, t[k])]]
    BY <1>1, <1>7, <1>8, InOrderIs DEF Files, f
  <1>10. \A k \in 1 .. n : f[k] = events[Name(k, f[k].type)]
    BY <1>6, <1>9
  <1>11. DOMAIN events = {Name(k, f[k].type) : k \in 1 .. n}
    BY <1>6, <1>8
  <1> QED BY <1>1, <1>2, <1>5, <1>10, <1>11 DEF f, n

\* A file written under the next number is the last of the directory.
LEMMA AppendFile ==
  ASSUME NamesInv, History(Files), NEW e \in EventRecords,
         events' = With(events, Name(Len(Files) + 1, e.type), e)
  PROVE  /\ NamesInv' /\ Files' = Append(Files, e)
         /\ Cardinality(DOMAIN events)' = Len(Files) + 1
         /\ \A n \in DOMAIN events : n \in DOMAIN events' /\ events'[n] = events[n]
         /\ Name(Len(Files) + 1, e.type) \in DOMAIN events'
         /\ events'[Name(Len(Files) + 1, e.type)] = e
PROOF
  <1> DEFINE f == Files
             n == Len(Files)
             t == [k \in 1 .. n + 1 |-> IF k <= n THEN f[k].type ELSE e.type]
             new == Name(n + 1, e.type)
  <1>1. /\ n \in Nat /\ IsFiniteSet(DOMAIN events)
        /\ f \in [1 .. n -> EventRecords] /\ Len(f) = n /\ f \in Seq(EventRecords)
        /\ DOMAIN events = {Name(k, f[k].type) : k \in 1 .. n}
        /\ \A k \in 1 .. n : f[k] = events[Name(k, f[k].type)]
    BY FilesAre
  <1> HIDE DEF f, n
  <1>2. e.type \in EventTypes /\ \A k \in 1 .. n : f[k].type \in EventTypes
    BY <1>1 DEF EventRecords
  <1>3. /\ t \in [1 .. n + 1 -> EventTypes]
        /\ \A k \in 1 .. n : t[k] = f[k].type
        /\ t[n + 1] = e.type
    BY <1>1, <1>2
  <1> HIDE DEF t
  <1>4. new \notin DOMAIN events
    <2>1. new >= 4 * (n + 1)
      BY <1>1, <1>2, NameIs
    <2>2. ASSUME NEW k \in 1 .. n PROVE Name(k, f[k].type) <= 4 * k + 3 /\ Name(k, f[k].type) \in Nat
      <3>1. k \in Nat
        BY <1>1
      <3> QED BY <1>2, <3>1, NameIs
    <2>3. new \in Nat
      <3>1. n + 1 \in Nat
        BY <1>1
      <3> QED BY <1>2, <3>1, NameIs
    <2> HIDE DEF new
    <2> QED BY <1>1, <2>1, <2>2, <2>3
  <1>5. events' = With(events, new, e)
    BY DEF n
  <1>6. /\ DOMAIN events' = DOMAIN events \cup {new}
        /\ events'[new] = e
        /\ \A m \in DOMAIN events : events'[m] = events[m]
    BY <1>4, <1>5 DEF With
  <1>7. DOMAIN events' = {Name(k, t[k]) : k \in 1 .. n + 1}
    <2>1. {Name(k, t[k]) : k \in 1 .. n + 1} = {Name(k, t[k]) : k \in 1 .. n} \cup {new}
      BY <1>1, <1>3
    <2>2. {Name(k, t[k]) : k \in 1 .. n} = {Name(k, f[k].type) : k \in 1 .. n}
      BY <1>3
    <2> QED BY <1>1, <1>6, <2>1, <2>2
  <1>8. \A k \in 1 .. n : events'[Name(k, t[k])] = f[k]
    BY <1>1, <1>3, <1>6
  <1>9. events'[Name(n + 1, t[n + 1])] = e
    BY <1>3, <1>6
  <1>10. /\ IsFiniteSet(DOMAIN events') /\ Cardinality(DOMAIN events') = n + 1
         /\ InOrder(events') = [k \in 1 .. n + 1 |-> events'[Name(k, t[k])]]
    <2> DEFINE m == n + 1
               dir == events'
    <2>1. m \in Nat /\ t \in [1 .. m -> EventTypes]
      BY <1>1, <1>3
    <2>2. DOMAIN dir = {Name(k, t[k]) : k \in 1 .. m}
      BY <1>7
    <2> HIDE DEF m, dir
    <2>3. /\ IsFiniteSet(DOMAIN dir) /\ Cardinality(DOMAIN dir) = m
          /\ InOrder(dir) = [k \in 1 .. m |-> dir[Name(k, t[k])]]
      BY <2>1, <2>2, InOrderIs
    <2> QED BY <2>3 DEF m, dir
  <1>11. Files' = Append(f, e)
    <2>1. DOMAIN Files' = 1 .. n + 1
      BY <1>10 DEF Files
    <2>2. \A k \in 1 .. n : Files'[k] = f[k]
      BY <1>1, <1>8, <1>10 DEF Files
    <2>3. Files'[n + 1] = e
      BY <1>1, <1>9, <1>10 DEF Files
    <2>4. Files' = [k \in 1 .. n + 1 |-> Files'[k]]
      BY <1>10 DEF Files
    <2>5. Files' \in Seq(EventRecords) /\ Len(Files') = n + 1
      <3> DEFINE F == Files'
      <3>1. F \in [1 .. n + 1 -> EventRecords]
        <4> HIDE DEF F
        <4>1. \A k \in 1 .. n + 1 : F[k] \in EventRecords
          BY <1>1, <2>2, <2>3 DEF F
        <4> QED BY <2>1, <2>4, <4>1 DEF F
      <3> HIDE DEF F
      <3>2. F \in Seq(EventRecords) /\ Len(F) = n + 1
        BY <1>1, <3>1
      <3> QED BY <3>2 DEF F
    <2>6. /\ Append(f, e) \in Seq(EventRecords) /\ Len(Append(f, e)) = n + 1
          /\ \A k \in 1 .. n : Append(f, e)[k] = f[k]
          /\ Append(f, e)[n + 1] = e
      BY <1>1
    <2> QED BY <1>1, <2>2, <2>3, <2>5, <2>6
  <1>12. NamesInv'
    <2>1. Len(Append(f, e)) = n + 1 /\ \A k \in 1 .. n + 1 : Append(f, e)[k].type = t[k]
      BY <1>1, <1>3
    <2>2. Len(Files') = n + 1 /\ \A k \in 1 .. n + 1 : Files'[k].type = t[k]
      BY <1>11, <2>1
    <2>3. {Name(k, Files'[k].type) : k \in 1 .. Len(Files')} = {Name(k, t[k]) : k \in 1 .. n + 1}
      BY <2>2
    <2> QED BY <1>7, <1>10, <2>3 DEF NamesInv
  <1> QED BY <1>6, <1>10, <1>11, <1>12 DEF f, n

-----------------------------------------------------------------------------
(* The last verdict of a history.                                          *)

LEMMA MaxIs ==
  ASSUME NEW n \in Nat, NEW S \in SUBSET (1 .. n), S # {}
  PROVE  Max(S) \in S /\ \A i \in S : i <= Max(S)
PROOF
  <1> DEFINE R == {ss \in Nat \X Nat : ss[1] < ss[2]}
             T == {n - i : i \in S}
  <1>1. IsWellFoundedOn(R, Nat)
    BY NatLessThanWellFounded DEF OpToRel
  <1>2. T \subseteq Nat /\ T # {}
    <2>1. \A i \in S : n - i \in Nat
      OBVIOUS
    <2> QED BY <2>1
  <1>3. PICK x \in T : \A y \in T : ~(<<y, x>> \in R)
    <2> HIDE DEF R, T
    <2> QED BY <1>1, <1>2, WFMin
  <1>4. n - x \in S
    OBVIOUS
  <1>5. ASSUME NEW i \in S PROVE i <= n - x
    <2>1. n - i \in T
      OBVIOUS
    <2>2. n - i \in Nat /\ x \in Nat
      OBVIOUS
    <2>3. ~(n - i < x)
      BY <1>3, <2>1, <2>2
    <2> QED BY <2>2, <2>3
  <1> QED BY <1>4, <1>5 DEF Max

LEMMA LastVerdictIs ==
  ASSUME NEW f \in Seq(EventRecords)
  PROVE  \/ /\ \A k \in 1 .. Len(f) : f[k].type # "verdict"
            /\ LastVerdict(f) = [verdict |-> "NOT_RUN", link |-> "none"]
         \/ \E j \in 1 .. Len(f) :
              /\ f[j].type = "verdict" /\ LastVerdict(f) = f[j]
              /\ \A i \in j + 1 .. Len(f) : f[i].type # "verdict"
PROOF
  <1> DEFINE S == {k \in DOMAIN f : f[k].type = "verdict"}
  <1>1. Len(f) \in Nat /\ DOMAIN f = 1 .. Len(f)
    OBVIOUS
  <1>2. CASE S = {}
    BY <1>1, <1>2 DEF LastVerdict
  <1>3. CASE S # {}
    <2>1. S \in SUBSET (1 .. Len(f))
      BY <1>1
    <2>2. LastVerdict(f) = f[Max(S)]
      BY <1>3 DEF LastVerdict
    <2> HIDE DEF S
    <2>3. Max(S) \in S /\ \A i \in S : i <= Max(S)
      BY <1>1, <1>3, <2>1, MaxIs
    <2>4. Max(S) \in 1 .. Len(f) /\ f[Max(S)].type = "verdict"
      BY <1>1, <2>3 DEF S
    <2>5. ASSUME NEW i \in Max(S) + 1 .. Len(f) PROVE f[i].type # "verdict"
      <3> DEFINE m == Max(S)
      <3>1. m \in 1 .. Len(f) /\ i \in m + 1 .. Len(f)
        BY <2>4
      <3> HIDE DEF m
      <3>2. i \in DOMAIN f /\ ~(i <= m)
        BY <1>1, <3>1
      <3>3. i \notin S
        BY <2>3, <3>2 DEF m
      <3> QED BY <3>2, <3>3 DEF S
    <2> QED BY <2>2, <2>4, <2>5
  <1> QED BY <1>2, <1>3

LEMMA AppendIs ==
  ASSUME NEW f \in Seq(EventRecords), NEW e \in EventRecords
  PROVE  LET n == Len(f)
         IN  /\ Append(f, e) \in Seq(EventRecords) /\ n \in Nat
             /\ Len(Append(f, e)) = n + 1
             /\ \A k \in 1 .. n : Append(f, e)[k] = f[k]
             /\ Append(f, e)[n + 1] = e
PROOF
  OBVIOUS

LEMMA VerdictAppended ==
  ASSUME NEW f \in Seq(EventRecords), NEW e \in EventRecords
  PROVE  LastVerdict(Append(f, e)) =
           IF e.type = "verdict" THEN e ELSE LastVerdict(f)
PROOF
  <1> DEFINE g == Append(f, e)
             n == Len(f)
  <1>1. /\ g \in Seq(EventRecords) /\ n \in Nat /\ Len(g) = n + 1
        /\ \A k \in 1 .. n : g[k] = f[k]
        /\ g[n + 1] = e
    BY AppendIs
  <1> HIDE DEF g
  <1>2. CASE \A k \in 1 .. Len(g) : g[k].type # "verdict"
    <2>1. /\ LastVerdict(g) = [verdict |-> "NOT_RUN", link |-> "none"]
          /\ \A k \in 1 .. n + 1 : g[k].type # "verdict"
      BY <1>1, <1>2, LastVerdictIs
    <2>2. e.type # "verdict" /\ \A k \in 1 .. n : f[k].type # "verdict"
      BY <1>1, <2>1
    <2>3. LastVerdict(f) = [verdict |-> "NOT_RUN", link |-> "none"]
      BY <2>2, LastVerdictIs
    <2> QED BY <2>1, <2>2, <2>3 DEF g
  <1>3. CASE ~\A k \in 1 .. Len(g) : g[k].type # "verdict"
    <2>1. PICK j \in 1 .. n + 1 :
            /\ g[j].type = "verdict" /\ LastVerdict(g) = g[j]
            /\ \A i \in j + 1 .. n + 1 : g[i].type # "verdict"
      BY <1>1, <1>3, LastVerdictIs
    <2>2. CASE j = n + 1
      BY <1>1, <2>1, <2>2 DEF g
    <2>3. CASE j \in 1 .. n
      <3>1. e.type # "verdict"
        BY <1>1, <2>1, <2>3
      <3>2. PICK i \in 1 .. n :
              /\ f[i].type = "verdict" /\ LastVerdict(f) = f[i]
              /\ \A k \in i + 1 .. n : f[k].type # "verdict"
        BY <1>1, <2>1, <2>3, LastVerdictIs
      <3>3. i = j
        BY <1>1, <2>1, <2>3, <3>2
      <3> QED BY <1>1, <2>1, <2>3, <3>1, <3>2, <3>3 DEF g
    <2> QED BY <1>1, <2>2, <2>3
  <1> QED BY <1>2, <1>3

-----------------------------------------------------------------------------
(* What the history says.                                                  *)

LEMMA HistoryIs ==
  ASSUME HistoryInv, hashes \in Nat
  PROVE  LET n == Len(Files)
         IN  /\ n \in Nat /\ n = Cardinality(DOMAIN events)
             /\ Files \in Seq(EventRecords) /\ DOMAIN Files = 1 .. n
             /\ HasTornEvent <=> \E k \in 1 .. n : Files[k].torn
             /\ Hashes = {Files[k].hash : k \in 1 .. n}
             /\ Hashes \subseteq 1 .. hashes
             /\ \A k \in 1 .. n : EventOK(Files, k)
PROOF
  <1> DEFINE f == Files
             n == Len(f)
  <1>1. /\ n \in Nat /\ n = Cardinality(DOMAIN events) /\ f \in Seq(EventRecords)
        /\ DOMAIN f = 1 .. n
        /\ DOMAIN events = {Name(k, f[k].type) : k \in 1 .. n}
        /\ \A k \in 1 .. n : f[k] = events[Name(k, f[k].type)]
        /\ \A k \in 1 .. n : EventOK(f, k)
    BY FilesAre DEF HistoryInv, History
  <1> HIDE DEF f
  <1>2. HasTornEvent <=> \E k \in 1 .. n : f[k].torn
    BY <1>1 DEF HasTornEvent
  <1>3. Hashes = {f[k].hash : k \in 1 .. n}
    <2>1. \A m \in DOMAIN events : \E k \in 1 .. n : events[m].hash = f[k].hash
      BY <1>1
    <2>2. \A k \in 1 .. n : \E m \in DOMAIN events : events[m].hash = f[k].hash
      <3>1. ASSUME NEW k \in 1 .. n
            PROVE  \E m \in DOMAIN events : events[m].hash = f[k].hash
        <4>1. Name(k, f[k].type) \in DOMAIN events
          BY <1>1
        <4>2. events[Name(k, f[k].type)].hash = f[k].hash
          BY <1>1
        <4> QED BY <4>1, <4>2
      <3> QED BY <3>1
    <2> QED BY <2>1, <2>2 DEF Hashes
  <1>4. \A k \in 1 .. n : f[k].hash \in 1 .. hashes
    <2>1. ASSUME NEW k \in 1 .. n PROVE f[k].hash \in 1 .. hashes
      <3>1. /\ f[k] \in EventRecords /\ f[k].previous < f[k].hash
            /\ f[k].hash <= hashes
        BY <1>1 DEF EventOK
      <3>2. f[k].previous \in Nat /\ f[k].hash \in Nat
        BY <3>1 DEF EventRecords
      <3> QED BY <3>1, <3>2
    <2> QED BY <2>1
  <1> QED BY <1>1, <1>2, <1>3, <1>4 DEF f

\* What a reader finds that replays a history no file of which is torn.
LEMMA ReplayIs ==
  ASSUME HistoryInv, hashes \in Nat, HasRun, ~HasTornEvent, Len(Files) >= 1
  PROVE  LET n == Len(Files)
             now == Replayed
         IN  /\ now.ok /\ Chained
             /\ now.status = Files[n].to /\ now.status \in Statuses
             /\ now.verdict = LastVerdict(Files).verdict
             /\ now.verdict \in Verdicts \cup {"NOT_RUN"}
             /\ now.latest = Files[n].hash /\ now.latest \in 1 .. hashes
             /\ LastHash(Files) = Files[n].hash
             /\ \A k \in 1 .. n : ~Files[k].torn /\ WholeEvent(Files, k)
PROOF
  <1> DEFINE f == Files
             n == Len(f)
  <1>1. /\ n \in Nat /\ n >= 1 /\ f \in Seq(EventRecords) /\ DOMAIN f = 1 .. n
        /\ \A k \in 1 .. n : ~f[k].torn /\ EventOK(f, k)
        /\ Hashes = {f[k].hash : k \in 1 .. n} /\ Hashes \subseteq 1 .. hashes
    BY HistoryIs
  <1>2. /\ Replayed.ok <=> HasRun /\ \A k \in DOMAIN f : Legal(f[k], StatusAfter(f, k - 1))
        /\ Replayed.status = StatusAfter(f, n)
        /\ Replayed.verdict = LastVerdict(f).verdict
        /\ Replayed.latest = LastHash(f)
    BY DEF Replayed, Replay
  <1>3. Chained <=> \A k \in DOMAIN f : f[k].previous = IF k = 1 THEN 0 ELSE f[k - 1].hash
    BY DEF Chained
  <1> HIDE DEF f
  <1>4. \A k \in 1 .. n : WholeEvent(f, k)
    BY <1>1 DEF EventOK
  <1>5. Replayed.ok
    BY <1>1, <1>2, <1>4 DEF WholeEvent
  <1>6. Chained
    BY <1>1, <1>3 DEF EventOK
  <1>7. f[n] \in EventRecords /\ f[n].hash \in 1 .. hashes
    BY <1>1
  <1>8. Replayed.status = f[n].to /\ f[n].to \in Statuses
    BY <1>1, <1>2, <1>7 DEF StatusAfter, EventRecords
  <1>9. LastHash(f) = f[n].hash
    BY <1>1 DEF LastHash, Last
  <1>10. LastVerdict(f).verdict \in Verdicts \cup {"NOT_RUN"}
    <2>1. CASE \E j \in 1 .. n : LastVerdict(f) = f[j]
      <3>1. PICK j \in 1 .. n : LastVerdict(f) = f[j]
        BY <2>1
      <3>2. f[j] \in EventRecords
        BY <1>1
      <3> QED BY <3>1, <3>2 DEF EventRecords
    <2>2. CASE LastVerdict(f) = [verdict |-> "NOT_RUN", link |-> "none"]
      BY <2>2
    <2> QED BY <1>1, <2>1, <2>2, LastVerdictIs
  <1> QED BY <1>1, <1>2, <1>4, <1>5, <1>6, <1>7, <1>8, <1>9, <1>10 DEF f

\* Nothing promoted, as long as the run is not at M.
LEMMA PromotionIsLast ==
  ASSUME HistoryInv, hashes \in Nat, NEW k \in 1 .. Len(Files),
         Files[k].type = "promotion", ~Files[k].torn
  PROVE  k = Len(Files) /\ Files[k].to = "M"
PROOF
  <1> DEFINE f == Files
             n == Len(f)
  <1>1. n \in Nat /\ \A i \in 1 .. n : EventOK(f, i)
    BY HistoryIs
  <1> HIDE DEF f
  <1>2. Legal(f[k], StatusAfter(f, k - 1))
    BY <1>1 DEF EventOK, WholeEvent, f
  <1>3. f[k].to = "M"
    BY <1>2 DEF Legal, LegalTransitions, f
  <1>4. k \in Nat /\ k # 0 /\ k - 1 + 1 = k
    BY <1>1
  <1>5. ASSUME k < n PROVE FALSE
    <2>1. EventOK(f, k + 1) /\ k + 1 - 1 = k
      BY <1>1, <1>4, <1>5
    <2>2. StatusAfter(f, k) = "M"
      BY <1>3, <1>4 DEF StatusAfter
    <2> QED BY <2>1, <2>2 DEF EventOK
  <1> QED BY <1>1, <1>3, <1>4, <1>5 DEF f

\* A step that writes no event.
LEMMA HistoryKept ==
  ASSUME HistoryInv, hashes \in Nat, hashes' \in Nat, hashes' >= hashes,
         events' = events, nature' = nature, runDir' = runDir,
         analysis' = analysis \/ \A k \in 1 .. Len(Files) : Files[k].type # "promotion"
                              \/ Files[k].torn
  PROVE  /\ HistoryInv' /\ Files' = Files /\ HasTornEvent' = HasTornEvent
         /\ HasRun' = HasRun /\ Replayed' = Replayed /\ Hashes' = Hashes
         /\ Chained' = Chained
PROOF
  <1> DEFINE f == Files
             n == Len(f)
  <1>1. /\ n \in Nat /\ f \in Seq(EventRecords)
        /\ \A k \in 1 .. n : EventOK(f, k)
    BY HistoryIs
  <1>2. /\ Files' = f /\ HasTornEvent' = HasTornEvent /\ HasRun' = HasRun
        /\ Hashes' = Hashes
    BY DEF Files, HasTornEvent, HasRun, Hashes
  <1>3. Replayed' = Replayed /\ Chained' = Chained
    BY <1>2 DEF Replayed, Replay, Chained
  <1>4. NamesInv' /\ n <= MaxEvents
    BY <1>2 DEF HistoryInv, NamesInv
  <1>5. f' = f /\ n' = n
    BY <1>2
  <1>6. ASSUME NEW k \in 1 .. n PROVE EventOK(f, k)'
    <2> HIDE DEF f
    <2>1. EventOK(f, k)
      BY <1>1
    <2>2. f[k] \in EventRecords /\ f[k].hash \in Nat
      BY <2>1 DEF EventOK, EventRecords
    <2>3. f[k].hash <= hashes'
      BY <2>1, <2>2 DEF EventOK
    <2>4. (f[k] \in EventRecords)'
      BY <1>5, <2>2 DEF EventRecords, Contents
    <2>5. ~f[k].torn /\ f[k].type = "promotion" => Earned(f, k)'
      <3>1. CASE analysis' = analysis
        BY <1>5, <2>1, <3>1 DEF EventOK, WholeEvent, Earned, Decided, Qualified
      <3>2. CASE f[k].type # "promotion" \/ f[k].torn
        BY <3>2
      <3> QED BY <3>1, <3>2 DEF f
    <2>6. ~f[k].torn => WholeEvent(f, k)'
      BY <1>5, <2>1, <2>5 DEF EventOK, WholeEvent, Legal, StatusAfter
    <2> QED BY <1>5, <2>1, <2>3, <2>4, <2>6 DEF EventOK, StatusAfter
  <1>7. History(Files)'
    BY <1>2, <1>6 DEF History
  <1> QED BY <1>2, <1>3, <1>4, <1>5, <1>7 DEF HistoryInv

\* A step that writes one event after the others.
LEMMA HistoryGrows ==
  ASSUME HistoryInv, hashes \in Nat, hashes' \in Nat, hashes' >= hashes,
         ~HasTornEvent, Len(Files) < MaxEvents,
         NEW e, e \in EventRecords, NEW m, m = Len(Files) + 1,
         events' = With(events, Name(m, e.type), e),
         EventOK(Files, m)',
         runDir' = runDir \/ Len(Files) = 0,
         nature' = nature, analysis' = analysis
  PROVE  /\ HistoryInv' /\ Files' = Append(Files, e) /\ Len(Files') = m
         /\ HasTornEvent' <=> e.torn
         /\ Hashes' = Hashes \cup {e.hash}
         /\ Replayed'.status = e.to /\ Replayed'.latest = e.hash
         /\ Replayed'.verdict = IF e.type = "verdict" THEN e.verdict
                                                      ELSE LastVerdict(Files).verdict
PROOF
  <1> DEFINE f == Files
             n == Len(f)
             name == Name(m, e.type)
  <1>1. /\ n \in Nat /\ f \in Seq(EventRecords)
        /\ \A k \in 1 .. n : ~f[k].torn /\ EventOK(f, k)
        /\ n < MaxEvents /\ m = n + 1
    BY HistoryIs
  <1>2. /\ NamesInv' /\ Files' = Append(f, e)
        /\ name \in DOMAIN events' /\ events'[name] = e
        /\ \A x \in DOMAIN events : x \in DOMAIN events' /\ events'[x] = events[x]
    BY AppendFile DEF HistoryInv
  <1>3. DOMAIN events' = DOMAIN events \cup {name}
    BY DEF With
  <1>4. /\ Files' \in Seq(EventRecords) /\ Len(Files') = m
        /\ \A k \in 1 .. n : Files'[k] = f[k]
        /\ Files'[m] = e
    BY <1>1, <1>2, AppendIs
  <1> HIDE DEF f, name
  <1>5. ASSUME NEW k \in 1 .. n PROVE EventOK(Files, k)'
    <2>1. EventOK(f, k) /\ ~f[k].torn /\ k # 0 /\ k - 1 \in 0 .. n /\ k # m
      BY <1>1
    <2>2. /\ Files'[k] = f[k] /\ (k # 1 => Files'[k - 1] = f[k - 1])
          /\ \A j \in 1 .. k : Files'[j] = f[j]
      BY <1>1, <1>4
    <2>3. StatusAfter(Files', k - 1) = StatusAfter(f, k - 1)
      <3>1. CASE k = 1
        BY <3>1 DEF StatusAfter
      <3>2. CASE k # 1
        BY <2>2, <3>2 DEF StatusAfter
      <3> QED BY <3>1, <3>2
    <2>4. f[k] \in EventRecords /\ f[k].hash \in Nat
      BY <2>1 DEF EventOK, EventRecords
    <2>5. f[k].hash <= hashes'
      BY <2>1, <2>4 DEF EventOK
    <2>6. f[k].type = "promotion" => Earned(Files, k)'
      <3>1. ASSUME f[k].type = "promotion" PROVE Earned(f, k) /\ Qualified' = Qualified
        <4>1. n # 0
          BY <1>1
        <4> QED BY <2>1, <3>1, <4>1 DEF EventOK, WholeEvent, Qualified, f
      <3>2. Decided(f, k - 1) => Decided(Files, k - 1)'
        <4>1. ASSUME NEW j \in 1 .. k - 1,
                     /\ f[j].type = "verdict" /\ f[j].verdict \in Decisive
                     /\ f[j].link = analysis
                     /\ \A i \in j + 1 .. k - 1 : f[i].type # "verdict"
              PROVE  /\ Files'[j].type = "verdict" /\ Files'[j].verdict \in Decisive
                     /\ Files'[j].link = analysis'
                     /\ \A i \in j + 1 .. k - 1 : Files'[i].type # "verdict"
          <5>1. /\ j \in 1 .. k
                /\ \A i \in j + 1 .. k - 1 : i \in 1 .. k
            BY <1>1
          <5> QED BY <2>2, <4>1, <5>1
        <4> QED BY <4>1 DEF Decided
      <3> QED BY <3>1, <3>2 DEF Earned
    <2>7. WholeEvent(Files, k)'
      BY <2>1, <2>2, <2>3, <2>6 DEF EventOK, WholeEvent, Legal
    <2>8. (Files[k] \in EventRecords)'
      BY <2>2, <2>4 DEF EventRecords, Contents
    <2> QED BY <2>1, <2>2, <2>3, <2>5, <2>7, <2>8 DEF EventOK
  <1>6. History(Files)'
    <2>1. \A k \in 1 .. m : EventOK(Files, k)'
      BY <1>1, <1>5
    <2> QED BY <1>4, <2>1 DEF History
  <1>7. HistoryInv'
    <2>1. Len(Files') <= MaxEvents
      BY <1>1, <1>4, ArchiveAssumption
    <2> QED BY <1>2, <1>6, <2>1 DEF HistoryInv
  <1>8. HasTornEvent' <=> e.torn
    BY <1>2, <1>3 DEF HasTornEvent
  <1>9. Hashes' = Hashes \cup {e.hash}
    BY <1>2, <1>3 DEF Hashes
  <1>10. Replayed'.status = e.to
    BY <1>1, <1>2, <1>4 DEF Replayed, Replay, StatusAfter
  <1>11. Replayed'.latest = e.hash
    <2>1. LastHash(Files') = e.hash
      BY <1>1, <1>4 DEF LastHash, Last
    <2> QED BY <1>2, <2>1 DEF Replayed, Replay
  <1>12. LastVerdict(Files') = IF e.type = "verdict" THEN e ELSE LastVerdict(f)
    BY <1>1, <1>2, VerdictAppended
  <1>13. Replayed'.verdict = LastVerdict(Files').verdict
    BY <1>2 DEF Replayed, Replay
  <1> QED BY <1>2, <1>4, <1>7, <1>8, <1>9, <1>10, <1>11, <1>12, <1>13 DEF f

-----------------------------------------------------------------------------
(* The invariant, step by step.                                            *)

LEMMA NoEvents ==
  ASSUME events = <<>>
  PROVE  /\ Files = <<>> /\ Len(Files) = 0 /\ NamesInv /\ ~HasTornEvent
         /\ Hashes = {} /\ HistoryInv
PROOF
  <1>1. DOMAIN events = {} /\ Cardinality(DOMAIN events) = 0 /\ IsFiniteSet(DOMAIN events)
    BY FS_EmptySet
  <1>2. Files = <<>> /\ Len(Files) = 0
    <2>1. Files = [k \in 1 .. 0 |-> events[CHOOSE n \in DOMAIN events :
                     Cardinality({m \in DOMAIN events : m <= n}) = k]]
      BY <1>1 DEF Files, InOrder
    <2> QED BY <2>1
  <1>3. NamesInv /\ ~HasTornEvent /\ Hashes = {}
    BY <1>1, <1>2 DEF NamesInv, HasTornEvent, Hashes
  <1> QED BY <1>2, <1>3, ArchiveAssumption DEF HistoryInv, History

LEMMA InitInv == ASSUME Init PROVE ArchiveInv
PROOF
  <1>1. /\ pc = [p \in Procs |-> "idle"] /\ hashes = 0 /\ runDir = <<>>
        /\ nature \in {"measured", "simulated"}
        /\ events = <<>> /\ analysis = "none" /\ state = Absent /\ index = Absent
        /\ local = [p \in Procs |-> Idle]
        /\ dirty = FALSE /\ written = {} /\ analysed = {}
    BY DEF Init, PublicationInit
  <1>2. ~HasRun /\ Len(Files) = 0 /\ HistoryInv
    BY <1>1, NoEvents DEF HasRun
  <1>3. VoidInv /\ RestInv /\ AppendOnly
    BY <1>1, <1>2 DEF VoidInv, RestInv, AppendOnly
  <1>4. Idle \in LocalRecords
    BY DEF Idle, LocalRecords, Contents
  <1>5. TypesInv
    BY <1>1, <1>4 DEF TypesInv, Contents
  <1>6. ASSUME NEW p \in Procs PROVE OperationInv(p)
    <2>1. pc[p] = "idle" /\ local[p] = Idle
      BY <1>1
    <2> QED BY <2>1 DEF OperationInv, Working
  <1> QED BY <1>2, <1>3, <1>5, <1>6, PublicationInitInv DEF ArchiveInv

\* A step that writes no file of the archive.
LEMMA QuietStep ==
  ASSUME ArchiveInv, PublicationInv', hashes' \in Nat, hashes' >= hashes,
         nature' = nature, runDir' = runDir, UNCHANGED archive,
         UNCHANGED <<dirty, history>>,
         local' \in [Procs -> LocalRecords],
         \A q \in Procs : OperationInv(q)',
         ~HasRun \/ \E q \in Procs : pc'[q] # "idle"
  PROVE  ArchiveInv'
PROOF
  <1>1. /\ TypesInv /\ HistoryInv /\ RestInv /\ VoidInv /\ AppendOnly /\ hashes \in Nat
    BY DEF ArchiveInv, PublicationInv
  <1>2. /\ events' = events /\ analysis' = analysis /\ state' = state /\ index' = index
        /\ dirty' = dirty /\ written' = written /\ analysed' = analysed
    BY DEF archive, history
  <1>3. /\ HistoryInv' /\ Files' = Files /\ HasRun' = HasRun /\ Hashes' = Hashes
    BY <1>1, <1>2, HistoryKept
  <1>4. RestInv'
    BY <1>3 DEF RestInv
  <1>5. VoidInv'
    BY <1>1, <1>2, <1>3 DEF VoidInv
  <1>6. AppendOnly'
    BY <1>1, <1>2, <1>3 DEF AppendOnly
  <1>7. TypesInv'
    <2>1. state' \in (StateRecords \cup {Absent, Torn})'
      BY <1>1, <1>2 DEF TypesInv, StateRecords
    <2>2. index' \in (IndexRecords \cup {Absent, Torn})'
      BY <1>1, <1>2 DEF TypesInv, IndexRecords, Contents
    <2> QED BY <1>1, <1>2, <2>1, <2>2 DEF TypesInv, Contents
  <1> QED BY <1>3, <1>4, <1>5, <1>6, <1>7 DEF ArchiveInv

\* Until the run is published.
LEMMA CampaignKeeps ==
  ASSUME ArchiveInv, NEW p \in Procs, PublicationInv',
         RunCampaign(p) \/ ClearStaging(p) \/ WriteFile(p) \/ Abandon(p),
         UNCHANGED <<nature, archive, local, dirty, history>>
  PROVE  ArchiveInv'
PROOF
  <1>1. /\ pc[p] \in {"idle", "clear", "build"} /\ runDir' = runDir
        /\ \E phase \in {"clear", "build", "rename", "idle"} :
             pc' = [pc EXCEPT ![p] = phase]
        /\ hashes' \in {hashes, hashes + 1}
        /\ pc[p] = "idle" => ~HasRun
    BY DEF RunCampaign, ClearStaging, WriteFile, Abandon
  <1>2. /\ pc \in [Procs -> Phases] /\ hashes \in Nat
        /\ local \in [Procs -> LocalRecords]
        /\ \A q \in Procs : OperationInv(q)
        /\ Publishing(p) => ~HasRun
        /\ \A q \in Procs : pc[q] = "idle" \/ Publishing(q) \/ HasRun
    BY DEF ArchiveInv, PublicationInv, TypesInv
  <1>3. ~HasRun
    BY <1>1, <1>2 DEF Publishing
  <1>4. ASSUME NEW q \in Procs PROVE OperationInv(q)'
    <2>1. ~Working(q) /\ pc[q] \in {"idle", "clear", "build", "rename"}
      BY <1>2, <1>3 DEF Publishing, Working
    <2>2. pc'[q] \in {"idle", "clear", "build", "rename"}
      BY <1>1, <1>2, <2>1
    <2>3. local'[q] = Idle
      BY <1>2, <2>1 DEF OperationInv
    <2> QED BY <2>2, <2>3 DEF OperationInv, Working
  <1>5. hashes' \in Nat /\ hashes' >= hashes
    BY <1>1, <1>2
  <1> QED BY <1>1, <1>2, <1>3, <1>4, <1>5, QuietStep

\* What an operation that may start has read is what the history says.
LEMMA ReadyToStart ==
  ASSUME ArchiveInv, OneProcess, RebuildFirst, NEW p \in Procs, MayStart(p)
  PROVE  /\ HasRun /\ ~HasTornEvent /\ StateCurrent /\ ~dirty /\ Len(Files) >= 1
         /\ state.status = Replayed.status /\ state.verdict = Replayed.verdict
         /\ Replayed.status \in Statuses \ {"M"}
         /\ Replayed.verdict \in Verdicts \cup {"NOT_RUN"}
         /\ Replayed.verdict = LastVerdict(Files).verdict
PROOF
  <1>1. /\ pc[p] = "idle" /\ ~dirty /\ state # Absent /\ ~state.locked
    BY DEF MayStart, Readable, EnsureNotLocked
  <1>2. /\ TypesInv /\ HistoryInv /\ RestInv /\ VoidInv /\ hashes \in Nat
    BY DEF ArchiveInv, PublicationInv
  <1>3. HasRun /\ Len(Files) >= 1
    BY <1>1, <1>2 DEF VoidInv
  <1>4. \A q \in Procs : pc[q] = "idle"
    BY <1>1 DEF OneProcess
  <1>5. ~HasTornEvent /\ StateCurrent
    BY <1>1, <1>2, <1>3, <1>4 DEF RestInv
  <1>6. /\ Replayed.status \in Statuses /\ Replayed.verdict \in Verdicts \cup {"NOT_RUN"}
        /\ Replayed.verdict = LastVerdict(Files).verdict
    BY <1>2, <1>3, <1>5, ReplayIs
  <1>7. /\ state.status = Replayed.status /\ state.verdict = Replayed.verdict
        /\ state.locked = (Replayed.status = "M")
    BY <1>5 DEF StateCurrent, StateOf
  <1> QED BY <1>1, <1>3, <1>5, <1>6, <1>7

LEMMA OperationStarts ==
  ASSUME ArchiveInv, OneProcess, NEW p \in Procs, PublicationInv',
         NEW l \in LocalRecords, NEW phase \in {"list", "analysis", "state"},
         Starts(p, phase, l), HasRun, ~HasTornEvent,
         phase = "state" \/ StateCurrent,
         dirty => l.op = "rebuild" /\ phase = "state",
         phase = "list" => EventPending(l),
         phase = "state" => /\ l.to = Replayed.status /\ l.verdict = Replayed.verdict
                            /\ l.latest = Replayed.latest,
         phase = "analysis" =>
           l.link \in Analyses /\ analysis = "none" /\ Replayed.status # "M"
  PROVE  ArchiveInv'
PROOF
  <1>1. /\ HistoryInv /\ hashes \in Nat /\ pc \in [Procs -> Phases]
        /\ local \in [Procs -> LocalRecords]
    BY DEF ArchiveInv, PublicationInv, TypesInv
  <1>2. /\ pc' = [pc EXCEPT ![p] = phase] /\ local' = [local EXCEPT ![p] = l]
        /\ nature' = nature /\ runDir' = runDir /\ events' = events
        /\ analysis' = analysis /\ state' = state /\ index' = index
        /\ hashes' = hashes /\ dirty' = dirty /\ UNCHANGED archive /\ UNCHANGED history
    BY DEF Starts, given, publication, archive
  <1>3. /\ pc'[p] = phase /\ local'[p] = l /\ local' \in [Procs -> LocalRecords]
    BY <1>1, <1>2
  <1>4. /\ Files' = Files /\ HasTornEvent' = HasTornEvent
        /\ HasRun' = HasRun /\ Replayed' = Replayed
    BY <1>1, <1>2, HistoryKept
  <1>5. phase = "list" => EventPending(local[p])'
    BY <1>2, <1>3, <1>4 DEF EventPending, Decided, Qualified
  <1>6. StateCurrent => StateCurrent'
    BY <1>2, <1>4 DEF StateCurrent
  <1>7. OperationInv(p)'
    BY <1>2, <1>3, <1>4, <1>5, <1>6 DEF OperationInv, Working
  <1>8. \A q \in Procs : OperationInv(q)'
    BY <1>7 DEF OneProcess
  <1>9. pc'[p] # "idle"
    BY <1>3
  <1> QED BY <1>1, <1>2, <1>3, <1>8, <1>9, QuietStep

LEMMA EventStarts ==
  ASSUME ArchiveInv, OneProcess, RebuildFirst, NEW p \in Procs, MayStart(p),
         PublicationInv', NEW type \in {"verdict", "review", "promotion"},
         NEW to \in Statuses, NEW verdict \in Verdicts \cup {"NOT_RUN"},
         NEW link \in Analyses \cup {"none"},
         StartEvent(p, type, to, verdict, link),
         <<state.status, to>> \in LegalTransitions[type],
         IF type = "verdict" THEN verdict \in Verdicts /\ link \in Analyses
                             ELSE verdict = state.verdict /\ link = "none",
         type = "promotion" =>
           nature = "measured" /\ Qualified /\ analysis \in Analyses
           /\ Decided(Files, Len(Files))
  PROVE  ArchiveInv'
PROOF
  <1>1. /\ HasRun /\ ~HasTornEvent /\ StateCurrent /\ ~dirty
        /\ state.status = Replayed.status /\ state.verdict = Replayed.verdict
        /\ Replayed.status \in Statuses \ {"M"}
    BY ReadyToStart
  <1> DEFINE l == [Idle EXCEPT !.op = type, !.from = state.status, !.to = to,
                               !.verdict = verdict, !.link = link]
  <1>2. Starts(p, "list", l) /\ Cardinality(DOMAIN events) < MaxEvents
    BY DEF StartEvent
  <1>3. /\ l.op = type /\ l.from = state.status /\ l.to = to
        /\ l.verdict = verdict /\ l.link = link
    BY DEF Idle
  <1>4. l \in LocalRecords
    BY <1>1 DEF Idle, LocalRecords, EventTypes, Contents
  <1> HIDE DEF l
  <1>5. EventPending(l)
    BY <1>1, <1>2, <1>3 DEF EventPending
  <1> QED BY <1>1, <1>2, <1>4, <1>5, OperationStarts

LEMMA OperateKeeps ==
  ASSUME ArchiveInv, OneProcess, RebuildFirst, NEW p \in Procs, Operate(p),
         PublicationInv'
  PROVE  ArchiveInv'
PROOF
  <1>1. /\ TypesInv /\ HistoryInv /\ VoidInv /\ hashes \in Nat
    BY DEF ArchiveInv, PublicationInv
  <1>2. CASE RecordVerdict(p)
    <2>1. PICK v \in Verdicts, link \in Analyses :
            MayStart(p) /\ StartEvent(p, "verdict", state.status, v, link)
      BY <1>2 DEF RecordVerdict
    <2>2. state.status \in Statuses \ {"M"}
      BY <2>1, ReadyToStart
    <2>3. <<state.status, state.status>> \in LegalTransitions["verdict"]
      BY <2>2 DEF LegalTransitions, Statuses
    <2>4. PICK to \in Statuses : to = state.status
      BY <2>2
    <2> QED BY <2>1, <2>3, <2>4, EventStarts
  <1>3. CASE MarkReviewed(p)
    <2>1. /\ MayStart(p) /\ state.status = "RAW"
          /\ StartEvent(p, "review", "REVIEWED", state.verdict, "none")
      BY <1>3 DEF MarkReviewed, Reviewable
    <2>2. state.verdict \in Verdicts \cup {"NOT_RUN"}
      BY <2>1, ReadyToStart
    <2>3. <<state.status, "REVIEWED">> \in LegalTransitions["review"]
      BY <2>1 DEF LegalTransitions
    <2>4. PICK v \in Verdicts \cup {"NOT_RUN"} : v = state.verdict
      BY <2>2
    <2>5. "REVIEWED" \in Statuses
      BY DEF Statuses
    <2> QED BY <2>1, <2>3, <2>4, <2>5, EventStarts
  <1>4. CASE PromoteToMeasured(p)
    <2>1. /\ MayStart(p) /\ state.status = "REVIEWED" /\ nature # "simulated"
          /\ Qualified /\ Verifies /\ analysis # "none"
          /\ LastVerdict(Files).link = analysis /\ state.verdict \in Decisive
          /\ StartEvent(p, "promotion", "M", state.verdict, "none")
      BY <1>4 DEF PromoteToMeasured, Promotable
    <2>2. /\ state.verdict \in Verdicts \cup {"NOT_RUN"}
          /\ state.verdict = LastVerdict(Files).verdict
      BY <2>1, ReadyToStart
    <2>3. <<state.status, "M">> \in LegalTransitions["promotion"]
      BY <2>1 DEF LegalTransitions
    <2>4. PICK v \in Verdicts \cup {"NOT_RUN"} : v = state.verdict
      BY <2>2
    <2>5. "M" \in Statuses
      BY DEF Statuses
    <2>6. nature = "measured" /\ analysis \in Analyses
      BY <1>1, <2>1 DEF TypesInv, Contents, Verifies
    <2>7. Decided(Files, Len(Files))
      <3>1. LastVerdict(Files).verdict \in Decisive
        BY <2>1, <2>2
      <3>2. LastVerdict(Files) # [verdict |-> "NOT_RUN", link |-> "none"]
        BY <3>1 DEF Decisive
      <3>3. PICK j \in 1 .. Len(Files) :
              /\ Files[j].type = "verdict" /\ LastVerdict(Files) = Files[j]
              /\ \A i \in j + 1 .. Len(Files) : Files[i].type # "verdict"
        BY <1>1, <3>2, LastVerdictIs, HistoryIs
      <3> QED BY <2>1, <3>1, <3>3 DEF Decided
    <2> QED BY <2>1, <2>3, <2>4, <2>5, <2>6, <2>7, EventStarts
  <1>5. CASE RecordAnalysis(p)
    <2>1. PICK a \in Analyses :
            /\ MayStart(p) /\ analysis = "none"
            /\ Starts(p, "analysis", [Idle EXCEPT !.op = "analysis", !.link = a])
      BY <1>5 DEF RecordAnalysis, AnalysisAbsent
    <2> DEFINE l == [Idle EXCEPT !.op = "analysis", !.link = a]
    <2>2. Starts(p, "analysis", l)
      BY <2>1
    <2>3. l \in LocalRecords /\ l.link \in Analyses
      BY DEF Idle, LocalRecords, Contents
    <2> HIDE DEF l
    <2>4. /\ HasRun /\ ~HasTornEvent /\ StateCurrent /\ ~dirty /\ Replayed.status # "M"
      BY <2>1, ReadyToStart
    <2> QED BY <2>1, <2>2, <2>3, <2>4, OperationStarts
  <1>6. CASE RebuildDerived(p)
    <2> DEFINE l == [Idle EXCEPT !.op = "rebuild", !.to = Replayed.status,
                                 !.verdict = Replayed.verdict,
                                 !.latest = Replayed.latest]
    <2>1. HasRun /\ Replayed.ok /\ Starts(p, "state", l)
      BY <1>6 DEF RebuildDerived
    <2>2. Len(Files) >= 1
      BY <1>1, <2>1 DEF VoidInv
    <2>3. ~HasTornEvent
      <3>1. \A k \in DOMAIN Files : Legal(Files[k], StatusAfter(Files, k - 1))
        BY <2>1 DEF Replayed, Replay
      <3> QED BY <1>1, <3>1, HistoryIs DEF Legal
    <2>4. /\ Replayed.status \in Statuses
          /\ Replayed.verdict \in Verdicts \cup {"NOT_RUN"}
          /\ Replayed.latest \in 1 .. hashes
      BY <1>1, <2>1, <2>2, <2>3, ReplayIs
    <2>5. /\ l.op = "rebuild" /\ l.to = Replayed.status
          /\ l.verdict = Replayed.verdict /\ l.latest = Replayed.latest
      BY DEF Idle
    <2>6. l \in LocalRecords
      <3>1. Replayed.latest \in Nat
        BY <1>1, <2>4
      <3> QED BY <2>4, <3>1 DEF Idle, LocalRecords, Contents
    <2> HIDE DEF l
    <2> QED BY <2>1, <2>3, <2>5, <2>6, OperationStarts
  <1> QED BY <1>2, <1>3, <1>4, <1>5, <1>6 DEF Operate

\* What an operation under way relies on.
LEMMA AtWork ==
  ASSUME ArchiveInv, NEW p \in Procs, Working(p)
  PROVE  /\ PublicationInv /\ TypesInv /\ HistoryInv /\ OperationInv(p) /\ AppendOnly
         /\ hashes \in Nat /\ pc \in [Procs -> Phases]
         /\ local \in [Procs -> LocalRecords] /\ local[p] \in LocalRecords
         /\ HasRun /\ ~HasTornEvent /\ Len(Files) >= 1 /\ Len(Files) \in Nat
         /\ Files \in Seq(EventRecords)
         /\ Replayed.status = Files[Len(Files)].to /\ Replayed.status \in Statuses
         /\ Replayed.verdict = LastVerdict(Files).verdict
         /\ Replayed.verdict \in Verdicts \cup {"NOT_RUN"}
         /\ Replayed.latest = LastHash(Files) /\ Replayed.latest \in 1 .. hashes
PROOF
  <1>1. /\ PublicationInv /\ TypesInv /\ HistoryInv /\ OperationInv(p) /\ VoidInv
        /\ AppendOnly
    BY DEF ArchiveInv
  <1>2. /\ hashes \in Nat /\ pc \in [Procs -> Phases]
        /\ local \in [Procs -> LocalRecords]
    BY <1>1 DEF PublicationInv, TypesInv
  <1>3. HasRun /\ ~HasTornEvent
    BY <1>1 DEF OperationInv
  <1>4. Len(Files) >= 1
    BY <1>1, <1>3 DEF VoidInv
  <1> QED BY <1>1, <1>2, <1>3, <1>4, HistoryIs, ReplayIs

\* A step of the process at work, to the end of the operation or not.
LEMMA WorkStep ==
  ASSUME ArchiveInv, OneProcess, NEW p \in Procs, Working(p), PublicationInv',
         TypesInv', HistoryInv', AppendOnly', OperationInv(p)',
         pc'[p] # "idle" \/ RestInv', runDir' = runDir, Len(Files') >= 1
  PROVE  ArchiveInv'
PROOF
  <1>1. HasRun' = HasRun /\ HasRun
    BY AtWork DEF HasRun
  <1>2. VoidInv'
    BY <1>1 DEF VoidInv
  <1>3. RestInv'
    BY DEF RestInv
  <1>4. \A q \in Procs : OperationInv(q)'
    BY DEF OneProcess
  <1> QED BY <1>2, <1>3, <1>4 DEF ArchiveInv

LEMMA ListKeeps ==
  ASSUME ArchiveInv, OneProcess, NEW p \in Procs, List(p), PublicationInv'
  PROVE  ArchiveInv'
PROOF
  <1> DEFINE l == local[p]
             new == [l EXCEPT !.id = NextId, !.previous = LastHash(Files)]
  <1>1. /\ pc[p] = "list" /\ Working(p) /\ pc' = [pc EXCEPT ![p] = "append"]
        /\ local' = [local EXCEPT ![p] = new]
        /\ nature' = nature /\ runDir' = runDir /\ events' = events
        /\ analysis' = analysis /\ state' = state /\ hashes' = hashes
        /\ dirty' = dirty /\ UNCHANGED archive /\ UNCHANGED history
    BY DEF List, Working, given, publication, archive
  <1>2. /\ HistoryInv /\ OperationInv(p) /\ hashes \in Nat /\ pc \in [Procs -> Phases]
        /\ local \in [Procs -> LocalRecords] /\ l \in LocalRecords
        /\ HasRun /\ ~HasTornEvent /\ Len(Files) \in Nat
        /\ Replayed.latest = LastHash(Files) /\ Replayed.latest \in 1 .. hashes
    BY <1>1, AtWork
  <1>3. NextId = Len(Files) + 1
    BY <1>2, HistoryIs DEF NextId
  <1>4. /\ new \in LocalRecords /\ new.op = l.op /\ new.from = l.from /\ new.to = l.to
        /\ new.verdict = l.verdict /\ new.link = l.link
        /\ new.id = Len(Files) + 1 /\ new.previous = LastHash(Files)
    <2>1. LastHash(Files) \in Nat /\ Len(Files) + 1 \in Nat
      BY <1>2
    <2> HIDE DEF l
    <2> QED BY <1>2, <1>3, <2>1 DEF LocalRecords
  <1> HIDE DEF l, new
  <1>5. /\ pc'[p] = "append" /\ local'[p] = new /\ local' \in [Procs -> LocalRecords]
    BY <1>1, <1>2, <1>4
  <1>6. /\ Files' = Files /\ HasTornEvent' = HasTornEvent
        /\ HasRun' = HasRun /\ Replayed' = Replayed
    <2>1. hashes' \in Nat /\ hashes' >= hashes
      BY <1>1, <1>2
    <2> QED BY <1>1, <1>2, <2>1, HistoryKept
  <1>7. /\ EventPending(l) /\ ~dirty /\ StateCurrent
    BY <1>1, <1>2 DEF OperationInv, Working, l
  <1>8. EventPending(local[p])'
    BY <1>1, <1>4, <1>5, <1>6, <1>7 DEF EventPending, Decided, Qualified
  <1>9. StateCurrent'
    BY <1>1, <1>6, <1>7 DEF StateCurrent
  <1>10. OperationInv(p)'
    BY <1>1, <1>2, <1>4, <1>5, <1>6, <1>7, <1>8, <1>9 DEF OperationInv, Working
  <1>11. \A q \in Procs : OperationInv(q)'
    BY <1>10 DEF OneProcess
  <1> QED BY <1>1, <1>2, <1>5, <1>11, QuietStep

LEMMA WriteStateKeeps ==
  ASSUME ArchiveInv, OneProcess, NEW p \in Procs, WriteState(p), PublicationInv'
  PROVE  ArchiveInv'
PROOF
  <1>1. /\ pc[p] = "state" /\ Working(p) /\ pc' = [pc EXCEPT ![p] = "index"]
        /\ state' = StateOf(local[p].to, local[p].verdict, local[p].latest)
        /\ local' = local /\ nature' = nature /\ runDir' = runDir /\ events' = events
        /\ analysis' = analysis /\ index' = index /\ hashes' = hashes /\ dirty' = dirty
        /\ written' = written /\ analysed' = analysed
    BY DEF WriteState, Working, given, publication, history
  <1>2. /\ HistoryInv /\ TypesInv /\ OperationInv(p) /\ AppendOnly
        /\ hashes \in Nat /\ pc \in [Procs -> Phases]
        /\ HasRun /\ ~HasTornEvent /\ Len(Files) >= 1
        /\ Replayed.status \in Statuses
        /\ Replayed.verdict \in Verdicts \cup {"NOT_RUN"}
        /\ Replayed.latest \in 1 .. hashes
    BY <1>1, AtWork
  <1>3. /\ HistoryInv' /\ Files' = Files /\ HasTornEvent' = HasTornEvent
        /\ HasRun' = HasRun /\ Replayed' = Replayed /\ Hashes' = Hashes
    <2>1. hashes' \in Nat /\ hashes' >= hashes
      BY <1>1, <1>2
    <2> QED BY <1>1, <1>2, <2>1, HistoryKept
  <1>4. /\ state' = StateOf(Replayed.status, Replayed.verdict, Replayed.latest)
        /\ dirty => local[p].op = "rebuild"
    BY <1>1, <1>2 DEF OperationInv, Working
  <1>5. StateCurrent'
    BY <1>3, <1>4 DEF StateCurrent
  <1>6. pc'[p] = "index"
    BY <1>1, <1>2
  <1>7. OperationInv(p)'
    BY <1>1, <1>2, <1>3, <1>4, <1>5, <1>6 DEF OperationInv, Working
  <1>8. TypesInv'
    <2>1. state' \in StateRecords'
      BY <1>1, <1>2, <1>4 DEF StateOf, StateRecords
    <2>2. index' \in (IndexRecords \cup {Absent, Torn})'
      BY <1>1, <1>2 DEF TypesInv, IndexRecords
    <2> QED BY <1>1, <1>2, <2>1, <2>2 DEF TypesInv
  <1>9. AppendOnly'
    BY <1>1, <1>2, <1>3 DEF AppendOnly
  <1> QED BY <1>1, <1>2, <1>3, <1>6, <1>7, <1>8, <1>9, WorkStep

\* As long as the run is not at M, nothing was promoted.
LEMMA NotPromoted ==
  ASSUME HistoryInv, hashes \in Nat, Len(Files) >= 1, Files[Len(Files)].to # "M"
  PROVE  \A k \in 1 .. Len(Files) : Files[k].type # "promotion" \/ Files[k].torn
PROOF
  BY PromotionIsLast

LEMMA WriteAnalysisKeeps ==
  ASSUME ArchiveInv, OneProcess, NEW p \in Procs, WriteAnalysis(p), PublicationInv'
  PROVE  ArchiveInv'
PROOF
  <1>1. /\ pc[p] = "analysis" /\ Working(p) /\ pc' = [pc EXCEPT ![p] = "index"]
        /\ analysis' = local[p].link /\ analysed' = analysed \cup {local[p].link}
        /\ local' = local /\ nature' = nature /\ runDir' = runDir /\ events' = events
        /\ state' = state /\ index' = index /\ hashes' = hashes /\ dirty' = dirty
        /\ written' = written
    BY DEF WriteAnalysis, Working, given, publication
  <1>2. /\ HistoryInv /\ TypesInv /\ OperationInv(p) /\ AppendOnly
        /\ hashes \in Nat /\ pc \in [Procs -> Phases]
        /\ HasRun /\ ~HasTornEvent /\ Len(Files) >= 1
        /\ Replayed.status = Files[Len(Files)].to
    BY <1>1, AtWork
  <1>3. /\ local[p].link \in Analyses /\ analysis = "none" /\ Replayed.status # "M"
        /\ StateCurrent /\ (dirty => local[p].op = "rebuild")
    BY <1>1, <1>2 DEF OperationInv, Working
  <1>4. /\ HistoryInv' /\ Files' = Files /\ HasTornEvent' = HasTornEvent
        /\ HasRun' = HasRun /\ Replayed' = Replayed /\ Hashes' = Hashes
    <2>1. hashes' \in Nat /\ hashes' >= hashes
      BY <1>1, <1>2
    <2>2. \A k \in 1 .. Len(Files) : Files[k].type # "promotion" \/ Files[k].torn
      BY <1>2, <1>3, NotPromoted
    <2> QED BY <1>1, <1>2, <2>1, <2>2, HistoryKept
  <1>5. StateCurrent'
    BY <1>1, <1>3, <1>4 DEF StateCurrent
  <1>6. pc'[p] = "index"
    BY <1>1, <1>2
  <1>7. OperationInv(p)'
    BY <1>1, <1>2, <1>3, <1>4, <1>5, <1>6 DEF OperationInv, Working
  <1>8. TypesInv'
    <2>1. state' \in (StateRecords \cup {Absent, Torn})'
      BY <1>1, <1>2 DEF TypesInv, StateRecords
    <2>2. index' \in (IndexRecords \cup {Absent, Torn})'
      BY <1>1, <1>2 DEF TypesInv, IndexRecords
    <2> QED BY <1>1, <1>2, <1>3, <2>1, <2>2 DEF TypesInv, Contents
  <1>9. AppendOnly'
    <2>1. analysed = {}
      BY <1>2, <1>3, ArchiveAssumption DEF AppendOnly, TypesInv
    <2> QED BY <1>1, <1>2, <1>4, <2>1 DEF AppendOnly
  <1> QED BY <1>1, <1>2, <1>4, <1>6, <1>7, <1>8, <1>9, WorkStep

LEMMA WriteIndexKeeps ==
  ASSUME ArchiveInv, OneProcess, NEW p \in Procs, WriteIndex(p), PublicationInv'
  PROVE  ArchiveInv'
PROOF
  <1>1. /\ pc[p] = "index" /\ Working(p) /\ pc' = [pc EXCEPT ![p] = "idle"]
        /\ index' = IndexOfFiles /\ local' = [local EXCEPT ![p] = Idle]
        /\ dirty' = (dirty /\ local[p].op # "rebuild")
        /\ nature' = nature /\ runDir' = runDir /\ events' = events
        /\ analysis' = analysis /\ state' = state /\ hashes' = hashes
        /\ written' = written /\ analysed' = analysed
    BY DEF WriteIndex, Working, given, publication, history
  <1>2. /\ HistoryInv /\ TypesInv /\ OperationInv(p) /\ AppendOnly
        /\ hashes \in Nat /\ pc \in [Procs -> Phases]
        /\ local \in [Procs -> LocalRecords]
        /\ HasRun /\ ~HasTornEvent /\ Len(Files) >= 1
    BY <1>1, AtWork
  <1>3. /\ HistoryInv' /\ Files' = Files /\ HasTornEvent' = HasTornEvent
        /\ HasRun' = HasRun /\ Replayed' = Replayed /\ Hashes' = Hashes
    <2>1. hashes' \in Nat /\ hashes' >= hashes
      BY <1>1, <1>2
    <2> QED BY <1>1, <1>2, <2>1, HistoryKept
  <1>4. StateCurrent /\ ~dirty'
    BY <1>1, <1>2 DEF OperationInv, Working
  <1>5. StateCurrent'
    BY <1>1, <1>3, <1>4 DEF StateCurrent
  <1>6. pc'[p] = "idle" /\ local'[p] = Idle /\ local' \in [Procs -> LocalRecords]
    <2>1. Idle \in LocalRecords
      BY DEF Idle, LocalRecords, Contents
    <2> QED BY <1>1, <1>2, <2>1
  <1>7. OperationInv(p)'
    BY <1>6 DEF OperationInv, Working
  <1>8. index' = IndexOfFiles'
    BY <1>1, <1>3 DEF IndexOfFiles
  <1>9. RestInv'
    BY <1>2, <1>3, <1>5, <1>8 DEF RestInv
  <1>10. TypesInv'
    <2>1. state' \in (StateRecords \cup {Absent, Torn})'
      BY <1>1, <1>2 DEF TypesInv, StateRecords
    <2>2. index' \in (IndexRecords \cup {Absent, Torn})'
      <3>1. Hashes \subseteq 1 .. hashes /\ analysis \in Contents
        BY <1>2, HistoryIs DEF TypesInv
      <3> QED BY <1>1, <3>1 DEF IndexOfFiles, IndexRecords
    <2> QED BY <1>1, <1>2, <1>4, <1>6, <2>1, <2>2 DEF TypesInv
  <1>11. AppendOnly'
    BY <1>1, <1>2, <1>3 DEF AppendOnly
  <1> QED BY <1>1, <1>2, <1>3, <1>7, <1>9, <1>10, <1>11, WorkStep

\* The event of an operation under way, written completely or not.
LEMMA PendingEvent ==
  ASSUME ArchiveInv, NEW p \in Procs, pc[p] = "append",
         NEW e, e = EventOf(local[p], hashes + 1)
             \/ e = [EventOf(local[p], hashes + 1) EXCEPT !.torn = TRUE],
         NEW m, m = Len(Files) + 1,
         events' = With(events, NameOf(local[p]), e),
         hashes' = hashes + 1, nature' = nature, runDir' = runDir,
         analysis' = analysis
  PROVE  /\ HistoryInv' /\ Files' = Append(Files, e) /\ Len(Files') = m
         /\ HasTornEvent' <=> e.torn
         /\ Hashes' = Hashes \cup {hashes + 1}
         /\ Replayed'.status = local[p].to /\ Replayed'.latest = hashes + 1
         /\ Replayed'.verdict = local[p].verdict
         /\ HasRun' /\ e \in EventRecords
PROOF
  <1> DEFINE l == local[p]
             f == Files
             n == Len(f)
  <1>1. /\ Working(p)
    BY DEF Working
  <1>2. /\ TypesInv /\ HistoryInv /\ OperationInv(p) /\ hashes \in Nat
        /\ l \in LocalRecords /\ HasRun /\ ~HasTornEvent
        /\ n >= 1 /\ n \in Nat /\ f \in Seq(EventRecords)
        /\ Replayed.status = f[n].to /\ Replayed.status \in Statuses
        /\ Replayed.verdict = LastVerdict(f).verdict
        /\ Replayed.latest = LastHash(f) /\ Replayed.latest \in 1 .. hashes
    BY <1>1, AtWork
  <1>3. /\ EventPending(l) /\ l.id = m /\ l.previous = LastHash(f)
    BY <1>2 DEF OperationInv
  <1>4. n < MaxEvents
    BY <1>2, <1>3, HistoryIs DEF EventPending
  <1> HIDE DEF l, f
  <1>5. /\ e.type = l.op /\ e.from = l.from /\ e.to = l.to /\ e.link = l.link
        /\ e.verdict = (IF l.op = "verdict" THEN l.verdict ELSE "NOT_RUN")
        /\ e.previous = l.previous /\ e.hash = hashes + 1 /\ e.torn \in BOOLEAN
    <2>1. CASE e = EventOf(l, hashes + 1)
      BY <2>1 DEF EventOf, Event
    <2>2. CASE e = [EventOf(l, hashes + 1) EXCEPT !.torn = TRUE]
      BY <2>2 DEF EventOf, Event
    <2> QED BY <2>1, <2>2 DEF l
  <1>6. /\ l.op \in {"verdict", "review", "promotion"} /\ l.to \in Statuses
        /\ <<l.from, l.to>> \in LegalTransitions[l.op]
        /\ l.from = Replayed.status /\ l.from # "M" /\ l.from \in Statuses
        /\ l.link \in Contents /\ l.previous \in Nat
        /\ l.op = "verdict" => l.verdict \in Verdicts /\ l.link \in Analyses
        /\ l.op # "verdict" => l.verdict = Replayed.verdict
    <2>1. /\ l.op \in {"verdict", "review", "promotion"}
          /\ <<l.from, l.to>> \in LegalTransitions[l.op]
          /\ l.from = Replayed.status /\ l.from # "M"
          /\ l.op = "verdict" => l.verdict \in Verdicts /\ l.link \in Analyses
          /\ l.op # "verdict" => l.verdict = Replayed.verdict
      BY <1>3 DEF EventPending
    <2>2. l.to \in Statuses
      BY <2>1 DEF LegalTransitions, Statuses
    <2>3. l.link \in Contents /\ l.previous \in Nat
      BY <1>2 DEF LocalRecords
    <2> QED BY <1>2, <2>1, <2>2, <2>3
  <1>7. e \in EventRecords
    <2>1. /\ l.op \in EventTypes
          /\ (IF l.op = "verdict" THEN l.verdict ELSE "NOT_RUN") \in Verdicts \cup {"NOT_RUN"}
          /\ hashes + 1 \in Nat
      BY <1>2, <1>6 DEF EventTypes
    <2>2. EventOf(l, hashes + 1) \in EventRecords
      BY <1>6, <2>1 DEF EventOf, Event, EventRecords
    <2>3. [EventOf(l, hashes + 1) EXCEPT !.torn = TRUE] \in EventRecords
      BY <2>2 DEF EventRecords
    <2> QED BY <2>2, <2>3 DEF l
  <1>8. events' = With(events, Name(m, e.type), e)
    BY <1>3, <1>5 DEF NameOf, l
  <1>9. Files' = Append(f, e)
    BY <1>2, <1>7, <1>8, AppendFile DEF HistoryInv, f
  <1>10. /\ Files' \in Seq(EventRecords) /\ Len(Files') = m /\ m = n + 1
         /\ \A k \in 1 .. n : Files'[k] = f[k]
         /\ Files'[m] = e /\ n \in Nat /\ n >= 1
    BY <1>2, <1>7, <1>9, AppendIs DEF f
  <1>11. hashes' \in Nat /\ hashes' >= hashes /\ HasRun'
    BY <1>2 DEF HasRun
  <1>12. EventOK(Files, m)'
    <2>1. /\ StatusAfter(Files', m - 1) = Replayed.status /\ StatusAfter(Files', m - 1) # "M"
          /\ Files'[m].previous = (IF m = 1 THEN 0 ELSE Files'[m - 1].hash)
      <3>1. m - 1 = n /\ n # 0 /\ m # 1 /\ Files'[n] = f[n]
        BY <1>10
      <3>2. f # <<>> /\ LastHash(f) = f[n].hash
        BY <1>2 DEF LastHash, Last
      <3> QED BY <1>2, <1>3, <1>5, <1>6, <1>10, <3>1, <3>2 DEF StatusAfter
    <2>2. Files'[m].previous < Files'[m].hash /\ Files'[m].hash <= hashes'
      BY <1>2, <1>3, <1>5, <1>10
    <2>3. (Files[m] \in EventRecords)'
      BY <1>7, <1>10 DEF EventRecords, Contents
    <2>4. ASSUME ~e.torn PROVE WholeEvent(Files, m)'
      <3>1. Legal(Files'[m], StatusAfter(Files', m - 1))
        BY <1>5, <1>6, <1>10, <2>1, <2>4 DEF Legal
      <3>2. e.type = "verdict" => e.verdict \in Verdicts /\ e.link \in Analyses
        BY <1>5, <1>6
      <3>3. ASSUME e.to \in {"REVIEWED", "M"}
            PROVE  \E j \in 1 .. m : Files'[j].type = "review"
        <4>1. CASE l.op = "review"
          <5>1. m \in 1 .. m /\ Files'[m].type = "review"
            BY <1>5, <1>10, <4>1
          <5> QED BY <5>1
        <4>2. CASE l.op # "review"
          <5>1. l.from = "REVIEWED"
            BY <1>5, <1>6, <3>3, <4>2 DEF LegalTransitions
          <5>2. f[n].to = "REVIEWED" /\ EventOK(f, n) /\ ~f[n].torn
            BY <1>2, <1>6, <5>1, HistoryIs DEF f
          <5>3. PICK j \in 1 .. n : f[j].type = "review"
            BY <5>2 DEF EventOK, WholeEvent
          <5>4. j \in 1 .. m /\ Files'[j].type = "review"
            BY <1>10, <5>3
          <5> QED BY <5>4
        <4> QED BY <4>1, <4>2
      <3>4. ASSUME e.type = "promotion" PROVE Earned(Files, m)'
        <4>1. nature = "measured" /\ Qualified /\ analysis \in Analyses /\ Decided(f, n)
          BY <1>3, <1>5, <3>4 DEF EventPending, f
        <4>2. PICK j \in 1 .. n :
                /\ f[j].type = "verdict" /\ f[j].verdict \in Decisive
                /\ f[j].link = analysis
                /\ \A i \in j + 1 .. n : f[i].type # "verdict"
          BY <4>1 DEF Decided
        <4>3. /\ j \in 1 .. m - 1
              /\ Files'[j].type = "verdict" /\ Files'[j].verdict \in Decisive
              /\ Files'[j].link = analysis'
              /\ \A i \in j + 1 .. m - 1 : Files'[i].type # "verdict"
          <5>1. \A i \in j + 1 .. m - 1 : i \in 1 .. n /\ i \in j + 1 .. n
            BY <1>10
          <5> QED BY <1>10, <4>2, <5>1
        <4>4. Decided(Files, m - 1)'
          BY <4>3 DEF Decided
        <4> QED BY <4>1, <4>4 DEF Earned, Qualified
      <3> QED BY <1>10, <3>1, <3>2, <3>3, <3>4 DEF WholeEvent
    <2> QED BY <1>10, <2>1, <2>2, <2>3, <2>4 DEF EventOK
  <1>13. /\ HistoryInv'
         /\ HasTornEvent' <=> e.torn
         /\ Hashes' = Hashes \cup {e.hash}
         /\ Replayed'.status = e.to /\ Replayed'.latest = e.hash
         /\ Replayed'.verdict = IF e.type = "verdict" THEN e.verdict
                                                      ELSE LastVerdict(f).verdict
    BY <1>2, <1>4, <1>7, <1>8, <1>11, <1>12, HistoryGrows DEF f
  <1>14. Replayed'.verdict = l.verdict
    BY <1>2, <1>5, <1>6, <1>13
  <1> QED BY <1>5, <1>7, <1>9, <1>10, <1>11, <1>13, <1>14 DEF l, f

\* A hash more changes no type.
LEMMA TypesGrow ==
  ASSUME TypesInv, hashes \in Nat, hashes' \in Nat, hashes' >= hashes
  PROVE  /\ state' = state => state' \in (StateRecords \cup {Absent, Torn})'
         /\ index' = index => index' \in (IndexRecords \cup {Absent, Torn})'
         /\ written \subseteq 1 .. hashes'
PROOF
  <1>1. state' = state => state' \in (StateRecords \cup {Absent, Torn})'
    BY DEF TypesInv, StateRecords
  <1>2. index' = index => index' \in (IndexRecords \cup {Absent, Torn})'
    BY DEF TypesInv, IndexRecords, Contents
  <1>3. written \subseteq 1 .. hashes'
    BY DEF TypesInv
  <1> QED BY <1>1, <1>2, <1>3

LEMMA AppendEventKeeps ==
  ASSUME ArchiveInv, OneProcess, NEW p \in Procs, AppendEvent(p), PublicationInv'
  PROVE  ArchiveInv'
PROOF
  <1> DEFINE l == local[p]
             h == hashes + 1
  <1>1. /\ pc[p] = "append" /\ Working(p) /\ pc' = [pc EXCEPT ![p] = "state"]
        /\ events' = With(events, NameOf(l), EventOf(l, h)) /\ hashes' = h
        /\ written' = written \cup {h}
        /\ local' = [local EXCEPT ![p] = [l EXCEPT !.latest = h]]
        /\ nature' = nature /\ runDir' = runDir /\ analysis' = analysis
        /\ state' = state /\ index' = index /\ dirty' = dirty /\ analysed' = analysed
    BY DEF AppendEvent, Working, given, publication
  <1>2. /\ TypesInv /\ HistoryInv /\ OperationInv(p) /\ AppendOnly
        /\ hashes \in Nat /\ pc \in [Procs -> Phases]
        /\ local \in [Procs -> LocalRecords] /\ l \in LocalRecords
        /\ Len(Files) \in Nat
    BY <1>1, AtWork
  <1>3. PICK e : e = EventOf(l, h)
    OBVIOUS
  <1>4. PICK m : m = Len(Files) + 1
    OBVIOUS
  <1>5. ~e.torn
    BY <1>3 DEF EventOf, Event
  <1>6. /\ HistoryInv' /\ Len(Files') = m /\ ~HasTornEvent'
        /\ Hashes' = Hashes \cup {h}
        /\ Replayed'.status = l.to /\ Replayed'.latest = h
        /\ Replayed'.verdict = l.verdict /\ HasRun'
    BY <1>1, <1>3, <1>4, <1>5, PendingEvent
  <1>7. /\ pc'[p] = "state" /\ local'[p] = [l EXCEPT !.latest = h]
        /\ local' \in [Procs -> LocalRecords]
    <2>1. [l EXCEPT !.latest = h] \in LocalRecords
      <3>1. h \in Nat
        BY <1>2
      <3> HIDE DEF l, h
      <3> QED BY <1>2, <3>1 DEF LocalRecords
    <2> QED BY <1>1, <1>2, <2>1
  <1>8. local'[p].to = l.to /\ local'[p].verdict = l.verdict /\ local'[p].latest = h
    BY <1>2, <1>7 DEF LocalRecords
  <1>9. ~dirty
    BY <1>1, <1>2 DEF OperationInv
  <1>10. OperationInv(p)'
    BY <1>1, <1>6, <1>7, <1>8, <1>9 DEF OperationInv, Working
  <1>11. TypesInv'
    <2>1. hashes' \in Nat /\ hashes' >= hashes /\ h \in 1 .. hashes'
      BY <1>1, <1>2
    <2>2. /\ state' \in (StateRecords \cup {Absent, Torn})'
          /\ index' \in (IndexRecords \cup {Absent, Torn})'
          /\ written' \subseteq 1 .. hashes'
      BY <1>1, <1>2, <2>1, TypesGrow
    <2> QED BY <1>1, <1>2, <1>7, <2>2 DEF TypesInv, Contents
  <1>12. AppendOnly'
    BY <1>1, <1>2, <1>6 DEF AppendOnly
  <1>13. Len(Files') >= 1
    BY <1>2, <1>4, <1>6
  <1>14. pc'[p] # "idle"
    BY <1>7
  <1> QED BY <1>1, <1>6, <1>10, <1>11, <1>12, <1>13, <1>14, WorkStep

\* Where a crash leaves the archive, whatever it was doing to it.
LEMMA CrashEnds ==
  ASSUME ArchiveInv, OneProcess, NEW p \in Procs, PublicationInv',
         pc' = [pc EXCEPT ![p] = "idle"], local' = [local EXCEPT ![p] = Idle],
         dirty' = (dirty \/ HasRun), nature' = nature, runDir' = runDir,
         hashes' \in Nat, hashes' >= hashes, UNCHANGED history,
         analysis' \in Contents,
         state' = state \/ state' = Torn, index' = index \/ index' = Torn,
         HistoryInv', AppendOnly',
         IF HasRun THEN Len(Files') >= 1 ELSE UNCHANGED archive
  PROVE  ArchiveInv'
PROOF
  <1>1. /\ TypesInv /\ VoidInv /\ hashes \in Nat /\ pc \in [Procs -> Phases]
        /\ local \in [Procs -> LocalRecords] /\ dirty \in BOOLEAN
    BY DEF ArchiveInv, PublicationInv, TypesInv
  <1>2. HasRun' = HasRun
    BY DEF HasRun
  <1>3. pc'[p] = "idle" /\ local'[p] = Idle /\ local' \in [Procs -> LocalRecords]
    <2>1. Idle \in LocalRecords
      BY DEF Idle, LocalRecords, Contents
    <2> QED BY <1>1, <2>1
  <1>4. \A q \in Procs : OperationInv(q)'
    BY <1>3 DEF OneProcess, OperationInv, Working
  <1>5. RestInv'
    BY <1>2 DEF RestInv
  <1>6. TypesInv'
    <2>1. /\ state' = state => state' \in (StateRecords \cup {Absent, Torn})'
          /\ index' = index => index' \in (IndexRecords \cup {Absent, Torn})'
          /\ written \subseteq 1 .. hashes'
      BY <1>1, TypesGrow
    <2>2. /\ state' \in (StateRecords \cup {Absent, Torn})'
          /\ index' \in (IndexRecords \cup {Absent, Torn})'
      BY <2>1 DEF Torn
    <2>3. dirty' \in BOOLEAN
      BY DEF HasRun
    <2> QED BY <1>1, <1>3, <2>1, <2>2, <2>3 DEF TypesInv, Contents, history
  <1>7. VoidInv'
    <2>1. CASE HasRun
      BY <1>2, <2>1 DEF VoidInv
    <2>2. CASE ~HasRun
      BY <1>1, <1>2, <2>2 DEF VoidInv, archive, history, Files
    <2> QED BY <2>1, <2>2
  <1> QED BY <1>4, <1>5, <1>6, <1>7 DEF ArchiveInv

LEMMA CrashKeeps ==
  ASSUME ArchiveInv, OneProcess, NEW p \in Procs, Crash(p), PublicationInv'
  PROVE  ArchiveInv'
PROOF
  <1>1. /\ pc[p] # "idle" /\ pc' = [pc EXCEPT ![p] = "idle"]
        /\ local' = [local EXCEPT ![p] = Idle] /\ dirty' = (dirty \/ HasRun)
        /\ nature' = nature /\ runDir' = runDir /\ UNCHANGED history
    BY DEF Crash
  <1>2. /\ TypesInv /\ HistoryInv /\ VoidInv /\ AppendOnly /\ hashes \in Nat
        /\ pc \in [Procs -> Phases] /\ OperationInv(p)
        /\ \A q \in Procs : pc[q] = "idle" \/ Publishing(q) \/ HasRun
    BY DEF ArchiveInv, PublicationInv
  <1>3. analysis \in Contents /\ "torn" \in Contents
    BY <1>2 DEF TypesInv, Contents
  \* No event file is touched.
  <1>4. ASSUME events' = events, hashes' = hashes,
               state' = state \/ state' = Torn, index' = index \/ index' = Torn,
               analysis' = analysis \/ (analysis' = "torn" /\ pc[p] = "analysis"),
               HasRun \/ UNCHANGED archive
        PROVE  ArchiveInv'
    <2>1. pc[p] = "analysis" =>
            /\ analysed = {}
            /\ \A k \in 1 .. Len(Files) : Files[k].type # "promotion" \/ Files[k].torn
      <3>1. SUFFICES ASSUME pc[p] = "analysis"
                     PROVE  /\ analysed = {}
                            /\ \A k \in 1 .. Len(Files) :
                                 Files[k].type # "promotion" \/ Files[k].torn
        OBVIOUS
      <3>2. Working(p) /\ analysis = "none" /\ Replayed.status # "M"
        BY <1>2, <3>1 DEF Working, OperationInv
      <3>3. Len(Files) >= 1 /\ Files[Len(Files)].to # "M"
        BY <3>2, AtWork
      <3>4. analysed = {}
        BY <1>2, <3>2, ArchiveAssumption DEF AppendOnly, TypesInv
      <3> QED BY <1>2, <3>3, <3>4, NotPromoted
    <2>2. hashes' \in Nat /\ hashes' >= hashes
      BY <1>2, <1>4
    <2>3. HistoryInv' /\ Files' = Files /\ Hashes' = Hashes
      BY <1>1, <1>2, <1>4, <2>1, <2>2, HistoryKept
    <2>4. AppendOnly'
      BY <1>1, <1>2, <1>4, <2>1, <2>3 DEF AppendOnly, history
    <2>5. IF HasRun THEN Len(Files') >= 1 ELSE UNCHANGED archive
      BY <1>2, <1>4, <2>3 DEF VoidInv
    <2>6. analysis' \in Contents
      BY <1>3, <1>4
    <2> QED BY <1>1, <1>4, <2>2, <2>3, <2>4, <2>5, <2>6, CrashEnds
  <1>5. CASE UNCHANGED archive /\ hashes' = hashes
    <2>1. /\ events' = events /\ state' = state /\ index' = index
          /\ analysis' = analysis
      BY <1>5 DEF archive
    <2> QED BY <1>4, <1>5, <2>1
  <1>6. CASE TearFile(p)
    <2>1. pc[p] \in {"append", "analysis", "state", "index"}
      BY <1>6 DEF TearFile
    <2>2. HasRun
      BY <1>2, <2>1 DEF Publishing
    <2>3. CASE pc[p] = "append"
      <3> DEFINE w == EventOf(local[p], hashes + 1)
      <3>1. /\ events' = With(events, NameOf(local[p]), [w EXCEPT !.torn = TRUE])
            /\ hashes' = hashes + 1
            /\ analysis' = analysis /\ state' = state /\ index' = index
        BY <1>6, <2>3 DEF TearFile
      <3>2. PICK e : e = [w EXCEPT !.torn = TRUE]
        OBVIOUS
      <3>3. PICK m : m = Len(Files) + 1
        OBVIOUS
      <3>4. HistoryInv' /\ Len(Files') = m /\ Hashes' = Hashes \cup {hashes + 1}
        BY <1>1, <2>3, <3>1, <3>2, <3>3, PendingEvent
      <3>5. Len(Files') >= 1
        BY <1>2, <3>3, <3>4, HistoryIs
      <3>6. AppendOnly'
        BY <1>1, <1>2, <3>1, <3>4 DEF AppendOnly, history
      <3>7. hashes' \in Nat /\ hashes' >= hashes
        BY <1>2, <3>1
      <3> QED BY <1>1, <1>3, <2>2, <3>1, <3>4, <3>5, <3>6, <3>7, CrashEnds
    <2>4. CASE pc[p] # "append"
      <3>1. /\ events' = events /\ hashes' = hashes
            /\ state' = state \/ state' = Torn
            /\ index' = index \/ index' = Torn
            /\ analysis' = analysis \/ (analysis' = "torn" /\ pc[p] = "analysis")
        BY <1>6, <2>1, <2>4 DEF TearFile
      <3> QED BY <1>4, <2>2, <3>1
    <2> QED BY <2>3, <2>4
  <1> QED BY <1>5, <1>6 DEF Crash

LEMMA DeleteDerivedKeeps ==
  ASSUME ArchiveInv, DeleteDerived, PublicationInv'
  PROVE  ArchiveInv'
PROOF
  <1>1. /\ HasRun /\ \A q \in Procs : pc[q] = "idle"
        /\ state' \in {state, Absent} /\ index' \in {index, Absent}
        /\ pc' = pc /\ local' = local /\ dirty' = dirty /\ nature' = nature
        /\ runDir' = runDir /\ hashes' = hashes /\ events' = events
        /\ analysis' = analysis /\ written' = written /\ analysed' = analysed
    BY DEF DeleteDerived, given, publication, history
  <1>2. /\ TypesInv /\ HistoryInv /\ VoidInv /\ RestInv /\ AppendOnly /\ hashes \in Nat
        /\ \A q \in Procs : OperationInv(q)
    BY DEF ArchiveInv, PublicationInv
  <1>3. /\ HistoryInv' /\ Files' = Files /\ HasTornEvent' = HasTornEvent
        /\ HasRun' = HasRun /\ Replayed' = Replayed /\ Hashes' = Hashes
    <2>1. hashes' \in Nat /\ hashes' >= hashes
      BY <1>1, <1>2
    <2> QED BY <1>1, <1>2, <2>1, HistoryKept
  <1>4. \A q \in Procs : OperationInv(q)'
    BY <1>1, <1>2 DEF OperationInv, Working
  <1>5. RestInv'
    <2>1. IndexOfFiles' = IndexOfFiles
      BY <1>1, <1>3 DEF IndexOfFiles
    <2>2. StateCurrent /\ state' = state => StateCurrent'
      BY <1>3 DEF StateCurrent
    <2>3. Absent' = Absent
      BY DEF Absent
    <2> QED BY <1>1, <1>2, <1>3, <2>1, <2>2, <2>3 DEF RestInv
  <1>6. TypesInv'
    <2>1. hashes' \in Nat /\ hashes' >= hashes
      BY <1>1, <1>2
    <2>2. /\ state' = state => state' \in (StateRecords \cup {Absent, Torn})'
          /\ index' = index => index' \in (IndexRecords \cup {Absent, Torn})'
      BY <1>2, <2>1, TypesGrow
    <2>3. /\ state' \in (StateRecords \cup {Absent, Torn})'
          /\ index' \in (IndexRecords \cup {Absent, Torn})'
      BY <1>1, <2>2 DEF Absent
    <2> QED BY <1>1, <1>2, <2>3 DEF TypesInv, Contents
  <1>7. VoidInv' /\ AppendOnly'
    BY <1>1, <1>2, <1>3 DEF VoidInv, AppendOnly
  <1> QED BY <1>3, <1>4, <1>5, <1>6, <1>7 DEF ArchiveInv

LEMMA FilesJoined ==
  ASSUME NEW s \in Seq(FileNames), NEW t \in Seq(FileNames)
  PROVE  /\ s \o t \in Seq(FileNames) /\ Len(s \o t) = Len(s) + Len(t)
         /\ \A i \in 1 .. Len(t) : (s \o t)[Len(s) + i] = t[i]
PROOF
  OBVIOUS

LEMMA FilesHave ==
  ASSUME NEW b \in BOOLEAN
  PROVE  {"event", "state", "index"} \subseteq ToSet(FilesOf(b))
PROOF
  <1> DEFINE mid == IF b THEN <<"baseline">> ELSE <<>>
             pre == <<"definition", "context">>
             post == <<"series", "capture", "manifest", "event", "state", "index">>
             s == pre \o mid
             t == s \o post
  <1>1. mid \in Seq(FileNames) /\ pre \in Seq(FileNames)
    <2>1. <<"baseline">> \in Seq(FileNames) /\ <<>> \in Seq(FileNames)
      BY DEF FileNames
    <2>2. mid \in Seq(FileNames)
      BY <2>1
    <2>3. pre \in Seq(FileNames)
      BY DEF FileNames
    <2> QED BY <2>2, <2>3
  <1>2. /\ post \in Seq(FileNames) /\ Len(post) = 6
        /\ post[4] = "event" /\ post[5] = "state" /\ post[6] = "index"
    BY DEF FileNames
  <1>3. FilesOf(b) = t
    BY DEF FilesOf
  <1> HIDE DEF mid, pre, post
  <1>4. s \in Seq(FileNames)
    BY <1>1
  <1> HIDE DEF s
  <1>5. /\ DOMAIN t = 1 .. Len(s) + 6 /\ Len(s) \in Nat
        /\ t[Len(s) + 4] = post[4] /\ t[Len(s) + 5] = post[5] /\ t[Len(s) + 6] = post[6]
    <2> DEFINE n == Len(s)
    <2>1. n \in Nat
      BY <1>4
    <2>2. DOMAIN t = 1 .. n + Len(post) /\ \A i \in 1 .. Len(post) : t[n + i] = post[i]
      <3>1. /\ t \in Seq(FileNames) /\ Len(t) = n + Len(post)
            /\ \A i \in 1 .. Len(post) : t[n + i] = post[i]
        BY <1>2, <1>4, FilesJoined
      <3> HIDE DEF t, n
      <3> QED BY <3>1
    <2> HIDE DEF t, n
    <2>3. /\ DOMAIN t = 1 .. n + 6 /\ 4 \in 1 .. Len(post) /\ 5 \in 1 .. Len(post)
          /\ 6 \in 1 .. Len(post)
      BY <1>2, <2>1, <2>2
    <2> QED BY <2>1, <2>2, <2>3 DEF n
  <1> HIDE DEF t
  <1>6. /\ Len(s) + 4 \in DOMAIN t /\ Len(s) + 5 \in DOMAIN t /\ Len(s) + 6 \in DOMAIN t
    BY <1>5
  <1> QED BY <1>2, <1>3, <1>5, <1>6 DEF ToSet

LEMMA PublishRunKeeps ==
  ASSUME ArchiveInv, OneProcess, NEW p \in Procs, PublishRun(p)
  PROVE  /\ ArchiveInv' /\ ~HasTornEvent /\ ~HasTornEvent' /\ analysis' = analysis
         /\ \E e \in EventRecords : Files' = Append(Files, e)
PROOF
  <1>1. /\ pc' = [pc EXCEPT ![p] = "idle"] /\ hashes' = hashes /\ runDir' = staging
        /\ nature' = nature /\ analysis' = analysis /\ local' = local
        /\ dirty' = dirty /\ analysed' = analysed
        /\ written' = {staging["event"]} /\ Publish(p)
        /\ state' = StateOf(AcquiredStatus, "NOT_RUN", staging["state"])
        /\ index' = [events |-> {staging["index"]}, analysis |-> "none"]
        /\ events' = With(<<>>, Name(1, "acquisition"),
                          Event("acquisition", "NONE", AcquiredStatus, "NOT_RUN",
                                "none", 0, staging["event"]))
    BY DEF PublishRun, Publish
  <1>2. /\ TypesInv /\ HistoryInv /\ VoidInv /\ hashes \in Nat
        /\ pc \in [Procs -> Phases] /\ OperationInv(p) /\ PublicationInv
    BY DEF ArchiveInv, PublicationInv
  <1>3. /\ PublicationInv' /\ ~HasRun /\ HasRun' /\ Publishing(p)
        /\ attempt.id \in 1 .. hashes
        /\ \E b \in BOOLEAN : runDir' = [file \in ToSet(FilesOf(b)) |-> attempt.id]
    BY <1>1, <1>2, PublishPublishes
  <1>4. PICK id \in 1 .. hashes :
          staging["event"] = id /\ staging["state"] = id /\ staging["index"] = id
    BY <1>1, <1>3, FilesHave
  <1>5. /\ events = <<>> /\ analysis = "none" /\ ~dirty /\ analysed = {}
        /\ Files = <<>> /\ Len(Files) = 0 /\ ~HasTornEvent /\ Hashes = {}
    BY <1>2, <1>3, NoEvents DEF VoidInv
  <1>6. AcquiredStatus \in {"RAW", "S"}
    BY DEF AcquiredStatus
  <1>7. PICK e : e = Event("acquisition", "NONE", AcquiredStatus, "NOT_RUN", "none", 0, id)
    OBVIOUS
  <1>8. /\ e.type = "acquisition" /\ e.from = "NONE" /\ e.to = AcquiredStatus
        /\ e.verdict = "NOT_RUN" /\ e.previous = 0 /\ e.hash = id /\ ~e.torn
    BY <1>7 DEF Event
  <1>9. e \in EventRecords
    <2>1. id \in Nat /\ AcquiredStatus \in Statuses
      BY <1>2, <1>6 DEF Statuses
    <2> QED BY <1>7, <2>1 DEF Event, EventRecords, EventTypes, Contents
  <1>10. PICK m : m = 1
    OBVIOUS
  <1>11. events' = With(events, Name(m, e.type), e)
    BY <1>1, <1>4, <1>5, <1>7, <1>8, <1>10
  <1>12. Files' = Append(Files, e) /\ m = Len(Files) + 1
    BY <1>2, <1>5, <1>9, <1>10, <1>11, AppendFile DEF HistoryInv
  <1>13. Files' \in Seq(EventRecords) /\ Len(Files') = m /\ Files'[m] = e
    BY <1>2, <1>5, <1>9, <1>12, AppendIs, HistoryIs
  <1>14. EventOK(Files, m)'
    <2>1. StatusAfter(Files', m - 1) = "NONE"
      BY <1>10 DEF StatusAfter
    <2>2. Files'[m].previous < Files'[m].hash /\ Files'[m].hash <= hashes'
      BY <1>1, <1>2, <1>4, <1>8, <1>13
    <2>3. (Files[m] \in EventRecords)'
      BY <1>9, <1>13 DEF EventRecords, Contents
    <2>4. Legal(e, "NONE")
      BY <1>6, <1>8 DEF Legal, LegalTransitions
    <2>5. WholeEvent(Files, m)'
      BY <1>6, <1>8, <1>13, <2>1, <2>4 DEF WholeEvent
    <2>6. Files'[m].previous = (IF m = 1 THEN 0 ELSE Files'[m - 1].hash)
      BY <1>8, <1>10, <1>13
    <2> QED BY <1>8, <1>13, <2>1, <2>2, <2>3, <2>5, <2>6 DEF EventOK
  <1>15. /\ HistoryInv' /\ ~HasTornEvent' /\ Hashes' = {id}
         /\ Replayed'.status = AcquiredStatus /\ Replayed'.latest = id
         /\ Replayed'.verdict = "NOT_RUN"
    <2>1. Len(Files) < MaxEvents
      BY <1>5, ArchiveAssumption
    <2>2. LastVerdict(Files).verdict = "NOT_RUN"
      BY <1>5 DEF LastVerdict
    <2>3. hashes' \in Nat /\ hashes' >= hashes
      BY <1>1, <1>2
    <2> QED BY <1>1, <1>2, <1>5, <1>8, <1>9, <1>11, <1>12, <1>14, <2>1, <2>2, <2>3,
               HistoryGrows
  <1>16. StateCurrent'
    BY <1>1, <1>4, <1>15 DEF StateCurrent, StateOf, AcquiredStatus
  <1>17. index' = IndexOfFiles'
    BY <1>1, <1>4, <1>5, <1>15 DEF IndexOfFiles
  <1>18. RestInv'
    BY <1>15, <1>16, <1>17 DEF RestInv
  <1>19. OperationInv(p)'
    <2>1. local[p] = Idle
      BY <1>2, <1>3 DEF OperationInv, Working, Publishing
    <2>2. pc'[p] = "idle"
      BY <1>1, <1>2
    <2> QED BY <1>1, <2>1, <2>2 DEF OperationInv, Working
  <1>20. TypesInv'
    <2>1. AcquiredStatus \in Statuses /\ id \in 0 .. hashes' /\ id \in 1 .. hashes'
      BY <1>1, <1>2, <1>6 DEF Statuses
    <2>2. state' \in StateRecords'
      BY <1>1, <1>4, <2>1 DEF StateOf, StateRecords
    <2>3. index' \in IndexRecords'
      BY <1>1, <1>4, <2>1 DEF IndexRecords, Contents
    <2> QED BY <1>1, <1>2, <1>4, <2>1, <2>2, <2>3 DEF TypesInv, Contents
  <1>21. AppendOnly'
    BY <1>1, <1>4, <1>5, <1>15 DEF AppendOnly
  <1>22. VoidInv'
    BY <1>3, <1>10, <1>13 DEF VoidInv
  <1>23. \A q \in Procs : OperationInv(q)'
    BY <1>19 DEF OneProcess
  <1>24. ArchiveInv'
    BY <1>3, <1>15, <1>18, <1>20, <1>21, <1>22, <1>23 DEF ArchiveInv
  <1> QED BY <1>1, <1>5, <1>9, <1>12, <1>15, <1>24

LEMMA ArchiveStep ==
  ASSUME ArchiveInv, OneProcess, RebuildFirst, [Next]_vars PROVE ArchiveInv'
PROOF
  <1>1. PublicationInv' /\ PublicationInv
    BY PublicationStep DEF ArchiveInv, NothingToRead, VoidInv
  <1>2. ASSUME NEW p \in Procs, Campaign(p) PROVE ArchiveInv'
    BY <1>1, <1>2, CampaignKeeps, PublishRunKeeps DEF Campaign
  <1>3. ASSUME NEW p \in Procs, Write(p) PROVE ArchiveInv'
    BY <1>1, <1>3, ListKeeps, AppendEventKeeps, WriteStateKeeps, WriteAnalysisKeeps,
       WriteIndexKeeps DEF Write
  <1>4. CASE UNCHANGED vars
    <2>1. /\ UNCHANGED archive /\ UNCHANGED <<dirty, history>> /\ local' = local
          /\ pc' = pc /\ hashes' = hashes /\ nature' = nature /\ runDir' = runDir
      BY <1>4 DEF vars, given, publication
    <2>2. /\ HistoryInv /\ hashes \in Nat /\ TypesInv /\ VoidInv /\ RestInv
          /\ AppendOnly /\ \A q \in Procs : OperationInv(q)
      BY DEF ArchiveInv, PublicationInv
    <2>3. /\ events' = events /\ analysis' = analysis /\ state' = state
          /\ index' = index /\ dirty' = dirty /\ written' = written
          /\ analysed' = analysed
      BY <2>1 DEF archive, history
    <2>4. /\ HistoryInv' /\ Files' = Files /\ HasTornEvent' = HasTornEvent
          /\ HasRun' = HasRun /\ Replayed' = Replayed /\ Hashes' = Hashes
      <3>1. hashes' \in Nat /\ hashes' >= hashes
        BY <2>1, <2>2
      <3> QED BY <2>1, <2>2, <2>3, <3>1, HistoryKept
    <2>5. /\ StateCurrent' <=> StateCurrent
          /\ IndexOfFiles' = IndexOfFiles
      BY <2>3, <2>4 DEF StateCurrent, IndexOfFiles
    <2>6. ASSUME NEW q \in Procs PROVE OperationInv(q)'
      <3>1. EventPending(local[q])' <=> EventPending(local[q])
        BY <2>1, <2>3, <2>4 DEF EventPending, Decided, Qualified
      <3> QED BY <2>1, <2>2, <2>3, <2>4, <2>5, <3>1 DEF OperationInv, Working
    <2>7. RestInv' /\ VoidInv' /\ AppendOnly'
      BY <2>1, <2>2, <2>3, <2>4, <2>5 DEF RestInv, VoidInv, AppendOnly
    <2>8. TypesInv'
      BY <2>1, <2>2, <2>3 DEF TypesInv, StateRecords, IndexRecords, Contents
    <2> QED BY <1>1, <2>4, <2>6, <2>7, <2>8 DEF ArchiveInv
  <1> QED BY <1>1, <1>2, <1>3, <1>4, OperateKeeps, CrashKeeps, DeleteDerivedKeeps
       DEF Next

-----------------------------------------------------------------------------
(* What one process that rebuilds first promises.                          *)

LEMMA ArchiveInvariant ==
  ASSUME OneProcess, RebuildFirst PROVE Spec => []ArchiveInv
PROOF
  <1>1. Init => ArchiveInv
    BY InitInv
  <1>2. ArchiveInv /\ [Next]_vars => ArchiveInv'
    BY ArchiveStep
  <1> QED BY <1>1, <1>2, PTL DEF Spec

\* What the event files hold.
LEMMA EventsAre ==
  ASSUME ArchiveInv
  PROVE  /\ \A n \in DOMAIN events :
              /\ events[n] \in EventRecords
              /\ \E id \in 1 .. MaxEvents : n = Name(id, events[n].type)
              /\ events[n].previous < events[n].hash /\ events[n].hash <= hashes
PROOF
  <1> DEFINE f == Files
             n == Len(f)
  <1>1. HistoryInv /\ hashes \in Nat
    BY DEF ArchiveInv, PublicationInv
  <1>2. /\ n \in Nat /\ n <= MaxEvents
        /\ DOMAIN events = {Name(k, f[k].type) : k \in 1 .. n}
        /\ \A k \in 1 .. n : f[k] = events[Name(k, f[k].type)]
        /\ \A k \in 1 .. n : EventOK(f, k)
    BY <1>1, FilesAre DEF HistoryInv, History
  <1> HIDE DEF f
  <1>3. ASSUME NEW x \in DOMAIN events
        PROVE  /\ events[x] \in EventRecords
               /\ \E id \in 1 .. MaxEvents : x = Name(id, events[x].type)
               /\ events[x].previous < events[x].hash /\ events[x].hash <= hashes
    <2>1. PICK k \in 1 .. n : x = Name(k, f[k].type)
      BY <1>2
    <2>2. events[x] = f[k] /\ EventOK(f, k) /\ k \in 1 .. MaxEvents
      BY <1>2, <2>1, ArchiveAssumption
    <2> QED BY <2>1, <2>2 DEF EventOK
  <1> QED BY <1>3

\* The variables keep the types of the archive's files.
THEOREM ArchiveTypes ==
  ASSUME OneProcess, RebuildFirst PROVE Spec => []TypeOK
PROOF
  <1>1. ArchiveInv => TypeOK
    BY EventsAre DEF ArchiveInv, TypesInv, TypeOK, StateRecords, IndexRecords
  <1> QED BY <1>1, ArchiveInvariant, PTL

\* architecture.md:80-82: what was written completely stays.
THEOREM EvidenceIsAppendOnly ==
  ASSUME OneProcess, RebuildFirst PROVE Spec => []AppendOnly
PROOF
  <1>1. ArchiveInv => AppendOnly
    BY DEF ArchiveInv
  <1> QED BY <1>1, ArchiveInvariant, PTL

\* campaign.py:10-11: nothing is appended to a run that reached M.
THEOREM NothingAfterM ==
  ASSUME OneProcess, RebuildFirst PROVE Spec => []LockedAtM
PROOF
  <1>1. ASSUME ArchiveInv PROVE LockedAtM
    <2>1. HistoryInv /\ hashes \in Nat
      BY <1>1 DEF ArchiveInv, PublicationInv
    <2>2. DOMAIN Files = 1 .. Len(Files)
      BY <2>1, HistoryIs
    <2> QED BY <2>1, <2>2, PromotionIsLast DEF LockedAtM
  <1> QED BY <1>1, ArchiveInvariant, PTL

\* The events form one chain and replay as a legal history, as long as no file
\* of theirs was torn.
THEOREM EventsReplay ==
  ASSUME OneProcess, RebuildFirst PROVE Spec => []HistoryReplays
PROOF
  <1>1. ASSUME ArchiveInv PROVE HistoryReplays
    <2>1. HistoryInv /\ hashes \in Nat /\ VoidInv
      BY <1>1 DEF ArchiveInv, PublicationInv
    <2> QED BY <2>1, ReplayIs DEF HistoryReplays, VoidInv
  <1> QED BY <1>1, ArchiveInvariant, PTL

\* measurement-data-model.md:196-203: verify_run accepts the archive at rest, every
\* crash rebuilt.
THEOREM ArchiveAtRestVerifies ==
  ASSUME OneProcess, RebuildFirst PROVE Spec => []ArchiveVerifies
PROOF
  <1>1. ASSUME ArchiveInv PROVE ArchiveVerifies
    <2>1. HistoryInv /\ hashes \in Nat /\ VoidInv /\ RestInv
      BY <1>1 DEF ArchiveInv, PublicationInv
    <2>2. SUFFICES ASSUME HasRun, \A p \in Procs : pc[p] = "idle", ~dirty,
                          analysis # "torn"
                   PROVE  Verifies
      BY DEF ArchiveVerifies
    <2>3. /\ ~HasTornEvent /\ (state = Absent \/ StateCurrent)
          /\ (index = Absent \/ index = IndexOfFiles) /\ Len(Files) >= 1
      BY <2>1, <2>2 DEF RestInv, VoidInv
    <2>4. Replayed.ok /\ Chained
      BY <2>1, <2>2, <2>3, ReplayIs
    <2> QED BY <2>2, <2>3, <2>4 DEF Verifies, StateCurrent
  <1> QED BY <1>1, ArchiveInvariant, PTL

\* campaign-workflow.md:38-42: a run is at M by a real acquisition, a review and a
\* decisive last verdict, tied to the analysis the archive holds.
THEOREM MeasuredRunsQualify ==
  ASSUME OneProcess, RebuildFirst PROVE Spec => []MeasuredIsQualified
PROOF
  <1>1. ASSUME ArchiveInv PROVE MeasuredIsQualified
    <2> DEFINE f == Files
               n == Len(f)
    <2>1. HistoryInv /\ hashes \in Nat
      BY <1>1 DEF ArchiveInv, PublicationInv
    <2>2. DOMAIN f = 1 .. n /\ n \in Nat /\ \A k \in 1 .. n : EventOK(f, k)
      BY <2>1, HistoryIs
    <2> HIDE DEF f
    <2>3. ASSUME NEW k \in 1 .. n, f[k].type = "promotion", ~f[k].torn
          PROVE  /\ nature = "measured" /\ Qualified
                 /\ \E j \in 1 .. k - 1 : f[j].type = "review"
                 /\ \E j \in 1 .. k - 1 :
                      /\ f[j].type = "verdict" /\ f[j].verdict \in Decisive
                      /\ f[j].link = analysis /\ analysis \in Analyses
                      /\ \A i \in j + 1 .. k - 1 : f[i].type # "verdict"
      <3>1. WholeEvent(f, k)
        BY <2>2, <2>3 DEF EventOK
      <3>2. f[k].to = "M" /\ k \in Nat
        BY <2>1, <2>2, <2>3, PromotionIsLast DEF f
      <3>3. PICK j \in 1 .. k : f[j].type = "review"
        BY <3>1, <3>2 DEF WholeEvent
      <3>4. j \in 1 .. k - 1
        BY <2>3, <3>2, <3>3
      <3>5. Earned(f, k)
        BY <2>3, <3>1 DEF WholeEvent
      <3> QED BY <3>3, <3>4, <3>5 DEF Earned, Decided
    <2> QED BY <2>2, <2>3 DEF MeasuredIsQualified, f
  <1> QED BY <1>1, ArchiveInvariant, PTL

-----------------------------------------------------------------------------
(* The archive implements EvidenceLifeCycle.                               *)

\* A directory that holds what the archive holds.
LEMMA SameFiles ==
  ASSUME HistoryInv, NEW dir, DOMAIN dir = DOMAIN events,
         \A n \in DOMAIN dir : dir[n] = events[n]
  PROVE  InOrder(dir) = Files
PROOF
  <1> DEFINE f == Files
             n == Len(f)
             t == [k \in 1 .. n |-> f[k].type]
  <1>1. /\ n \in Nat /\ f \in Seq(EventRecords) /\ f \in [1 .. n -> EventRecords]
        /\ DOMAIN events = {Name(k, f[k].type) : k \in 1 .. n}
        /\ \A k \in 1 .. n : f[k] = events[Name(k, f[k].type)]
    BY FilesAre DEF HistoryInv
  <1> HIDE DEF f, n
  <1>2. \A k \in 1 .. n : t[k] \in EventTypes /\ t[k] = f[k].type
    BY <1>1 DEF EventRecords
  <1>3. t \in [1 .. n -> EventTypes]
    BY <1>2
  <1> HIDE DEF t
  <1>4. DOMAIN dir = {Name(k, t[k]) : k \in 1 .. n}
    BY <1>1, <1>2
  <1>5. InOrder(dir) = [k \in 1 .. n |-> dir[Name(k, t[k])]]
    BY <1>1, <1>3, <1>4, InOrderIs
  <1>6. \A k \in 1 .. n : dir[Name(k, t[k])] = f[k]
    BY <1>1, <1>2, <1>4
  <1> QED BY <1>1, <1>5, <1>6 DEF f

LEMMA TrailIsFiles == ASSUME HistoryInv, ~HasTornEvent PROVE Trail = Files
PROOF
  <1> DEFINE whole == {n \in DOMAIN events : ~events[n].torn}
             dir == Restrict(events, whole)
  <1>1. whole = DOMAIN events
    BY DEF HasTornEvent
  <1>2. DOMAIN dir = DOMAIN events /\ \A n \in DOMAIN dir : dir[n] = events[n]
    BY <1>1 DEF Restrict
  <1>3. Trail = InOrder(dir)
    BY DEF Trail
  <1> HIDE DEF dir
  <1> QED BY <1>2, <1>3, SameFiles

\* A torn event is no evidence.
LEMMA TornIsNoEvidence ==
  ASSUME HistoryInv, ~HasTornEvent, NEW e \in EventRecords, e.torn,
         events' = With(events, Name(Len(Files) + 1, e.type), e)
  PROVE  Trail' = Trail
PROOF
  <1> DEFINE name == Name(Len(Files) + 1, e.type)
             whole == {n \in DOMAIN events' : ~events'[n].torn}
             dir == Restrict(events', whole)
  <1>1. /\ \A n \in DOMAIN events : n \in DOMAIN events' /\ events'[n] = events[n]
        /\ events'[name] = e
    BY AppendFile DEF HistoryInv
  <1>2. DOMAIN events' = DOMAIN events \cup {name}
    BY DEF With
  <1>3. whole = DOMAIN events
    BY <1>1, <1>2 DEF HasTornEvent
  <1>4. DOMAIN dir = DOMAIN events /\ \A n \in DOMAIN dir : dir[n] = events[n]
    BY <1>1, <1>3 DEF Restrict
  <1>5. Trail' = InOrder(dir)
    BY DEF Trail
  <1> HIDE DEF dir
  <1> QED BY <1>4, <1>5, SameFiles, TrailIsFiles

LEMMA TornIs ==
  HistoryInv /\ hashes \in Nat /\ ~HasTornEvent =>
    \A k \in 1 .. Len(Files) : ~Files[k].torn
PROOF
  BY HistoryIs

\* An event written completely is a step of the life cycle.
LEMMA EvidenceRecorded ==
  ASSUME ArchiveInv, ArchiveInv', ~HasTornEvent, ~HasTornEvent',
         NEW e \in EventRecords, Files' = Append(Files, e), analysis' = analysis
  PROVE  LifeCycle!Next
PROOF
  <1> DEFINE f == Files
             n == Len(f)
  <1>1. /\ HistoryInv /\ HistoryInv' /\ hashes \in Nat /\ hashes' \in Nat
    BY DEF ArchiveInv, PublicationInv
  <1>2. Trail = f /\ Trail' = Append(f, e)
    <2>1. Trail = f
      BY <1>1, TrailIsFiles
    <2>2. (HistoryInv /\ ~HasTornEvent => Trail = Files)'
      BY TrailIsFiles, PTL
    <2> QED BY <1>1, <2>1, <2>2
  <1>3. /\ f \in Seq(EventRecords) /\ n \in Nat
        /\ \A k \in 1 .. n : EventOK(f, k) /\ ~f[k].torn
    BY <1>1, HistoryIs
  <1>4. PICK m : m = n + 1
    OBVIOUS
  <1>5. /\ Files' \in Seq(EventRecords) /\ Len(Files') = m /\ m \in 1 .. m
        /\ \A k \in 1 .. n : Files'[k] = f[k]
        /\ Files'[m] = e
    BY <1>3, <1>4, AppendIs
  <1>6. EventOK(Files, m)'
    BY <1>1, <1>5 DEF HistoryInv, History
  <1>7. ~e.torn
    <2>1. (HistoryInv /\ hashes \in Nat /\ ~HasTornEvent =>
             \A k \in 1 .. Len(Files) : ~Files[k].torn)'
      BY TornIs, PTL
    <2> QED BY <1>1, <1>5, <2>1
  <1>8. WholeEvent(Files, m)'
    BY <1>5, <1>6, <1>7 DEF EventOK
  <1> DEFINE status == StatusAfter(f, n)
  <1>9. StatusAfter(Files', m - 1) = status
    <2>1. m - 1 = n
      BY <1>3, <1>4
    <2>2. CASE n = 0
      BY <2>1, <2>2 DEF StatusAfter
    <2>3. CASE n # 0
      BY <1>3, <1>5, <2>1, <2>3 DEF StatusAfter
    <2> QED BY <2>2, <2>3
  <1>10. /\ e.from = status /\ status # "M" /\ <<status, e.to>> \in LegalTransitions[e.type]
         /\ e.type = "verdict" => e.verdict \in Verdicts /\ e.link \in Analyses
         /\ e.type = "promotion" => Earned(Files, m)'
         /\ e.type \in EventTypes
    BY <1>5, <1>8, <1>9 DEF WholeEvent, Legal, EventRecords
  <1> HIDE DEF f, n
  <1>11. LifeCycle!Status = status /\ LifeCycle!Recorded = e
    <2>1. Trail'[Len(Trail')] = e
      BY <1>2, <1>5 DEF f
    <2>2. LifeCycle!Status = IF f = <<>> THEN "NONE" ELSE f[n].to
      BY <1>2 DEF LifeCycle!Status, n
    <2>3. f = <<>> <=> n = 0
      BY <1>3 DEF n
    <2> QED BY <2>1, <2>2, <2>3 DEF LifeCycle!Recorded, StatusAfter
  <1>12. LifeCycle!Record
    <2>1. Len(Trail') > Len(Trail)
      BY <1>2, <1>3 DEF f
    <2> QED BY <1>2, <1>11, <2>1 DEF LifeCycle!Record
  <1>13. CASE e.type = "acquisition"
    <2>1. status = "NONE" /\ e.to \in {"RAW", "S"}
      BY <1>10, <1>13 DEF LegalTransitions
    <2> QED BY <1>11, <1>12, <1>13, <2>1 DEF LifeCycle!Next, LifeCycle!Acquire
  <1>14. CASE e.type = "verdict"
    <2>1. status \in {"RAW", "REVIEWED", "S"} /\ e.to = status
      BY <1>10, <1>14 DEF LegalTransitions
    <2> QED BY <1>10, <1>11, <1>12, <1>14, <2>1
         DEF LifeCycle!Next, LifeCycle!Decide, LifeCycle!Open
  <1>15. CASE e.type = "review"
    <2>1. status = "RAW" /\ e.to = "REVIEWED"
      BY <1>10, <1>15 DEF LegalTransitions
    <2> QED BY <1>11, <1>12, <1>15, <2>1 DEF LifeCycle!Next, LifeCycle!Review
  <1>16. CASE e.type = "promotion"
    <2>1. status = "REVIEWED" /\ e.to = "M"
      BY <1>10, <1>16 DEF LegalTransitions
    <2>2. analysis \in Analyses /\ analysis \notin {"none", "torn"}
      BY <1>10, <1>16, ArchiveAssumption DEF Earned
    <2>3. PICK j \in 1 .. m - 1 :
            /\ Files'[j].type = "verdict" /\ Files'[j].verdict \in Decisive
            /\ Files'[j].link = analysis
            /\ \A i \in j + 1 .. m - 1 : Files'[i].type # "verdict"
      BY <1>10, <1>16 DEF Earned, Decided
    <2>4. /\ j \in 1 .. n /\ f[j].type = "verdict" /\ f[j].verdict \in Decisive
          /\ f[j].link = analysis
          /\ \A i \in j + 1 .. n : f[i].type # "verdict"
      <3>1. m - 1 = n /\ \A i \in j + 1 .. n : i \in 1 .. n
        BY <1>3, <1>4
      <3> QED BY <1>5, <2>3, <3>1
    <2>5. \E k \in 1 .. Len(Trail) : LifeCycle!Decides(Trail, k, Len(Trail), analysis)
      BY <1>2, <2>4 DEF LifeCycle!Decides, n
    <2> QED BY <1>11, <1>12, <1>16, <2>1, <2>2, <2>5 DEF LifeCycle!Next, LifeCycle!Promote
  <1> QED BY <1>10, <1>13, <1>14, <1>15, <1>16 DEF EventTypes

LEMMA AppendIsRecorded ==
  ASSUME ArchiveInv, ArchiveInv', NEW p \in Procs, AppendEvent(p)
  PROVE  LifeCycle!Next
PROOF
  <1>1. /\ pc[p] = "append" /\ Working(p)
        /\ events' = With(events, NameOf(local[p]), EventOf(local[p], hashes + 1))
        /\ hashes' = hashes + 1
        /\ nature' = nature /\ runDir' = runDir /\ analysis' = analysis
    BY DEF AppendEvent, Working, given, publication
  <1>2. PICK e : e = EventOf(local[p], hashes + 1)
    OBVIOUS
  <1>3. PICK m : m = Len(Files) + 1
    OBVIOUS
  <1>4. ~e.torn
    BY <1>2 DEF EventOf, Event
  <1>5. e \in EventRecords /\ Files' = Append(Files, e) /\ ~HasTornEvent'
    BY <1>1, <1>2, <1>3, <1>4, PendingEvent
  <1>6. ~HasTornEvent
    BY <1>1, AtWork
  <1> QED BY <1>1, <1>5, <1>6, EvidenceRecorded

LEMMA AnalysisIsAnalysed ==
  ASSUME ArchiveInv, NEW p \in Procs, WriteAnalysis(p)
  PROVE  LifeCycle!Next
PROOF
  <1> DEFINE f == Files
             n == Len(f)
  <1>1. /\ pc[p] = "analysis" /\ Working(p) /\ analysis' = local[p].link
        /\ events' = events
    BY DEF WriteAnalysis, Working
  <1>2. /\ HistoryInv /\ OperationInv(p) /\ ~HasTornEvent
        /\ n >= 1 /\ n \in Nat /\ f \in Seq(EventRecords)
        /\ Replayed.status = f[n].to /\ Replayed.status \in Statuses
    BY <1>1, AtWork
  <1>3. local[p].link \in Analyses /\ analysis = "none" /\ Replayed.status # "M"
    BY <1>1, <1>2 DEF OperationInv
  <1>4. analysis' \in Analyses /\ analysis' \notin {"none", "torn"}
    BY <1>1, <1>3, ArchiveAssumption
  <1>5. Trail' = Trail /\ Trail = f
    BY <1>1, <1>2, TrailIsFiles DEF Trail
  <1> HIDE DEF f, n
  <1>6. LifeCycle!Status = f[n].to
    BY <1>2, <1>5 DEF LifeCycle!Status, n
  <1>7. LifeCycle!Open
    BY <1>2, <1>3, <1>6 DEF LifeCycle!Open, Statuses
  <1> QED BY <1>3, <1>4, <1>5, <1>7 DEF LifeCycle!Next, LifeCycle!Analyse

\* A crash is no step of the life cycle, whatever it tears.
LEMMA CrashIsNoStep ==
  ASSUME ArchiveInv, NEW p \in Procs, Crash(p)
  PROVE  UNCHANGED LifeCycle!vars
PROOF
  <1>1. CASE UNCHANGED archive
    BY <1>1 DEF archive, LifeCycle!vars, Trail
  <1>2. CASE TearFile(p)
    <2>1. pc[p] \in {"append", "analysis", "state", "index"}
      BY <1>2 DEF TearFile
    <2>2. CASE pc[p] = "append"
      <3> DEFINE w == EventOf(local[p], hashes + 1)
      <3>1. /\ events' = With(events, NameOf(local[p]), [w EXCEPT !.torn = TRUE])
            /\ hashes' = hashes + 1 /\ analysis' = analysis
            /\ nature' = nature /\ runDir' = runDir
        BY <1>2, <2>2 DEF TearFile, Crash
      <3>2. PICK e : e = [w EXCEPT !.torn = TRUE]
        OBVIOUS
      <3>3. PICK m : m = Len(Files) + 1
        OBVIOUS
      <3>4. e \in EventRecords
        BY <2>2, <3>1, <3>2, <3>3, PendingEvent
      <3>5. e.torn /\ e.type = local[p].op
        BY <3>2 DEF EventOf, Event
      <3>6. /\ HistoryInv /\ ~HasTornEvent /\ local[p].id = Len(Files) + 1
        BY <2>2, AtWork DEF Working, OperationInv
      <3>7. events' = With(events, Name(Len(Files) + 1, e.type), e)
        BY <3>1, <3>2, <3>5, <3>6 DEF NameOf
      <3>8. Trail' = Trail
        BY <3>4, <3>5, <3>6, <3>7, TornIsNoEvidence
      <3> QED BY <3>1, <3>8 DEF LifeCycle!vars
    <2>3. CASE pc[p] = "analysis"
      <3>1. events' = events /\ analysis' = "torn"
        BY <1>2, <2>3 DEF TearFile
      <3>2. analysis = "none"
        BY <2>3, AtWork DEF Working, OperationInv
      <3> QED BY <3>1, <3>2 DEF LifeCycle!vars, Trail
    <2>4. CASE pc[p] \in {"state", "index"}
      <3>1. events' = events /\ analysis' = analysis
        BY <1>2, <2>4 DEF TearFile
      <3> QED BY <3>1 DEF LifeCycle!vars, Trail
    <2> QED BY <2>1, <2>2, <2>3, <2>4
  <1> QED BY <1>1, <1>2 DEF Crash

\* measurement/orchestration/campaign.py implements the life cycle of architecture.md:
\* whatever was interrupted and rebuilt, its archive is a trail of evidence.
THEOREM ArchiveIsATrail ==
  ASSUME OneProcess, RebuildFirst PROVE Spec => ImplementsLifeCycle
PROOF
  <1>1. ASSUME Init PROVE LifeCycle!Init
    <2>1. events = <<>> /\ analysis = "none"
      BY <1>1 DEF Init
    <2>2. Trail = <<>>
      BY <2>1, NoEvents, TrailIsFiles
    <2> QED BY <2>1, <2>2 DEF LifeCycle!Init
  <1>2. ASSUME ArchiveInv, ArchiveInv', [Next]_vars
        PROVE  [LifeCycle!Next]_LifeCycle!vars
    <2>1. events' = events /\ analysis' = analysis => UNCHANGED LifeCycle!vars
      BY DEF LifeCycle!vars, Trail
    <2>2. ASSUME NEW p \in Procs, Campaign(p) PROVE [LifeCycle!Next]_LifeCycle!vars
      <3>1. CASE PublishRun(p)
        BY <1>2, <3>1, PublishRunKeeps, EvidenceRecorded
      <3>2. CASE UNCHANGED archive
        BY <2>1, <3>2 DEF archive
      <3> QED BY <2>2, <3>1, <3>2 DEF Campaign
    <2>3. ASSUME NEW p \in Procs, Operate(p) PROVE [LifeCycle!Next]_LifeCycle!vars
      <3>1. UNCHANGED archive
        BY <2>3 DEF Operate, RecordVerdict, RecordAnalysis, MarkReviewed,
           PromoteToMeasured, RebuildDerived, StartEvent, Starts
      <3> QED BY <2>1, <3>1 DEF archive
    <2>4. ASSUME NEW p \in Procs, Write(p) PROVE [LifeCycle!Next]_LifeCycle!vars
      <3>1. CASE AppendEvent(p)
        BY <1>2, <3>1, AppendIsRecorded
      <3>2. CASE WriteAnalysis(p)
        BY <1>2, <3>2, AnalysisIsAnalysed
      <3>3. CASE List(p) \/ WriteState(p) \/ WriteIndex(p)
        <4>1. events' = events /\ analysis' = analysis
          BY <3>3 DEF List, WriteState, WriteIndex, archive
        <4> QED BY <2>1, <4>1
      <3> QED BY <2>4, <3>1, <3>2, <3>3 DEF Write
    <2>5. ASSUME NEW p \in Procs, Crash(p) PROVE [LifeCycle!Next]_LifeCycle!vars
      BY <1>2, <2>5, CrashIsNoStep
    <2>6. CASE DeleteDerived
      BY <2>1, <2>6 DEF DeleteDerived
    <2>7. CASE UNCHANGED vars
      BY <2>1, <2>7 DEF vars, archive
    <2> QED BY <1>2, <2>2, <2>3, <2>4, <2>5, <2>6, <2>7 DEF Next
  <1>3. Spec => []ArchiveInv
    BY ArchiveInvariant
  <1> QED BY <1>1, <1>2, <1>3, PTL DEF Spec, ImplementsLifeCycle, LifeCycle!Spec

=============================================================================
