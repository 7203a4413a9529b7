--------------------------- MODULE DirScanProofs ---------------------------
(***************************************************************************)
(* ScanInv is an inductive invariant of DirScan, for any number of workers *)
(* and files and whatever the files hold.                                  *)
(***************************************************************************)
EXTENDS DirScanInv, FiniteSetTheorems, TLAPS

----------------------------------------------------------------------------
(* What Redact reports of a file.                                          *)

LEMMA FoundInSeq ==
    ASSUME NEW i \in Files, NEW n \in Nat
    PROVE  FoundIn(i, n) \in Seq([file : Files, n : Nat]) /\ Len(FoundIn(i, n)) = n
<1>1. \A k \in 1 .. n : Finding(i, k) \in [file : Files, n : Nat] BY DEF Finding
<1> QED BY <1>1 DEF FoundIn

LEMMA AppendFinding ==
    ASSUME NEW i \in Files, NEW n \in Nat
    PROVE  Append(FoundIn(i, n), Finding(i, n + 1)) = FoundIn(i, n + 1)
<1> DEFINE s == FoundIn(i, n)
<1>1. s \in Seq([file : Files, n : Nat]) /\ Len(s) = n BY FoundInSeq
<1>2. Finding(i, n + 1) \in [file : Files, n : Nat] BY DEF Finding
<1>3. Append(s, Finding(i, n + 1)) =
        [k \in 1 .. n + 1 |-> IF k = n + 1 THEN Finding(i, n + 1) ELSE s[k]]
  <2> HIDE DEF s
  <2> QED BY <1>1, <1>2
<1>4. \A k \in 1 .. n + 1 : k # n + 1 => s[k] = Finding(i, k) BY DEF FoundIn
<1> HIDE DEF s
<1>5. Append(s, Finding(i, n + 1)) = [k \in 1 .. n + 1 |-> Finding(i, k)] BY <1>3, <1>4
<1> QED BY <1>5 DEF s, FoundIn

(* The content of the files, and of a result under construction.           *)
LEMMA FileTyped ==
    ASSUME TypeOK, NEW i \in Files
    PROVE  tree.files[i] \in Content
BY DirScanAssumption DEF TypeOK

LEMMA NoResultTyped ==
    /\ NoResult \in Results /\ Marked(NoResult) /\ NoResult.err = "nil"
    /\ NoResult.skipped = FALSE /\ NoResult.unreadable = FALSE
<1>1. <<>> \in Seq([file : Files, n : Nat]) OBVIOUS
<1> QED BY <1>1 DEF NoResult, Results, Errors, Marked

LEMMA FreshTyped ==
    ASSUME NEW i \in Files
    PROVE  /\ Fresh(i) \in Results /\ Marked(Fresh(i))
           /\ Fresh(i).index = i /\ Fresh(i).err = "nil"
           /\ Fresh(i).skipped = FALSE /\ Fresh(i).unreadable = FALSE
BY NoResultTyped DEF Fresh, Results, Marked

----------------------------------------------------------------------------
(* Initially.                                                              *)
LEMMA InitScanInv == Init => ScanInv
<1> SUFFICES ASSUME Init PROVE ScanInv OBVIOUS
<1> USE DirScanAssumption, NoResultTyped DEF Init
<1>1. TypeOK
  <2>1. <<>> \in Seq(Results) /\ <<>> \in Seq([file : Files, n : Nat]) OBVIOUS
  <2>2. DOMAIN results = {} /\ nextJob \in 1 .. FileCount + 1 OBVIOUS
  <2> QED BY <2>1, <2>2 DEF TypeOK, Errors
<1>2. Reasons BY DEF Reasons, Marked, NoResult, Real
<1>3. Tracked BY DEF Tracked
<1>4. WorkFaithful
  <2>1. \A w \in Workers : Progress(w) BY DEF Progress, Working
  <2> QED BY <2>1 DEF WorkFaithful
<1>5. RootCause /\ ReportIsReference BY DEF RootCause, ReportIsReference, Running
<1> QED BY <1>1, <1>2, <1>3, <1>4, <1>5 DEF ScanInv

(* Where the call has not returned, there is nothing to say of its answer. *)
LEMMA StillRunning == returned = Running => RootCause /\ ReportIsReference
BY DEF RootCause, ReportIsReference, Running

(* A result keeps being true of its file.                                  *)
LEMMA FaithfulStays ==
    ASSUME tree' = tree, NEW i, NEW r, Faithful(i, r)
    PROVE  Faithful(i, r)'
BY DEF Faithful

----------------------------------------------------------------------------
(* A step of one worker on its own file.                                   *)
Own(w) ==
    /\ UNCHANGED <<job, OthersOfWorker>>
    /\ \E to : wpc' = [wpc EXCEPT ![w] = to]
    /\ \E found : findings' = [findings EXCEPT ![w] = found]
    /\ \E result : published' = [published EXCEPT ![w] = result]

LEMMA OwnStep ==
    ASSUME ScanInv, NEW w \in Workers, Own(w),
           wpc[w] \in {"new", "take"} \cup Working, published[w].err = "nil",
           wpc'[w] \in {"take", "send", "done"} \cup Working,
           wpc[w] \in Working => wpc'[w] \in Working \cup {"send"},
           wpc'[w] = "done" => jobsClosed,
           findings'[w] \in Seq([file : Files, n : Nat]),
           published'[w] \in Results, Marked(published'[w]),
           published'[w].err = "canceled" => canceled,
           published'[w].err # "nil" => wpc'[w] = "send",
           Progress(w)'
    PROVE  ScanInv'
<1> USE DEF ScanInv, OthersOfWorker, feedVars, callerVars, Own
<1>0. returned = Running BY DEF Tracked, Working
<1>1. TypeOK'
  <2>1. wpc' \in [Workers -> {"new", "take", "send", "cancel", "done"} \cup Working]
    BY DEF TypeOK
  <2>2. findings' \in [Workers -> Seq([file : Files, n : Nat])] BY DEF TypeOK
  <2>3. published' \in [Workers -> Results] BY DEF TypeOK
  <2> QED BY <2>1, <2>2, <2>3 DEF TypeOK
<1>2. \A v \in Workers : v # w =>
        /\ wpc'[v] = wpc[v] /\ findings'[v] = findings[v] /\ published'[v] = published[v]
  BY DEF TypeOK
<1>3. Cause' <=> Cause BY DEF Cause, RealSent
<1>4. RealSent' <=> RealSent BY DEF RealSent
<1>5. Reasons'
  <2>1. canceled => Cause BY <1>0 DEF Reasons
  <2>2. wpc'[w] \notin {"cancel", "done"} \/ published'[w].err = "nil" BY DEF Working
  <2>3. wpc'[w] # "cancel" BY DEF Working
  <2>4. ASSUME NEW v \in Workers
        PROVE /\ Marked(published'[v])
              /\ published'[v].err = "canceled" => Cause
              /\ published'[v].err # "nil" => wpc'[v] \in {"send", "cancel", "done"}
              /\ wpc'[v] = "cancel" => published'[v].err # "nil"
              /\ Real(published'[v].err) /\ wpc'[v] \in {"cancel", "done"} => RealSent
    BY <1>2, <2>1, <2>2, <2>3 DEF Reasons, Real
  <2> QED BY <1>3, <1>4, <2>4 DEF Reasons, Marked
<1>6. Tracked'
  <2>1. ASSUME NEW i, Held(i) PROVE Held(i)'
    BY <2>1, <1>2 DEF Held, Working
  <2>2. \A i \in 1 .. nextJob - 1 : Collected(i)' \/ Waiting(i)' \/ Held(i)' \/ Cause'
    BY <2>1, <1>3 DEF Tracked, Collected, Waiting
  <2>3. \A v \in Workers : wpc'[v] = "done" => jobsClosed \/ published'[v].err # "nil"
    BY <1>2 DEF Tracked
  <2>4. ~completedClosed BY DEF Tracked, Working
  <2> QED BY <1>0, <2>2, <2>3, <2>4 DEF Tracked
<1>7. WorkFaithful'
  <2>1. ASSUME NEW v \in Workers, v # w PROVE Progress(v)'
    <3>1. Progress(v) BY DEF WorkFaithful
    <3> QED BY <1>2, <2>1, <3>1 DEF Progress, Faithful
  <2> QED BY <2>1 DEF WorkFaithful, Faithful
<1> QED BY <1>0, <1>1, <1>5, <1>6, <1>7, StillRunning DEF RootCause, ReportIsReference, Running

(* What is known of a worker that has a file in hand.                      *)
LEMMA AtWork ==
    ASSUME ScanInv, NEW w \in Workers, wpc[w] \in Working
    PROVE  /\ job[w] \in Files
           /\ published[w] = Fresh(job[w])
           /\ published[w] \in Results /\ Marked(published[w])
           /\ published[w].index = job[w] /\ published[w].err = "nil"
           /\ ~published[w].skipped /\ ~published[w].unreadable
           /\ FileOf(w) = tree.files[job[w]] /\ FileOf(w) \in Content
<1>1. job[w] \in Files /\ published[w] = Fresh(job[w])
  BY DEF ScanInv, WorkFaithful, Progress
<1>2. tree.files[job[w]] \in Content BY <1>1, FileTyped DEF ScanInv
<1> QED BY <1>1, <1>2, FreshTyped DEF FileOf

(* What a result becomes when a worker marks it.                           *)
LEMMA FailedTyped ==
    ASSUME NEW r \in Results, NEW err \in Errors
    PROVE  /\ Failed(r, err) \in Results /\ Marked(Failed(r, err)) /\ Failed(r, err).err = err
           /\ Failed(r, err).index = r.index /\ Failed(r, err).skipped = r.skipped
           /\ Failed(r, err).unreadable = r.unreadable
BY DEF Failed, Results, Marked

Skipped(r) == [r EXCEPT !.skipped = TRUE]
Unreadable(r) == [r EXCEPT !.skipped = TRUE, !.unreadable = TRUE]

LEMMA SkippedTyped ==
    ASSUME NEW r \in Results, Marked(r)
    PROVE  /\ Skipped(r) \in Results /\ Marked(Skipped(r)) /\ Skipped(r).index = r.index
           /\ Skipped(r).err = r.err /\ Skipped(r).skipped
           /\ Skipped(r).unreadable = r.unreadable
           /\ Unreadable(r) \in Results /\ Marked(Unreadable(r)) /\ Unreadable(r).index = r.index
           /\ Unreadable(r).err = r.err /\ Unreadable(r).skipped /\ Unreadable(r).unreadable
BY DEF Results, Marked, Skipped, Unreadable

LEMMA ConfigureInv == ASSUME ScanInv, NEW w \in Workers, Configure(w) PROVE ScanInv'
<1> USE DEF Configure, Step, Publish
<1>1. wpc[w] = "new" /\ published[w].err = "nil" BY DEF ScanInv, Reasons
<1>2. wpc'[w] \in {"take", "send"} BY DEF ScanInv, TypeOK
<1>3. published'[w] = IF tree.config THEN NoResult ELSE Failed(NoResult, "config")
  BY DEF ScanInv, TypeOK
<1>5. /\ published'[w] \in Results /\ Marked(published'[w])
      /\ tree.config => published'[w].err = "nil" /\ wpc'[w] = "take"
      /\ ~tree.config => published'[w].err = "config" /\ wpc'[w] = "send"
  BY <1>3, NoResultTyped, FailedTyped DEF Errors, ScanInv, TypeOK
<1>6. findings'[w] \in Seq([file : Files, n : Nat]) BY DEF ScanInv, TypeOK
<1>7. Progress(w)' BY <1>5 DEF Progress, Working
<1>8. Own(w)
  <2>1. findings' = [findings EXCEPT ![w] = findings[w]] BY DEF ScanInv, TypeOK
  <2> QED BY <2>1 DEF Own
<1> QED BY <1>1, <1>2, <1>5, <1>6, <1>7, <1>8, OwnStep DEF Working

LEMMA NoMoreJobsInv == ASSUME ScanInv, NEW w \in Workers, NoMoreJobs(w) PROVE ScanInv'
<1> USE DEF NoMoreJobs, Step
<1>1. wpc[w] = "take" /\ published[w].err = "nil" /\ wpc'[w] = "done" /\ jobsClosed
  BY DEF ScanInv, Reasons, TypeOK
<1>2. published'[w] \in Results /\ Marked(published'[w]) /\ published'[w].err = "nil"
  BY <1>1 DEF ScanInv, TypeOK, Reasons
<1>3. findings'[w] \in Seq([file : Files, n : Nat]) BY DEF ScanInv, TypeOK
<1>4. Progress(w)' BY <1>1 DEF Progress, Working
<1>5. Own(w)
  <2>1. findings' = [findings EXCEPT ![w] = findings[w]]
          /\ published' = [published EXCEPT ![w] = published[w]] BY DEF ScanInv, TypeOK
  <2> QED BY <2>1 DEF Own
<1> QED BY <1>1, <1>2, <1>3, <1>4, <1>5, OwnStep DEF Working

(* The steps that end a file: the result says how, and is sent next.       *)
LEMMA EndsFile ==
    ASSUME ScanInv, NEW w \in Workers, wpc[w] \in Working, Step(w, wpc[w], "send"),
           NEW r \in Results, Publish(w, r), r.index = job[w], Marked(r),
           NEW found \in Seq([file : Files, n : Nat]),
           findings' = [findings EXCEPT ![w] = found], UNCHANGED <<job, OthersOfWorker>>,
           r.err = "canceled" => canceled,
           r.err = "nil" =>
               /\ r.skipped <=> FileOf(w).state \in {"unreadable", "binary"}
               /\ r.unreadable <=> FileOf(w).state = "unreadable"
               /\ FileOf(w).state # "broken"
               /\ ~r.skipped => found = FoundIn(job[w], FileOf(w).findings)
    PROVE  ScanInv'
<1>1. /\ job[w] \in Files /\ FileOf(w) = tree.files[job[w]]
      /\ published[w].err = "nil"
  BY AtWork
<1>2. published'[w] = r BY DEF Publish, ScanInv, TypeOK
<1>3. wpc'[w] = "send" /\ findings'[w] = found BY DEF Step, ScanInv, TypeOK
<1>4. job'[w] = job[w] /\ tree' = tree BY DEF OthersOfWorker
<1>5. Progress(w)'
  <2> DEFINE s == [r EXCEPT !.findings = found]
  <2>1. s.skipped = r.skipped /\ s.unreadable = r.unreadable /\ s.findings = found
    BY DEF Results
  <2>2. s = [published[w] EXCEPT !.findings = findings[w]]' BY <1>2, <1>3
  <2> HIDE DEF s
  <2>3. r.err = "nil" => Faithful(job[w], s)' BY <1>1, <1>4, <2>1 DEF Faithful
  <2>4. r.err = "nil" => Faithful(job[w], [published[w] EXCEPT !.findings = findings[w]])'
    BY <1>4, <2>2, <2>3 DEF Faithful
  <2> QED BY <2>4, <1>1, <1>2, <1>3, <1>4 DEF Progress, Working
<1>6. Own(w) BY DEF Own, Step, Publish
<1> QED BY <1>1, <1>2, <1>3, <1>5, <1>6, OwnStep DEF Working

LEMMA OpenUnreadableInv == ASSUME ScanInv, NEW w \in Workers, OpenUnreadable(w) PROVE ScanInv'
<1> USE DEF OpenUnreadable, Step
<1>1. wpc[w] \in Working BY DEF Working
<1>2. findings' = [findings EXCEPT ![w] = findings[w]]
        /\ findings[w] \in Seq([file : Files, n : Nat]) BY DEF ScanInv, TypeOK
<1> DEFINE r == Unreadable(published[w])
<1>3. r \in Results /\ r.index = job[w] /\ Marked(r) /\ r.err = "nil" /\ r.skipped /\ r.unreadable
  BY <1>1, AtWork, SkippedTyped
<1>4. Publish(w, r) BY DEF Unreadable
<1> HIDE DEF r
<1> QED BY <1>1, <1>2, <1>3, <1>4, EndsFile

LEMMA OpenBinaryInv == ASSUME ScanInv, NEW w \in Workers, OpenBinary(w) PROVE ScanInv'
<1> USE DEF OpenBinary, Step
<1>1. wpc[w] \in Working BY DEF Working
<1>2. <<>> \in Seq([file : Files, n : Nat]) OBVIOUS
<1> DEFINE s == Skipped(published[w])
           r == IF FileOf(w).closes THEN s ELSE Failed(s, "close")
<1>3. /\ s \in Results /\ s.index = job[w] /\ Marked(s) /\ s.err = "nil"
      /\ s.skipped /\ ~s.unreadable
  BY <1>1, AtWork, SkippedTyped
<1>4. Publish(w, r) BY DEF Skipped
<1> HIDE DEF s
<1>5. /\ r \in Results /\ r.index = job[w] /\ Marked(r) /\ r.err \in {"nil", "close"}
      /\ r.skipped /\ ~r.unreadable
  BY <1>3, FailedTyped DEF Errors
<1> HIDE DEF r
<1> QED BY <1>1, <1>2, <1>4, <1>5, EndsFile

LEMMA RedactCanceledInv == ASSUME ScanInv, NEW w \in Workers, RedactCanceled(w) PROVE ScanInv'
<1> USE DEF RedactCanceled, Step
<1>1. wpc[w] \in Working BY DEF Working
<1>2. findings' = [findings EXCEPT ![w] = findings[w]]
        /\ findings[w] \in Seq([file : Files, n : Nat]) BY DEF ScanInv, TypeOK
<1> DEFINE r == Failed(published[w], "canceled")
<1>3. r \in Results /\ r.index = job[w] /\ Marked(r) /\ r.err = "canceled"
  BY <1>1, AtWork, FailedTyped DEF Errors
<1>4. Publish(w, r) OBVIOUS
<1> HIDE DEF r
<1> QED BY <1>1, <1>2, <1>3, <1>4, EndsFile

LEMMA RedactFailsInv == ASSUME ScanInv, NEW w \in Workers, RedactFails(w) PROVE ScanInv'
<1> USE DEF RedactFails, Step
<1>1. wpc[w] \in Working BY DEF Working
<1>2. findings' = [findings EXCEPT ![w] = findings[w]]
        /\ findings[w] \in Seq([file : Files, n : Nat]) BY DEF ScanInv, TypeOK
<1> DEFINE r == Failed(published[w], "scan")
<1>3. r \in Results /\ r.index = job[w] /\ Marked(r) /\ r.err = "scan"
  BY <1>1, AtWork, FailedTyped DEF Errors
<1>4. Publish(w, r) OBVIOUS
<1> HIDE DEF r
<1> QED BY <1>1, <1>2, <1>3, <1>4, EndsFile

LEMMA LoadAndCloseInv == ASSUME ScanInv, NEW w \in Workers, LoadAndClose(w) PROVE ScanInv'
<1> USE DEF LoadAndClose, Step
<1>1. wpc[w] \in Working BY DEF Working
<1>2. findings' = [findings EXCEPT ![w] = findings[w]]
        /\ findings[w] \in Seq([file : Files, n : Nat]) BY DEF ScanInv, TypeOK
<1> DEFINE err == IF ShowSecrets /\ FileOf(w).state = "changed" /\ findings[w] # <<>>
                  THEN "secret"
                  ELSE IF FileOf(w).closes THEN "nil" ELSE "close"
           r == Failed(published[w], err)
<1>3. Publish(w, r) OBVIOUS
<1>4. err \in Errors /\ err # "canceled" BY DEF Errors
<1> HIDE DEF err
<1>5. /\ r \in Results /\ r.index = job[w] /\ Marked(r) /\ r.err = err
      /\ ~r.skipped /\ ~r.unreadable
  BY <1>1, <1>4, AtWork, FailedTyped
<1>6. /\ FileOf(w).state \notin {"unreadable", "binary", "broken"}
      /\ findings[w] = FoundIn(job[w], FileOf(w).findings)
  BY DEF ScanInv, WorkFaithful, Progress, FileOf
<1> HIDE DEF r
<1> QED BY <1>1, <1>2, <1>3, <1>4, <1>5, <1>6, EndsFile

(* The steps that go on with a file.                                       *)
LEMMA GoesOn ==
    ASSUME ScanInv, NEW w \in Workers, wpc[w] \in Working,
           \E to : wpc' = [wpc EXCEPT ![w] = to], wpc'[w] \in Working,
           NEW found \in Seq([file : Files, n : Nat]),
           findings' = [findings EXCEPT ![w] = found],
           UNCHANGED <<job, published, OthersOfWorker>>,
           Progress(w)'
    PROVE  ScanInv'
<1>1. published[w].err = "nil" BY AtWork
<1>2. published'[w] \in Results /\ Marked(published'[w]) /\ published'[w].err = "nil"
  BY <1>1 DEF ScanInv, TypeOK, Reasons
<1>3. Own(w)
  <2>1. published' = [published EXCEPT ![w] = published[w]] BY DEF ScanInv, TypeOK
  <2> QED BY <2>1 DEF Own
<1>4. findings'[w] = found BY DEF ScanInv, TypeOK
<1> QED BY <1>1, <1>2, <1>3, <1>4, OwnStep DEF Working

LEMMA OpenTextInv == ASSUME ScanInv, NEW w \in Workers, OpenText(w) PROVE ScanInv'
<1> USE DEF OpenText, Step
<1>1. wpc[w] = "open" /\ wpc'[w] = "redact" /\ findings[w] = <<>>
        /\ findings' = [findings EXCEPT ![w] = findings[w]]
        /\ findings[w] \in Seq([file : Files, n : Nat])
  BY DEF ScanInv, TypeOK, WorkFaithful, Progress
<1>2. wpc[w] \in Working /\ wpc'[w] \in Working BY <1>1 DEF Working
<1>3. FileOf(w).findings \in Nat BY <1>2, AtWork DEF Content
<1>4. findings[w] = FoundIn(job[w], 0) /\ 0 \in 0 .. FileOf(w).findings BY <1>1, <1>3 DEF FoundIn
<1>5. job' = job /\ tree' = tree /\ published' = published /\ findings' = findings
  BY DEF OthersOfWorker
<1>6. job[w] \in Files /\ published[w] = Fresh(job[w])
  BY <1>2, AtWork
<1>7. Progress(w)' BY <1>1, <1>4, <1>5, <1>6 DEF Progress, FileOf
<1> QED BY <1>1, <1>2, <1>7, GoesOn

LEMMA OnFindingInv == ASSUME ScanInv, NEW w \in Workers, OnFinding(w) PROVE ScanInv'
<1> USE DEF OnFinding
<1>1. wpc[w] = "redact" /\ wpc[w] \in Working /\ wpc' = [wpc EXCEPT ![w] = wpc[w]]
  BY DEF Working, ScanInv, TypeOK
<1>2. job[w] \in Files /\ published[w] = Fresh(job[w])
        /\ FileOf(w).findings \in Nat /\ FileOf(w) = tree.files[job[w]]
  BY <1>1, AtWork DEF Content
<1>3. PICK n \in 0 .. FileOf(w).findings : findings[w] = FoundIn(job[w], n)
  BY <1>1, <1>2 DEF ScanInv, WorkFaithful, Progress
<1>4. n \in Nat /\ n + 1 \in Nat /\ n < FileOf(w).findings /\ n + 1 \in 0 .. FileOf(w).findings
  <2>1. PICK k \in Nat : k = FileOf(w).findings BY <1>2
  <2>2. n \in Nat /\ n <= k BY <1>3, <2>1
  <2>3. Len(findings[w]) = n BY <1>2, <1>3, <2>2, FoundInSeq
  <2>4. n < k BY <2>1, <2>3
  <2> HIDE DEF OnFinding
  <2> QED BY <2>1, <2>2, <2>4
<1> DEFINE found == FoundIn(job[w], n + 1)
<1>5. findings' = [findings EXCEPT ![w] = found]
  BY <1>2, <1>3, <1>4, FoundInSeq, AppendFinding
<1>6. found \in Seq([file : Files, n : Nat]) BY <1>2, <1>4, FoundInSeq
<1>7. findings'[w] = found BY <1>5 DEF ScanInv, TypeOK
<1>8. job' = job /\ tree' = tree /\ published' = published /\ wpc' = wpc BY DEF OthersOfWorker
<1>9. tree.files[job[w]].state \notin {"unreadable", "binary"}
  BY <1>1 DEF ScanInv, WorkFaithful, Progress
<1>10. Progress(w)' BY <1>1, <1>2, <1>4, <1>7, <1>8, <1>9 DEF Progress
<1> HIDE DEF found
<1> QED BY <1>1, <1>5, <1>6, <1>8, <1>10, GoesOn

LEMMA RedactSucceedsInv == ASSUME ScanInv, NEW w \in Workers, RedactSucceeds(w) PROVE ScanInv'
<1> USE DEF RedactSucceeds, Step
<1>1. wpc[w] = "redact" /\ wpc[w] \in Working /\ wpc'[w] = "load"
        /\ findings' = [findings EXCEPT ![w] = findings[w]]
        /\ findings[w] \in Seq([file : Files, n : Nat])
  BY DEF Working, ScanInv, TypeOK
<1>2. job[w] \in Files /\ published[w] = Fresh(job[w])
        /\ FileOf(w).findings \in Nat /\ FileOf(w) = tree.files[job[w]]
  BY <1>1, AtWork DEF Content
<1>3. PICK n \in 0 .. FileOf(w).findings : findings[w] = FoundIn(job[w], n)
  BY <1>1, <1>2 DEF ScanInv, WorkFaithful, Progress
<1>4. n = FileOf(w).findings BY <1>2, <1>3, FoundInSeq
<1>5. job' = job /\ tree' = tree /\ published' = published /\ findings' = findings
  BY DEF OthersOfWorker
<1>6. tree.files[job[w]].state \notin {"unreadable", "binary"}
  BY <1>1 DEF ScanInv, WorkFaithful, Progress
<1>7. Progress(w)' BY <1>1, <1>2, <1>3, <1>4, <1>5, <1>6 DEF Progress
<1>8. wpc'[w] \in Working BY <1>1 DEF Working
<1> QED BY <1>1, <1>7, <1>8, GoesOn

LEMMA HandOverInv == ASSUME ScanInv, NEW w \in Workers, HandOver(w) PROVE ScanInv'
<1> USE DirScanAssumption DEF ScanInv, HandOver, callerVars
<1>0. returned = Running /\ ~completedClosed BY DEF Tracked
<1>1. nextJob \in Files /\ published[w].err = "nil"
  <2>1. nextJob \in Files BY DEF TypeOK, Files
  <2>2. published[w].err = "nil" BY DEF Reasons
  <2> QED BY <2>1, <2>2
<1>2. /\ wpc'[w] = "open" /\ job'[w] = nextJob /\ findings'[w] = <<>>
      /\ published'[w] = Fresh(nextJob)
  BY DEF TypeOK, Fresh
<1>3. \A v \in Workers : v # w =>
        /\ wpc'[v] = wpc[v] /\ findings'[v] = findings[v] /\ published'[v] = published[v]
        /\ job'[v] = job[v]
  BY DEF TypeOK
<1>4. /\ published'[w] \in Results /\ Marked(published'[w]) /\ published'[w].err = "nil"
  BY <1>1, <1>2, FreshTyped
<1>5. (Cause' <=> Cause) /\ (RealSent' <=> RealSent) BY DEF Cause, RealSent
<1>6. TypeOK'
  <2>1. <<>> \in Seq([file : Files, n : Nat]) OBVIOUS
  <2>2. findings' \in [Workers -> Seq([file : Files, n : Nat])] BY <2>1 DEF TypeOK
  <2>3. published' \in [Workers -> Results] BY <1>1, FreshTyped DEF TypeOK, Fresh
  <2>4. nextJob' \in 1 .. FileCount + 1 BY DEF TypeOK
  <2>5. wpc' \in [Workers -> {"new", "take", "send", "cancel", "done"} \cup Working]
    BY DEF TypeOK, Working
  <2>6. job' \in [Workers -> Files \cup {0}] BY <1>1 DEF TypeOK
  <2> QED BY <2>2, <2>3, <2>4, <2>5, <2>6 DEF TypeOK
<1>7. Reasons'
  <2>1. ASSUME NEW v \in Workers
        PROVE /\ Marked(published'[v])
              /\ published'[v].err = "canceled" => Cause
              /\ published'[v].err # "nil" => wpc'[v] \in {"send", "cancel", "done"}
              /\ wpc'[v] = "cancel" => published'[v].err # "nil"
              /\ Real(published'[v].err) /\ wpc'[v] \in {"cancel", "done"} => RealSent
    BY <1>2, <1>3, <1>4 DEF Reasons, Real
  <2> QED BY <1>5, <2>1 DEF Reasons, Marked
<1>8. Tracked'
  <2>1. ASSUME NEW i, Held(i) PROVE Held(i)'
    BY <2>1, <1>3 DEF Held, Working
  <2>2. ASSUME NEW i, i = nextJob PROVE Held(i)' BY <2>2, <1>2 DEF Held, Working
  <2>3. \A i \in 1 .. nextJob' - 1 : i = nextJob \/ i \in 1 .. nextJob - 1
    BY DEF TypeOK
  <2>4. \A i \in 1 .. nextJob' - 1 : Collected(i)' \/ Waiting(i)' \/ Held(i)' \/ Cause'
    <3> SUFFICES ASSUME NEW i \in 1 .. nextJob' - 1
                 PROVE  Collected(i)' \/ Waiting(i)' \/ Held(i)' \/ Cause'
      OBVIOUS
    <3>1. CASE i = nextJob BY <2>2, <3>1
    <3>2. CASE i \in 1 .. nextJob - 1
      <4>1. Collected(i) \/ Waiting(i) \/ Held(i) \/ Cause BY <3>2 DEF Tracked
      <4> QED BY <4>1, <2>1, <1>5 DEF Collected, Waiting
    <3> QED BY <2>3, <3>1, <3>2
  <2>5. \A v \in Workers : wpc'[v] = "done" => jobsClosed \/ published'[v].err # "nil"
    BY <1>2, <1>3 DEF Tracked
  <2> QED BY <1>0, <2>4, <2>5 DEF Tracked
<1>9. WorkFaithful'
  <2>1. ASSUME NEW v \in Workers, v # w PROVE Progress(v)'
    <3>1. Progress(v) BY DEF WorkFaithful
    <3> QED BY <1>3, <2>1, <3>1 DEF Progress, Faithful
  <2>2. Progress(w)' BY <1>1, <1>2 DEF Progress
  <2> QED BY <2>1, <2>2 DEF WorkFaithful, Faithful
<1> QED BY <1>0, <1>6, <1>7, <1>8, <1>9, StillRunning DEF RootCause, ReportIsReference, Running

(* The result that is sent, with the findings of its file.                 *)
Sent(w) == [published[w] EXCEPT !.findings = findings[w]]

LEMMA SentTyped ==
    ASSUME ScanInv, NEW w \in Workers
    PROVE  /\ Sent(w) \in Results /\ Marked(Sent(w)) /\ Sent(w).err = published[w].err
           /\ Sent(w).index = published[w].index
<1>1. published[w] \in Results /\ Marked(published[w])
        /\ findings[w] \in Seq([file : Files, n : Nat])
  BY DEF ScanInv, TypeOK, Reasons
<1> QED BY <1>1 DEF Sent, Results, Marked

LEMMA SendInv == ASSUME ScanInv, NEW w \in Workers, Send(w) PROVE ScanInv'
<1> USE DEF ScanInv, feedVars, callerVars
<1> DEFINE r == Sent(w)
<1>0. /\ wpc[w] = "send" /\ completed' = Append(completed, r)
      /\ wpc' = [wpc EXCEPT ![w] = IF r.err = "nil" THEN "take" ELSE "cancel"]
      /\ UNCHANGED <<job, findings, published, tree, canceled, parentDone, feedVars,
                     completedClosed, callerVars>>
  BY DEF Send, Step, Sent
<1>1. /\ r \in Results /\ Marked(r) /\ r.err = published[w].err
      /\ r.index = published[w].index
  BY SentTyped
<1>2. r.err = "nil" => r.index \in Files /\ r.index = job[w] /\ Faithful(job[w], r)
  BY <1>0, <1>1 DEF WorkFaithful, Progress, Sent
<1> HIDE DEF r
<1>3. returned = Running /\ ~completedClosed BY <1>0 DEF Tracked
<1>4. /\ Len(completed') = Len(completed) + 1 /\ completed'[Len(completed) + 1] = r
      /\ completed' \in Seq(Results)
      /\ \A k \in DOMAIN completed : k \in DOMAIN completed' /\ completed'[k] = completed[k]
      /\ \A k \in DOMAIN completed' : k \in DOMAIN completed \/ k = Len(completed) + 1
      /\ Len(completed) + 1 \in DOMAIN completed'
  BY <1>0, <1>1 DEF TypeOK
<1>5. /\ wpc'[w] = IF r.err = "nil" THEN "take" ELSE "cancel"
      /\ \A v \in Workers : v # w => wpc'[v] = wpc[v]
  BY <1>0 DEF TypeOK
<1>6. (RealSent => RealSent') /\ (Cause => Cause') BY <1>0, <1>4 DEF RealSent, Cause
<1>7. Real(r.err) => RealSent' BY <1>0, <1>4 DEF RealSent
<1>8. r.err = "canceled" => Cause BY <1>1 DEF Reasons
<1>9. TypeOK'
  <2>1. wpc' \in [Workers -> {"new", "take", "send", "cancel", "done"} \cup Working]
    BY <1>0 DEF TypeOK
  <2> QED BY <1>0, <1>4, <2>1 DEF TypeOK
<1>10. Reasons'
  <2>1. ASSUME NEW v \in Workers
        PROVE /\ Marked(published[v])
              /\ published[v].err = "canceled" => Cause'
              /\ published[v].err # "nil" => wpc'[v] \in {"send", "cancel", "done"}
              /\ wpc'[v] = "cancel" => published[v].err # "nil"
              /\ Real(published[v].err) /\ wpc'[v] \in {"cancel", "done"} => RealSent'
    BY <1>0, <1>1, <1>5, <1>6, <1>7 DEF Reasons
  <2>2. \A k \in DOMAIN completed' :
           (completed'[k].err = "canceled" => Cause') /\ Marked(completed'[k])
    BY <1>1, <1>4, <1>6, <1>8 DEF Reasons
  <2>3. canceledErr # "nil" \/ canceled => Cause' BY <1>3, <1>6 DEF Reasons
  <2> QED BY <1>0, <2>1, <2>2, <2>3 DEF Reasons, Marked
<1>11. Tracked'
  <2>1. ASSUME NEW i, Held(i) PROVE Held(i)' \/ Waiting(i)' \/ Cause'
    <3>1. PICK v \in Workers : job[v] = i /\ wpc[v] \in Working \cup {"send"}
      BY <2>1 DEF Held
    <3>2. CASE v # w BY <1>0, <1>5, <3>1, <3>2 DEF Held, Working
    <3>3. CASE v = w /\ r.err = "nil" BY <1>1, <1>2, <1>4, <3>1, <3>3 DEF Waiting
    <3>4. CASE v = w /\ r.err # "nil" BY <1>6, <1>7, <1>8, <3>4 DEF Real, Cause
    <3> QED BY <3>2, <3>3, <3>4
  <2>2. ASSUME NEW i, Waiting(i) PROVE Waiting(i)' BY <2>2, <1>4 DEF Waiting
  <2>3. \A i \in 1 .. nextJob - 1 : Collected(i)' \/ Waiting(i)' \/ Held(i)' \/ Cause'
    BY <1>0, <2>1, <2>2, <1>6 DEF Tracked, Collected
  <2>4. \A v \in Workers : wpc'[v] = "done" => jobsClosed \/ published[v].err # "nil"
    BY <1>5 DEF Tracked
  <2> QED BY <1>0, <1>3, <2>3, <2>4 DEF Tracked
<1>12. WorkFaithful'
  <2>1. ASSUME NEW v \in Workers, v # w PROVE Progress(v)'
    <3>1. Progress(v) BY DEF WorkFaithful
    <3> QED BY <1>0, <1>5, <2>1, <3>1 DEF Progress, Faithful
  <2>2. Progress(w)' BY <1>5 DEF Progress, Working
  <2>3. \A k \in DOMAIN completed' : completed'[k].err = "nil" =>
           completed'[k].index \in Files /\ Faithful(completed'[k].index, completed'[k])
    BY <1>1, <1>2, <1>4 DEF WorkFaithful
  <2> QED BY <1>0, <2>1, <2>2, <2>3 DEF WorkFaithful, Faithful
<1> QED BY <1>0, <1>3, <1>9, <1>10, <1>11, <1>12, StillRunning
        DEF RootCause, ReportIsReference, Running

LEMMA CancelOthersInv == ASSUME ScanInv, NEW w \in Workers, CancelOthers(w) PROVE ScanInv'
<1> USE DEF ScanInv, CancelOthers, Step, feedVars, callerVars
<1>0. returned = Running /\ ~completedClosed BY DEF Tracked
<1>1. /\ wpc[w] = "cancel" /\ wpc'[w] = "done" /\ published[w].err # "nil"
      /\ \A v \in Workers : v # w => wpc'[v] = wpc[v]
  BY DEF TypeOK, Reasons
<1>2. Cause /\ (Real(published[w].err) => RealSent)
  BY <1>1 DEF Reasons, Real, Cause
<1>3. (Cause' <=> Cause) /\ (RealSent' <=> RealSent) BY DEF Cause, RealSent
<1>4. TypeOK'
  <2>1. wpc' \in [Workers -> {"new", "take", "send", "cancel", "done"} \cup Working]
    BY DEF TypeOK
  <2> QED BY <2>1 DEF TypeOK
<1>5. Reasons'
  <2>1. ASSUME NEW v \in Workers
        PROVE /\ Marked(published[v])
              /\ published[v].err # "nil" => wpc'[v] \in {"send", "cancel", "done"}
              /\ wpc'[v] = "cancel" => published[v].err # "nil"
              /\ Real(published[v].err) /\ wpc'[v] \in {"cancel", "done"} => RealSent
    BY <1>1, <1>2 DEF Reasons
  <2> QED BY <1>2, <1>3, <2>1 DEF Reasons, Marked
<1>6. Tracked'
  <2>1. \A v \in Workers : wpc'[v] = "done" => jobsClosed \/ published[v].err # "nil"
    BY <1>1 DEF Tracked
  <2> QED BY <1>0, <1>2, <1>3, <2>1 DEF Tracked
<1>7. WorkFaithful'
  <2>1. ASSUME NEW v \in Workers, v # w PROVE Progress(v)'
    <3>1. Progress(v) BY DEF WorkFaithful
    <3> QED BY <1>1, <2>1, <3>1 DEF Progress, Faithful
  <2>2. Progress(w)' BY <1>1 DEF Progress, Working
  <2> QED BY <2>1, <2>2 DEF WorkFaithful, Faithful
<1> QED BY <1>0, <1>4, <1>5, <1>6, <1>7, StillRunning DEF RootCause, ReportIsReference, Running

----------------------------------------------------------------------------
(* The steps of the feeder, of the context and of the closer.              *)

LEMMA ParentCancelsInv == ASSUME ScanInv, ParentCancels PROVE ScanInv'
<1> USE DEF ScanInv, ParentCancels, feedVars, workVars, callerVars
<1>1. Cause' /\ (RealSent' <=> RealSent) BY DEF Cause, RealSent
<1>2. TypeOK' BY DEF TypeOK
<1>3. Reasons' BY <1>1 DEF Reasons, Marked
<1>4. Tracked' BY <1>1 DEF Tracked
<1>5. WorkFaithful' BY DEF WorkFaithful, Progress, Faithful
<1> QED BY <1>2, <1>3, <1>4, <1>5, StillRunning DEF RootCause, ReportIsReference, Running

LEMMA CloseJobsInv == ASSUME ScanInv, CloseJobs PROVE ScanInv'
<1> USE DEF ScanInv, CloseJobs, workVars, callerVars
<1>1. (Cause' <=> Cause) /\ (RealSent' <=> RealSent) BY DEF Cause, RealSent
<1>2. TypeOK' BY DEF TypeOK
<1>3. Reasons' BY <1>1 DEF Reasons, Marked
<1>4. Tracked' BY <1>1 DEF Tracked, Collected, Waiting, Held
<1>5. WorkFaithful' BY DEF WorkFaithful, Progress, Faithful
<1>6. RootCause' BY DEF RootCause
<1>7. ReportIsReference' BY DEF ReportIsReference, Reference
<1> QED BY <1>2, <1>3, <1>4, <1>5, <1>6, <1>7

LEMMA CloseCompletedInv == ASSUME ScanInv, CloseCompleted PROVE ScanInv'
<1> USE DEF ScanInv, CloseCompleted, feedVars, workVars, callerVars
<1>0. returned = Running BY DEF Tracked
<1>1. (Cause' <=> Cause) /\ (RealSent' <=> RealSent) BY DEF Cause, RealSent
<1>2. TypeOK' BY DEF TypeOK
<1>3. Reasons' BY <1>1 DEF Reasons, Marked
<1>4. Tracked' BY <1>0, <1>1 DEF Tracked, Collected, Waiting, Held
<1>5. WorkFaithful' BY DEF WorkFaithful, Progress, Faithful
<1> QED BY <1>0, <1>2, <1>3, <1>4, <1>5, StillRunning DEF RootCause, ReportIsReference, Running

----------------------------------------------------------------------------
(* The steps of the caller.                                                *)

LEMMA CollectInv == ASSUME ScanInv, Collect PROVE ScanInv'
<1> USE DEF ScanInv, Collect, feedVars, workVars
<1> DEFINE r == Head(completed)
<1>0. returned = Running BY DEF Tracked
<1>1. /\ r = completed[1] /\ 1 \in DOMAIN completed /\ r \in Results /\ Marked(r)
      /\ r.err = "nil" => r.index \in Files /\ Faithful(r.index, r)
      /\ r.err = "canceled" => Cause
  BY DEF TypeOK, Reasons, WorkFaithful
<1>2. /\ completed' \in Seq(Results)
      /\ \A k \in DOMAIN completed' : k + 1 \in DOMAIN completed /\ completed'[k] = completed[k + 1]
      /\ \A k \in DOMAIN completed : k # 1 =>
            k - 1 \in DOMAIN completed' /\ completed'[k - 1] = completed[k]
  BY DEF TypeOK
<1>3. /\ r.err # "nil" =>
           /\ canceledErr' = IF r.err = "canceled" /\ canceledErr = "nil" THEN "canceled"
                             ELSE canceledErr
           /\ firstErr' = IF r.err # "canceled" /\ firstErr = "nil" THEN r.err ELSE firstErr
           /\ results' = results
      /\ r.err = "nil" =>
           firstErr' = firstErr /\ canceledErr' = canceledErr /\ results' = Recorded(r)
  BY <1>1 DEF Marked
<1>4. r.err = "nil" =>
        /\ DOMAIN results' = DOMAIN results \cup {r.index} /\ results'[r.index] = r
        /\ \A i \in DOMAIN results' : i # r.index => i \in DOMAIN results /\ results'[i] = results[i]
  BY <1>3 DEF Recorded
<1> HIDE DEF r
<1>5. RealSent => RealSent'
  <2>1. CASE firstErr # "nil" BY <1>3, <2>1 DEF RealSent
  <2>2. CASE \E k \in DOMAIN completed : Real(completed[k].err)
    <3>1. PICK k \in DOMAIN completed : Real(completed[k].err) BY <2>2
    <3>2. CASE k = 1 BY <1>1, <1>3, <3>1, <3>2 DEF RealSent, Real
    <3>3. CASE k # 1 BY <1>2, <3>1, <3>3 DEF RealSent
    <3> QED BY <3>2, <3>3
  <2> QED BY <2>1, <2>2 DEF RealSent
<1>6. Cause => Cause' BY <1>5 DEF Cause
<1>7. TypeOK'
  <2>1. r.err \in Errors BY <1>1 DEF Results
  <2>2. firstErr' \in Errors \ {"canceled"} /\ canceledErr' \in {"nil", "canceled"}
    BY <1>3, <2>1 DEF TypeOK
  <2>3. DOMAIN results' \subseteq Files /\ \A i \in DOMAIN results' : results'[i] \in Results
    BY <1>1, <1>3, <1>4 DEF TypeOK
  <2> QED BY <1>2, <2>2, <2>3 DEF TypeOK
<1>8. Reasons'
  <2>1. canceledErr' # "nil" => Cause' BY <1>1, <1>3, <1>6 DEF Reasons
  <2>2. \A k \in DOMAIN completed' :
           (completed'[k].err = "canceled" => Cause') /\ Marked(completed'[k])
    BY <1>2, <1>6 DEF Reasons
  <2> QED BY <1>5, <1>6, <2>1, <2>2 DEF Reasons, Marked
<1>9. Tracked'
  <2>1. ASSUME NEW i, Collected(i) PROVE Collected(i)'
    BY <2>1, <1>3, <1>4 DEF Collected
  <2>2. ASSUME NEW i, Waiting(i) PROVE Waiting(i)' \/ Collected(i)'
    <3>1. PICK k \in DOMAIN completed : completed[k].index = i /\ completed[k].err = "nil"
      BY <2>2 DEF Waiting
    <3>2. CASE k = 1 BY <1>1, <1>4, <3>1, <3>2 DEF Collected
    <3>3. CASE k # 1 BY <1>2, <3>1, <3>3 DEF Waiting
    <3> QED BY <3>2, <3>3
  <2>3. ASSUME NEW i, Held(i) PROVE Held(i)' BY <2>3 DEF Held
  <2>4. \A i \in 1 .. nextJob - 1 : Collected(i)' \/ Waiting(i)' \/ Held(i)' \/ Cause'
    BY <2>1, <2>2, <2>3, <1>6 DEF Tracked
  <2> QED BY <1>0, <2>4 DEF Tracked
<1>10. WorkFaithful'
  <2>1. \A w \in Workers : Progress(w)' BY DEF WorkFaithful, Progress, Faithful
  <2>2. \A k \in DOMAIN completed' : completed'[k].err = "nil" =>
           completed'[k].index \in Files /\ Faithful(completed'[k].index, completed'[k])
    BY <1>2 DEF WorkFaithful
  <2>3. \A i \in DOMAIN results' : Faithful(i, results'[i])
    BY <1>1, <1>3, <1>4 DEF WorkFaithful
  <2> QED BY <2>1, <2>2, <2>3 DEF WorkFaithful, Faithful
<1> QED BY <1>0, <1>7, <1>8, <1>9, <1>10, StillRunning DEF RootCause, ReportIsReference, Running

(* All results are there when as many are as there are files.              *)
LEMMA AllCollected ==
    ASSUME TypeOK
    PROVE  Cardinality(DOMAIN results) = FileCount <=> DOMAIN results = Files
<1>1. IsFiniteSet(Files) /\ Cardinality(Files) = FileCount
  BY DirScanAssumption, FS_Interval DEF Files
<1>2. DOMAIN results \in SUBSET Files BY DEF TypeOK
<1> QED BY <1>1, <1>2, FS_Subset

(* The report of results that are all there and all true of their files.   *)
LEMMA ReportsReference ==
    ASSUME TypeOK, DOMAIN results = Files, \A i \in Files : Faithful(i, results[i])
    PROVE  Report(results) = Reference
<1> DEFINE scanned == {i \in DOMAIN results : ~results[i].skipped}
           read == {i \in Files : tree.files[i].state \in {"text", "changed"}}
<1>1. \A i \in Files :
        /\ ~results[i].skipped <=> tree.files[i].state \in {"text", "changed"}
        /\ results[i].unreadable <=> tree.files[i].state = "unreadable"
        /\ ~results[i].skipped =>
              results[i].findings = [n \in 1 .. tree.files[i].findings |-> Finding(i, n)]
  BY FileTyped DEF Faithful, Content, FoundIn
<1>2. scanned = read BY <1>1
<1>3. {i \in DOMAIN results : results[i].unreadable} =
        {i \in Files : tree.files[i].state = "unreadable"}
  BY <1>1
<1>4. [i \in Files |-> IF i \in scanned THEN results[i].findings ELSE <<>>] =
        [i \in Files |-> IF i \in read
                         THEN [n \in 1 .. tree.files[i].findings |-> Finding(i, n)] ELSE <<>>]
  BY <1>1, <1>2
<1> QED BY <1>2, <1>3, <1>4, Zenon DEF Report, Reference

LEMMA ReturnInv == ASSUME ScanInv, ReturnFromScan PROVE ScanInv'
<1> USE DEF ScanInv, ReturnFromScan, feedVars, workVars
<1>1. RealSent <=> firstErr # "nil"
  <2>1. DOMAIN completed = {} OBVIOUS
  <2> QED BY <2>1 DEF RealSent
<1>2. \A w \in Workers : wpc[w] = "done" BY DEF Tracked
<1>3. (Cause' <=> Cause) /\ (RealSent' <=> RealSent) BY DEF Cause, RealSent
<1>4. ASSUME ~Cause PROVE DOMAIN results = Files
  <2>1. PICK w \in Workers : TRUE BY DirScanAssumption
  <2>2. published[w].err = "nil" BY <1>2, <1>4 DEF Reasons, Cause, Real
  <2>3. jobsClosed /\ ~canceled BY <1>2, <1>4, <2>2 DEF Tracked, Reasons
  <2>4. nextJob > FileCount BY <2>3 DEF Tracked
  <2>5. \A i \in Files : i \in 1 .. nextJob - 1 BY <2>4, DirScanAssumption DEF Files, TypeOK
  <2>6. \A i : ~Waiting(i) BY DEF Waiting
  <2>7. \A i : ~Held(i) BY <1>2 DEF Held, Working
  <2> QED BY <1>4, <2>5, <2>6, <2>7 DEF Tracked, Collected, TypeOK
<1>5. firstErr \in Errors \ {"canceled"} /\ canceledErr \in {"nil", "canceled"} BY DEF TypeOK
<1>6. /\ returned'.status # "running"
      /\ returned'.status = "canceled" => parentDone
      /\ firstErr # "nil" => returned'.status \notin {"ok", "canceled"}
      /\ returned'.status = "ok" => returned' = Reference
  <2>1. CASE firstErr # "nil"
    <3>1. returned' = Error(firstErr) BY <2>1 DEF Outcome
    <3> QED BY <3>1, <2>1, <1>5 DEF Error, Errors
  <2>2. CASE firstErr = "nil" /\ canceledErr # "nil"
    <3>1. returned' = Error(canceledErr) BY <2>2 DEF Outcome
    <3>2. parentDone BY <1>1, <2>2 DEF Reasons, Cause
    <3> QED BY <3>1, <3>2, <2>2, <1>5 DEF Error
  <2>3. CASE firstErr = "nil" /\ canceledErr = "nil" /\ Cardinality(DOMAIN results) # FileCount
    <3>1. returned' = Error("canceled") BY <2>3 DEF Outcome
    <3>2. parentDone BY <1>1, <1>4, <2>3, AllCollected DEF Cause
    <3> QED BY <3>1, <3>2, <2>3 DEF Error
  <2>4. CASE firstErr = "nil" /\ canceledErr = "nil" /\ Cardinality(DOMAIN results) = FileCount
    <3>1. returned' = Report(results) BY <2>4 DEF Outcome
    <3>2. DOMAIN results = Files BY <2>4, AllCollected
    <3>3. Report(results) = Reference BY <3>2, ReportsReference DEF WorkFaithful
    <3>4. Report(results).status = "ok" BY DEF Report
    <3> QED BY <3>1, <3>3, <3>4, <2>4
  <2> QED BY <2>1, <2>2, <2>3, <2>4
<1>7. returned' # Running BY <1>6 DEF Running
<1>8. TypeOK' BY DEF TypeOK
<1>9. Reasons' BY <1>3, <1>7 DEF Reasons, Marked
<1>10. Tracked' BY <1>2, <1>3 DEF Tracked, Collected, Waiting, Held
<1>11. WorkFaithful' BY DEF WorkFaithful, Progress, Faithful
<1>12. RootCause'
  <2>1. \A w \in Workers : Real(published[w].err) => firstErr # "nil"
    BY <1>1, <1>2 DEF Reasons
  <2> QED BY <2>1, <1>6 DEF RootCause, Real
<1>13. ReportIsReference' BY <1>6 DEF ReportIsReference, Reference
<1> QED BY <1>8, <1>9, <1>10, <1>11, <1>12, <1>13

----------------------------------------------------------------------------
(* Every step.                                                             *)
LEMMA StutterInv == ASSUME ScanInv, UNCHANGED vars PROVE ScanInv'
<1> USE DEF ScanInv, vars, feedVars, workVars, callerVars
<1>1. TypeOK' BY DEF TypeOK
<1>2. Reasons' BY DEF Reasons, Marked, Cause, RealSent
<1>3. Tracked' BY DEF Tracked, Collected, Waiting, Held, Cause, RealSent
<1>4. WorkFaithful' BY DEF WorkFaithful, Progress, Faithful
<1>5. RootCause' /\ ReportIsReference' BY DEF RootCause, ReportIsReference, Reference
<1> QED BY <1>1, <1>2, <1>3, <1>4, <1>5

LEMMA NextScanInv == ScanInv /\ [Next]_vars => ScanInv'
<1> SUFFICES ASSUME ScanInv, [Next]_vars PROVE ScanInv' OBVIOUS
<1>1. ASSUME NEW w \in Workers, Worker(w) PROVE ScanInv'
  BY <1>1, ConfigureInv, NoMoreJobsInv, OpenUnreadableInv, OpenBinaryInv, OpenTextInv,
     OnFindingInv, RedactCanceledInv, RedactFailsInv, RedactSucceedsInv, LoadAndCloseInv,
     SendInv, CancelOthersInv DEF Worker
<1> QED BY <1>1, ParentCancelsInv, CloseJobsInv, HandOverInv, CloseCompletedInv, CollectInv,
           ReturnInv, StutterInv DEF Next, Ended

(* In every state of every scan the results, the channel and the workers   *)
(* account for every file handed out, and hold of it what is on disk.      *)
THEOREM ScanInvariant == Spec => []ScanInv
BY InitScanInv, NextScanInv, PTL DEF Spec

(* A scan that succeeds reports what is on disk in the order of the paths, *)
(* whichever worker scanned what and when (dir.go, scanFiles and runDir).  *)
THEOREM ReportsWhatIsThere == Spec => []ReportIsReference
<1>1. ScanInv => ReportIsReference BY DEF ScanInv
<1> QED BY <1>1, ScanInvariant, PTL

(* The caller hears of the failure of a file and not of the cancellation   *)
(* it set off, and of a cancellation only if it was its own (dir.go,       *)
(* scanFiles: firstErr before canceledErr).                                *)
THEOREM HearsRootCause == Spec => []RootCause
<1>1. ScanInv => RootCause BY DEF ScanInv
<1> QED BY <1>1, ScanInvariant, PTL

(* The channel is closed after the last send and drained before the return *)
(* (dir.go, scanFiles: workers.Wait, close(completed)).                    *)
THEOREM ClosedAfterLastSend == Spec => []NothingAfterClose
<1>1. ScanInv => NothingAfterClose BY DEF ScanInv, Tracked, NothingAfterClose
<1> QED BY <1>1, ScanInvariant, PTL
=============================================================================
