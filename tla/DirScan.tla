------------------------------- MODULE DirScan -------------------------------
(***************************************************************************)
(* The parallel scan of "goredact dir" (cmd/goredact/dir.go, scanFiles and *)
(* scanFile, and the loop of runDir that folds the results): a feeder      *)
(* hands file indexes to workers over an unbuffered channel, each worker   *)
(* scans one file at a time with an engine of its own and publishes a      *)
(* result, and the caller collects the results.  The first worker that     *)
(* fails cancels the rest; the caller's context may end at any moment.     *)
(*                                                                         *)
(* What a file holds is part of the initial state: how scanning it goes,   *)
(* and how many findings Redact reports for it.                            *)
(***************************************************************************)
EXTENDS Integers, SequencesExt

CONSTANTS
    Workers,      \* the worker goroutines, min(len(paths), GOMAXPROCS)
    FileCount,    \* len(paths), at least one
    Trees,        \* the directory contents a run ranges over
    ShowSecrets   \* -show-secrets

Files == 1 .. FileCount

(* How a file is met: "unreadable" at Open or at the sniff, "binary" by    *)
(* the sniff, "broken" by a read error of Redact after its findings,       *)
(* "changed" between Redact and loadSecrets.                               *)
Content == [state : {"text", "unreadable", "binary", "broken", "changed"},
            closes : BOOLEAN, findings : Nat]

ASSUME DirScanAssumption ==
    /\ Workers # {} /\ FileCount \in Nat \ {0}
    /\ Trees \subseteq [files : [Files -> Content], config : BOOLEAN]
    /\ ShowSecrets \in BOOLEAN

VARIABLES
    tree,         \* what is on disk, and whether the engine can be configured
    canceled,     \* scanCtx is done
    parentDone,   \* history: because the caller's context is
    nextJob,      \* feeder: the index it is about to send
    jobsClosed,
    wpc, job,     \* worker: where it is, the index it works on
    findings,     \* worker: the slice its engine's OnFinding appends to
    published,    \* worker: the result it is about to send
    completed,    \* the channel of results
    completedClosed,
    results,      \* caller: index -> the result received for it
    firstErr, canceledErr,
    returned      \* what scanFiles returned and runDir made of it

feedVars   == <<nextJob, jobsClosed>>
workVars   == <<wpc, job, findings, published>>
callerVars == <<results, firstErr, canceledErr, returned>>
vars == <<tree, canceled, parentDone, feedVars, workVars, completed, completedClosed, callerVars>>

NoResult == [index |-> 0, err |-> "nil", canceled |-> FALSE, skipped |-> FALSE,
             unreadable |-> FALSE, findings |-> <<>>]
Failed(r, err) == [r EXCEPT !.err = err, !.canceled = (err = "canceled")]
Running == [status |-> "running"]

Init ==
    /\ tree \in Trees
    /\ canceled = FALSE /\ parentDone = FALSE
    /\ nextJob = 1 /\ jobsClosed = FALSE
    /\ wpc = [w \in Workers |-> "new"] /\ job = [w \in Workers |-> 0]
    /\ findings = [w \in Workers |-> <<>>] /\ published = [w \in Workers |-> NoResult]
    /\ completed = <<>> /\ completedClosed = FALSE
    /\ results = [i \in {} |-> NoResult] /\ firstErr = "nil" /\ canceledErr = "nil"
    /\ returned = Running

(* The finding number n of file i, as a report names it.                   *)
Finding(i, n) == [file |-> i, n |-> n]

----------------------------------------------------------------------------
(* The caller's context ends.                                              *)
ParentCancels ==
    /\ returned = Running /\ ~parentDone
    /\ parentDone' = TRUE /\ canceled' = TRUE
    /\ UNCHANGED <<tree, feedVars, workVars, completed, completedClosed, callerVars>>

(* The feeder.  jobs is unbuffered: a send is also a worker's receive,     *)
(* which resets that worker's findings.                                    *)
HandOverKeeping(w) ==    \* faulty: the findings of the last file are kept
    /\ ~jobsClosed /\ nextJob <= FileCount /\ wpc[w] = "take"
    /\ nextJob' = nextJob + 1
    /\ wpc' = [wpc EXCEPT ![w] = "open"]
    /\ job' = [job EXCEPT ![w] = nextJob]
    /\ published' = [published EXCEPT ![w] = [NoResult EXCEPT !.index = nextJob]]
    /\ UNCHANGED <<tree, canceled, parentDone, jobsClosed, findings, completed, completedClosed, callerVars>>

HandOver(w) ==
    /\ ~jobsClosed /\ nextJob <= FileCount /\ wpc[w] = "take"
    /\ nextJob' = nextJob + 1
    /\ wpc' = [wpc EXCEPT ![w] = "open"]
    /\ job' = [job EXCEPT ![w] = nextJob]
    /\ findings' = [findings EXCEPT ![w] = <<>>]
    /\ published' = [published EXCEPT ![w] = [NoResult EXCEPT !.index = nextJob]]
    /\ UNCHANGED <<tree, canceled, parentDone, jobsClosed, completed, completedClosed, callerVars>>

(* Faulty: the feeder does not watch the context.                          *)
CloseJobsAtEndOnly ==
    /\ ~jobsClosed /\ nextJob > FileCount
    /\ jobsClosed' = TRUE
    /\ UNCHANGED <<tree, canceled, parentDone, nextJob, workVars, completed, completedClosed, callerVars>>

CloseJobs ==
    /\ ~jobsClosed /\ (nextJob > FileCount \/ canceled)
    /\ jobsClosed' = TRUE
    /\ UNCHANGED <<tree, canceled, parentDone, nextJob, workVars, completed, completedClosed, callerVars>>

----------------------------------------------------------------------------
(* A worker.                                                               *)

Step(w, from, to) == wpc[w] = from /\ wpc' = [wpc EXCEPT ![w] = to]
Publish(w, result) == published' = [published EXCEPT ![w] = result]
OthersOfWorker == <<tree, canceled, parentDone, feedVars, completed, completedClosed, callerVars>>

Configure(w) ==
    /\ Step(w, "new", IF tree.config THEN "take" ELSE "send")
    /\ Publish(w, IF tree.config THEN NoResult ELSE Failed(NoResult, "config"))
    /\ UNCHANGED <<job, findings, OthersOfWorker>>

(* The range over jobs ends.                                               *)
NoMoreJobs(w) ==
    /\ jobsClosed /\ Step(w, "take", "done")
    /\ UNCHANGED <<job, findings, published, OthersOfWorker>>

FileOf(w) == tree.files[job[w]]

(* Open and the sniff for binary content.                                  *)
OpenUnreadable(w) ==
    /\ Step(w, "open", "send") /\ FileOf(w).state = "unreadable"
    /\ Publish(w, [published[w] EXCEPT !.skipped = TRUE, !.unreadable = TRUE])
    /\ UNCHANGED <<job, findings, OthersOfWorker>>

OpenBinary(w) ==
    /\ Step(w, "open", "send") /\ FileOf(w).state = "binary"
    /\ findings' = [findings EXCEPT ![w] = <<>>]
    /\ LET skipped == [published[w] EXCEPT !.skipped = TRUE]
       IN  Publish(w, IF FileOf(w).closes THEN skipped ELSE Failed(skipped, "close"))
    /\ UNCHANGED <<job, OthersOfWorker>>

OpenText(w) ==
    /\ Step(w, "open", "redact") /\ FileOf(w).state \notin {"unreadable", "binary"}
    /\ UNCHANGED <<job, findings, published, OthersOfWorker>>

(* Redact: OnFinding for each finding in turn ...                          *)
OnFinding(w) ==
    /\ wpc[w] = "redact" /\ Len(findings[w]) < FileOf(w).findings
    /\ findings' = [findings EXCEPT ![w] = Append(@, Finding(job[w], Len(@) + 1))]
    /\ UNCHANGED <<wpc, job, published, OthersOfWorker>>

(* ... then its return; the context is polled before every read.           *)
RedactCanceled(w) ==
    /\ Step(w, "redact", "send") /\ canceled
    /\ Publish(w, Failed(published[w], "canceled"))
    /\ UNCHANGED <<job, findings, OthersOfWorker>>

RedactFails(w) ==
    /\ Step(w, "redact", "send") /\ FileOf(w).state = "broken"
    /\ Len(findings[w]) >= FileOf(w).findings
    /\ Publish(w, Failed(published[w], "scan"))
    /\ UNCHANGED <<job, findings, OthersOfWorker>>

RedactSucceeds(w) ==
    /\ Step(w, "redact", "load") /\ FileOf(w).state # "broken"
    /\ Len(findings[w]) >= FileOf(w).findings
    /\ UNCHANGED <<job, findings, published, OthersOfWorker>>

(* loadSecrets, and Close.                                                 *)
LoadAndClose(w) ==
    /\ Step(w, "load", "send")
    /\ LET err == IF ShowSecrets /\ FileOf(w).state = "changed" /\ findings[w] # <<>>
                  THEN "secret"
                  ELSE IF FileOf(w).closes THEN "nil" ELSE "close"
       IN  Publish(w, Failed(published[w], err))
    /\ UNCHANGED <<job, findings, OthersOfWorker>>

(* completed <- result; a failed worker stops everyone, and itself.        *)
Send(w) ==
    LET r == [published[w] EXCEPT !.findings = findings[w]]
    IN  /\ Len(completed) < FileCount
        /\ Step(w, "send", IF r.err = "nil" THEN "take" ELSE "cancel")
        /\ completed' = Append(completed, r)
        /\ UNCHANGED <<job, findings, published, tree, canceled, parentDone, feedVars,
                       completedClosed, callerVars>>

CancelOthers(w) ==
    /\ Step(w, "cancel", "done")
    /\ canceled' = TRUE
    /\ UNCHANGED <<job, findings, published, tree, parentDone, feedVars, completed,
                   completedClosed, callerVars>>

Worker(w) ==
    \/ Configure(w) \/ NoMoreJobs(w) \/ OpenUnreadable(w) \/ OpenBinary(w) \/ OpenText(w)
    \/ OnFinding(w) \/ RedactCanceled(w) \/ RedactFails(w) \/ RedactSucceeds(w)
    \/ LoadAndClose(w) \/ Send(w) \/ CancelOthers(w)

----------------------------------------------------------------------------
(* The goroutine that waits for the workers, and the caller.               *)

(* Faulty: one worker done is taken for all.                               *)
CloseCompletedEarly ==
    /\ ~completedClosed /\ \E w \in Workers : wpc[w] = "done"
    /\ completedClosed' = TRUE
    /\ UNCHANGED <<tree, canceled, parentDone, feedVars, workVars, completed, callerVars>>

CloseCompleted ==
    /\ ~completedClosed /\ \A w \in Workers : wpc[w] = "done"
    /\ completedClosed' = TRUE
    /\ UNCHANGED <<tree, canceled, parentDone, feedVars, workVars, completed, callerVars>>

(* results with the result r in its place.                                 *)
Recorded(r) ==
    [i \in DOMAIN results \cup {r.index} |-> IF i = r.index THEN r ELSE results[i]]

(* Faulty: whatever error comes first is kept.                             *)
CollectFirst ==
    /\ returned = Running /\ completed # <<>>
    /\ completed' = Tail(completed)
    /\ LET r == Head(completed)
       IN  IF r.err # "nil"
           THEN /\ firstErr' = (IF firstErr = "nil" THEN r.err ELSE firstErr)
                /\ UNCHANGED <<results, canceledErr>>
           ELSE results' = Recorded(r) /\ UNCHANGED <<firstErr, canceledErr>>
    /\ UNCHANGED <<tree, canceled, parentDone, feedVars, workVars, completedClosed, returned>>

Collect ==
    /\ returned = Running /\ completed # <<>>
    /\ completed' = Tail(completed)
    /\ LET r == Head(completed)
       IN  IF r.err # "nil"
           THEN /\ canceledErr' = IF r.canceled /\ canceledErr = "nil" THEN r.err ELSE canceledErr
                /\ firstErr' = IF ~r.canceled /\ firstErr = "nil" THEN r.err ELSE firstErr
                /\ UNCHANGED results
           ELSE results' = Recorded(r) /\ UNCHANGED <<firstErr, canceledErr>>
    /\ UNCHANGED <<tree, canceled, parentDone, feedVars, workVars, completedClosed, returned>>

(* runDir's fold: skipped files count apart, findings follow the order of  *)
(* the paths.                                                              *)
Report(found) ==
    LET scanned == {i \in DOMAIN found : ~found[i].skipped}
    IN  [status     |-> "ok",
         scanned    |-> Cardinality(scanned),
         unreadable |-> Cardinality({i \in DOMAIN found : found[i].unreadable}),
         findings   |-> FlattenSeq([i \in Files |->
                            IF i \in scanned THEN found[i].findings ELSE <<>>])]
Error(err) == [status |-> err]

Outcome ==
    CASE firstErr # "nil"                            -> Error(firstErr)
      [] firstErr = "nil" /\ canceledErr # "nil"     -> Error(canceledErr)
      [] firstErr = "nil" /\ canceledErr = "nil"
            /\ Cardinality(DOMAIN results) # FileCount -> Error("canceled")
      [] OTHER                                       -> Report(results)

(* The channel is drained and closed; the deferred cancel runs.            *)
ReturnFromScan ==
    /\ returned = Running /\ completed = <<>> /\ completedClosed
    /\ returned' = Outcome
    /\ canceled' = TRUE
    /\ UNCHANGED <<tree, parentDone, feedVars, workVars, completed, completedClosed,
                   results, firstErr, canceledErr>>

Ended == returned # Running /\ jobsClosed /\ UNCHANGED vars

Next ==
    \/ ParentCancels
    \/ CloseJobs \/ \E w \in Workers : HandOver(w) \/ Worker(w)
    \/ CloseCompleted \/ Collect \/ ReturnFromScan
    \/ Ended

Spec == Init /\ [][Next]_vars

(* Every goroutine keeps running; a Read of a file returns.                *)
FairSpec ==
    /\ Spec
    /\ WF_vars(CloseJobs \/ \E w \in Workers : HandOver(w))
    /\ \A w \in Workers : WF_vars(Worker(w))
    /\ WF_vars(CloseCompleted) /\ WF_vars(Collect \/ ReturnFromScan)

----------------------------------------------------------------------------
(* What the report of a scan that succeeds must be, whoever scanned what.  *)
Reference ==
    LET read == {i \in Files : tree.files[i].state \in {"text", "changed"}}
    IN  [status     |-> "ok",
         scanned    |-> Cardinality(read),
         unreadable |-> Cardinality({i \in Files : tree.files[i].state = "unreadable"}),
         findings   |-> FlattenSeq([i \in Files |->
                            IF i \in read
                            THEN [n \in 1 .. tree.files[i].findings |-> Finding(i, n)]
                            ELSE <<>>])]

(* A scan that succeeds reports what is on disk, in the order of the       *)
(* paths: neither the scheduling of the workers nor the findings slice     *)
(* each of them reuses shows.                                              *)
ReportIsReference == returned.status = "ok" => returned = Reference

(* The failure of a file is what the caller hears of, never the            *)
(* cancellation it set off in the other workers.                           *)
RootCause ==
    returned # Running =>
        /\ returned.status = "canceled" => parentDone
        /\ (\E w \in Workers : published[w].err \notin {"nil", "canceled"}) =>
               returned.status \notin {"ok", "canceled"}

(* No result is sent on a closed channel (a panic in Go), and none is left *)
(* behind in it.                                                           *)
NothingAfterClose ==
    /\ completedClosed => \A w \in Workers : wpc[w] # "send"
    /\ returned # Running => completed = <<>>

(* The call returns, and leaves no goroutine behind: the feeder and the    *)
(* workers end whatever failed and wherever they were.                     *)
EverythingEnds ==
    <>(returned # Running /\ jobsClosed /\ completedClosed /\ \A w \in Workers : wpc[w] = "done")
=============================================================================
