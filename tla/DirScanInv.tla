----------------------------- MODULE DirScanInv -----------------------------
(***************************************************************************)
(* The inductive invariant of DirScan.  Three things have to agree for a   *)
(* scan to end well: why it was stopped (Reasons), where each file handed  *)
(* out has got to (Tracked), and what the results hold of it (Faithful).   *)
(***************************************************************************)
EXTENDS DirScan

Real(err) == err \notin {"nil", "canceled"}
Errors == {"nil", "canceled", "config", "close", "scan", "secret"}
Working == {"open", "redact", "load"}
Results == [index : Files \cup {0}, err : Errors, canceled : BOOLEAN, skipped : BOOLEAN,
            unreadable : BOOLEAN, findings : Seq([file : Files, n : Nat])]
Marked(r) == r.canceled <=> r.err = "canceled"

(* The result of file i before anything is known of it.                    *)
Fresh(i) == [NoResult EXCEPT !.index = i]

(* The first n findings of file i, as Redact reports them.                 *)
FoundIn(i, n) == [k \in 1 .. n |-> Finding(i, k)]

TypeOK ==
    /\ tree \in Trees /\ canceled \in BOOLEAN /\ parentDone \in BOOLEAN
    /\ nextJob \in 1 .. FileCount + 1 /\ jobsClosed \in BOOLEAN
    /\ wpc \in [Workers -> {"new", "take", "send", "cancel", "done"} \cup Working]
    /\ job \in [Workers -> Files \cup {0}]
    /\ findings \in [Workers -> Seq([file : Files, n : Nat])]
    /\ published \in [Workers -> Results]
    /\ completed \in Seq(Results) /\ completedClosed \in BOOLEAN
    /\ DOMAIN results \subseteq Files /\ \A i \in DOMAIN results : results[i] \in Results
    /\ firstErr \in Errors \ {"canceled"} /\ canceledErr \in {"nil", "canceled"}

(* Why the scan is stopped: the caller asked, or a file or an engine       *)
(* failed and the caller has been sent the failure.                        *)
RealSent == firstErr # "nil" \/ \E k \in DOMAIN completed : Real(completed[k].err)
Cause == parentDone \/ RealSent

Reasons ==
    /\ returned = Running /\ canceled => Cause
    /\ canceledErr # "nil" => Cause
    /\ \A k \in DOMAIN completed : completed[k].err = "canceled" => Cause
    /\ \A k \in DOMAIN completed : Marked(completed[k])
    /\ \A w \in Workers :
          /\ Marked(published[w])
          /\ published[w].err = "canceled" => Cause
          /\ published[w].err # "nil" => wpc[w] \in {"send", "cancel", "done"}
          /\ wpc[w] = "cancel" => published[w].err # "nil"
          /\ Real(published[w].err) /\ wpc[w] \in {"cancel", "done"} => RealSent

(* Where a file is that was handed out: its result has been collected or   *)
(* waits in the channel, or a worker has it; unless the scan is stopped.   *)
Collected(i) == i \in DOMAIN results
Waiting(i) == \E k \in DOMAIN completed : completed[k].index = i /\ completed[k].err = "nil"
Held(i) == \E w \in Workers : job[w] = i /\ wpc[w] \in Working \cup {"send"}

Tracked ==
    /\ \A i \in 1 .. nextJob - 1 : Collected(i) \/ Waiting(i) \/ Held(i) \/ Cause
    /\ jobsClosed => nextJob > FileCount \/ canceled
    /\ \A w \in Workers : wpc[w] = "done" => jobsClosed \/ published[w].err # "nil"
    /\ completedClosed => \A w \in Workers : wpc[w] = "done"
    /\ returned # Running => completedClosed /\ completed = <<>>

(* What a worker holds of its file: nothing of an earlier one, and at each *)
(* stage as much as Redact has reported.                                   *)
Faithful(i, r) ==
    LET file == tree.files[i]
    IN  /\ r.skipped <=> file.state \in {"unreadable", "binary"}
        /\ r.unreadable <=> file.state = "unreadable"
        /\ file.state # "broken"
        /\ ~r.skipped => r.findings = FoundIn(i, file.findings)

Progress(w) ==
    LET i == job[w]
        file == tree.files[i]
    IN  /\ wpc[w] \in Working => i \in Files /\ published[w] = Fresh(i)
        /\ wpc[w] = "open" => findings[w] = <<>>
        /\ wpc[w] \in {"redact", "load"} => file.state \notin {"unreadable", "binary"}
        /\ wpc[w] = "redact" => \E n \in 0 .. file.findings : findings[w] = FoundIn(i, n)
        /\ wpc[w] = "load" => file.state # "broken" /\ findings[w] = FoundIn(i, file.findings)
        /\ wpc[w] = "send" /\ published[w].err = "nil" =>
               /\ i \in Files /\ published[w].index = i
               /\ Faithful(i, [published[w] EXCEPT !.findings = findings[w]])

WorkFaithful ==
    /\ \A w \in Workers : Progress(w)
    /\ \A k \in DOMAIN completed : completed[k].err = "nil" =>
          completed[k].index \in Files /\ Faithful(completed[k].index, completed[k])
    /\ \A i \in DOMAIN results : Faithful(i, results[i])

ScanInv == TypeOK /\ Reasons /\ Tracked /\ WorkFaithful /\ RootCause /\ ReportIsReference
=============================================================================
