--------------------------- MODULE MultipartUpload ---------------------------
(***************************************************************************)
(* RedactCompressUpload of examples/multipartupload/upload.go.  A          *)
(* goroutine scans the source and compresses the redacted stream into a    *)
(* pipe; the caller's goroutine cuts what comes out of the pipe into       *)
(* parts, uploads them one by one, and at the end completes the upload or  *)
(* aborts it.  Either side may fail first, and the caller's context may    *)
(* end at any moment.                                                      *)
(*                                                                         *)
(* The compressed stream is counted in units, all of them alike; the last  *)
(* Trailer units are what the encoder writes when it is closed.            *)
(***************************************************************************)
EXTENDS Integers, Sequences

CONSTANTS
    StreamLengths,  \* units of the compressed streams a run ranges over
    Trailer,        \* units of a stream written by the encoder's Close
    PartSize,       \* opts.PartSize
    MaxParts        \* opts.MaxParts

ASSUME UploadAssumption ==
    /\ Trailer \in Nat \ {0}
    /\ StreamLengths \subseteq {n \in Nat : n >= Trailer}
    /\ PartSize \in Nat \ {0} /\ MaxParts \in Nat \ {0}

VARIABLES
    length,       \* units the whole stream compresses to
    canceled,     \* ctx is done, by the caller or by fail
    spc,          \* where the scanning goroutine is
    produced,     \* units it has offered to the pipe
    inPipe,       \* those not taken by the reader yet
    writerClosed, \* pw.CloseWithError: "open", "eof", or the scan's error
    readerClosed, \* pr.CloseWithError
    scanErr,      \* what the goroutine will report
    resultCh,     \* the result channel, of capacity one
    mpc,          \* where the caller's goroutine is
    number, buf,  \* the part being filled, and how full it is
    ended,        \* what ReadFull returned: "nil", "eof", "err"
    parts,        \* sizes of the parts uploaded
    stored,       \* history: units in them
    uploadErr,    \* the argument of fail
    aborted, completed, returned

scanVars == <<spc, produced, scanErr, resultCh>>
pipeVars == <<inPipe, writerClosed, readerClosed>>
partVars == <<number, buf, ended, parts, stored>>
endVars  == <<uploadErr, aborted, completed, returned>>
vars == <<length, canceled, scanVars, pipeVars, mpc, partVars, endVars>>

Init ==
    /\ length \in StreamLengths
    /\ canceled = FALSE
    /\ spc = "scan" /\ produced = 0 /\ scanErr = "nil" /\ resultCh = <<>>
    /\ inPipe = 0 /\ writerClosed = "open" /\ readerClosed = FALSE
    /\ mpc = "begin" /\ number = 1 /\ buf = 0 /\ ended = "nil" /\ parts = <<>> /\ stored = 0
    /\ uploadErr = "nil" /\ aborted = FALSE /\ completed = FALSE /\ returned = "no"

CallerCancels ==
    /\ returned = "no" /\ ~canceled
    /\ canceled' = TRUE
    /\ UNCHANGED <<length, scanVars, pipeVars, mpc, partVars, endVars>>

----------------------------------------------------------------------------
(* The scanning goroutine, started once the upload has begun.              *)

Scanning == mpc # "begin" /\ returned # "beginFailed"

(* The encoder offers units to the pipe; the write returns once the reader *)
(* has taken them all, or has closed its end.                              *)
Offer(upTo) ==
    /\ inPipe = 0 /\ ~readerClosed /\ produced < upTo
    /\ \E n \in 1 .. (upTo - produced) : produced' = produced + n /\ inPipe' = n

ScanWrites ==
    /\ spc = "scan" /\ Scanning /\ Offer(length - Trailer)
    /\ UNCHANGED <<length, canceled, spc, scanErr, resultCh, writerClosed, readerClosed,
                   mpc, partVars, endVars>>

(* Redact ends: at the end of the source, with the source's error, with    *)
(* the write's error, or because the context was polled.                   *)
ScanEnds ==
    /\ spc = "scan" /\ Scanning
    /\ \/ /\ produced = length - Trailer /\ inPipe = 0
          /\ spc' = "closeEncoder" /\ UNCHANGED scanErr
       \/ /\ inPipe = 0 \/ readerClosed
          /\ spc' = "closePipe" /\ scanErr' = "scan"
       \/ /\ canceled /\ (inPipe = 0 \/ readerClosed)
          /\ spc' = "closePipe" /\ scanErr' = "canceled"
    /\ UNCHANGED <<length, canceled, produced, resultCh, pipeVars, mpc, partVars, endVars>>

(* zw.Close after a clean scan: the trailer goes through the pipe.         *)
TrailerWrites ==
    /\ spc = "closeEncoder" /\ Offer(length)
    /\ UNCHANGED <<length, canceled, spc, scanErr, resultCh, writerClosed, readerClosed,
                   mpc, partVars, endVars>>

EncoderClosesUnchecked ==    \* faulty: the error of Close is dropped
    /\ spc = "closeEncoder"
    /\ inPipe = 0 \/ readerClosed
    /\ spc' = "closePipe"
    /\ UNCHANGED <<length, canceled, produced, scanErr, resultCh, pipeVars, mpc, partVars, endVars>>
EncoderCloses ==
    /\ spc = "closeEncoder"
    /\ \/ produced = length /\ inPipe = 0 /\ UNCHANGED scanErr
       \/ (inPipe = 0 \/ readerClosed) /\ scanErr' = "scan"
    /\ spc' = "closePipe"
    /\ UNCHANGED <<length, canceled, produced, resultCh, pipeVars, mpc, partVars, endVars>>

(* pw.CloseWithError; after a failed scan the encoder is closed behind it, *)
(* and can write nothing any more.                                         *)
ClosePipe ==
    /\ spc = "closePipe"
    /\ writerClosed' = IF scanErr = "nil" THEN "eof" ELSE scanErr
    /\ spc' = "report"
    /\ UNCHANGED <<length, canceled, produced, scanErr, resultCh, inPipe, readerClosed,
                   mpc, partVars, endVars>>

ReportResult ==
    /\ spc = "report" /\ resultCh = <<>>
    /\ resultCh' = <<scanErr>>
    /\ spc' = "done"
    /\ UNCHANGED <<length, canceled, produced, scanErr, pipeVars, mpc, partVars, endVars>>

Scanner == ScanWrites \/ ScanEnds \/ TrailerWrites \/ EncoderCloses \/ ClosePipe \/ ReportResult

----------------------------------------------------------------------------
(* The caller's goroutine.                                                 *)

Return(r) == mpc' = "done" /\ returned' = r
Goto(p)   == mpc' = p /\ UNCHANGED returned

Begin ==
    /\ mpc = "begin"
    /\ Goto("fill") \/ Return("beginFailed")
    /\ UNCHANGED <<length, canceled, scanVars, pipeVars, partVars, uploadErr, aborted, completed>>

(* io.ReadFull(pr, buf): units are taken until the part is full.           *)
Take ==
    /\ mpc = "fill" /\ buf < PartSize /\ inPipe > 0
    /\ \E n \in {k \in 1 .. inPipe : buf + k <= PartSize} :
         inPipe' = inPipe - n /\ buf' = buf + n
    /\ UNCHANGED <<length, canceled, scanVars, writerClosed, readerClosed, mpc, number, ended,
                   parts, stored, endVars>>

(* It returns at a full part, or when the writer closed its end.           *)
Filled ==
    /\ mpc = "fill"
    /\ \/ buf = PartSize /\ ended' = "nil"
       \/ /\ buf < PartSize /\ inPipe = 0 /\ writerClosed # "open"
          /\ ended' = IF writerClosed = "eof" THEN "eof" ELSE "err"
    /\ Goto("upload")
    /\ UNCHANGED <<length, canceled, scanVars, pipeVars, number, buf, parts, stored,
                   uploadErr, aborted, completed>>

Fail(err) == uploadErr' = err /\ Goto("fail")

TooMany == number > MaxParts

(* What follows a part, or a ReadFull that brought nothing.                *)
AfterPart ==
    \/ ended = "nil" /\ Goto("fill") /\ number' = number + 1 /\ UNCHANGED uploadErr
    \/ ended = "eof" /\ Goto("wait") /\ UNCHANGED <<number, uploadErr>>
    \/ ended = "err" /\ Fail("nil") /\ UNCHANGED number

(* UploadPart fails at will, and may succeed though ctx is done.            *)
UploadSucceeds ==
    /\ mpc = "upload" /\ buf > 0 /\ ~TooMany
    /\ parts' = Append(parts, buf) /\ stored' = stored + buf /\ buf' = 0
    /\ AfterPart
    /\ UNCHANGED <<length, canceled, scanVars, pipeVars, ended, aborted, completed>>

UploadFails ==
    /\ mpc = "upload" /\ buf > 0
    /\ Fail(IF TooMany THEN "partLimit" ELSE "upload")
    /\ UNCHANGED <<length, canceled, scanVars, pipeVars, partVars, aborted, completed>>

NothingToUpload ==
    /\ mpc = "upload" /\ buf = 0
    /\ AfterPart
    /\ UNCHANGED <<length, canceled, scanVars, pipeVars, buf, ended, parts, stored, aborted, completed>>

(* Faulty: the scanner is waited for with the pipe still open.             *)
FailStopsNothing ==
    /\ mpc = "fail"
    /\ canceled' = TRUE
    /\ Goto("failWait")
    /\ UNCHANGED <<length, scanVars, pipeVars, partVars, uploadErr, aborted, completed>>

(* fail: cancel, close the reader's end, wait for the scanner, abort.      *)
FailStops ==
    /\ mpc = "fail"
    /\ canceled' = TRUE /\ readerClosed' = TRUE
    /\ Goto("failWait")
    /\ UNCHANGED <<length, scanVars, inPipe, writerClosed, partVars, uploadErr, aborted, completed>>

FailReturnsAtOnce ==    \* faulty: the scanner is not waited for
    /\ mpc = "failWait"
    /\ aborted' = TRUE
    /\ Return(IF uploadErr # "nil" THEN uploadErr ELSE "scan")
    /\ UNCHANGED <<length, canceled, spc, produced, scanErr, resultCh, pipeVars, partVars,
                   uploadErr, completed>>
FailReturns ==
    /\ mpc = "failWait" /\ resultCh # <<>>
    /\ resultCh' = <<>>
    /\ aborted' = TRUE
    /\ Return(IF uploadErr # "nil" THEN uploadErr
              ELSE IF Head(resultCh) = "nil" THEN "ok" ELSE Head(resultCh))
    /\ UNCHANGED <<length, canceled, spc, produced, scanErr, pipeVars, partVars, uploadErr, completed>>

WaitReturns ==
    /\ mpc = "wait" /\ resultCh # <<>>
    /\ resultCh' = <<>>
    /\ IF Head(resultCh) = "nil" THEN Goto("complete") /\ UNCHANGED aborted
       ELSE aborted' = TRUE /\ Return(Head(resultCh))
    /\ UNCHANGED <<length, canceled, spc, produced, scanErr, pipeVars, partVars, uploadErr, completed>>

(* Faulty: a failed completion leaves the upload behind.                   *)
CompleteNoAbort ==
    /\ mpc = "complete"
    /\ \/ completed' = TRUE /\ Return("ok")
       \/ Return("completion") /\ UNCHANGED completed
    /\ UNCHANGED <<length, canceled, scanVars, pipeVars, partVars, uploadErr, aborted>>

Complete ==
    /\ mpc = "complete"
    /\ \/ completed' = TRUE /\ Return("ok") /\ UNCHANGED aborted
       \/ aborted' = TRUE /\ Return("completion") /\ UNCHANGED completed
    /\ UNCHANGED <<length, canceled, scanVars, pipeVars, partVars, uploadErr>>

Caller ==
    \/ Begin \/ Take \/ Filled \/ UploadSucceeds \/ UploadFails \/ NothingToUpload
    \/ FailStops \/ FailReturns \/ WaitReturns \/ Complete

Returned == returned # "no" /\ UNCHANGED vars

Next == CallerCancels \/ Scanner \/ Caller \/ Returned

Spec == Init /\ [][Next]_vars

(* Both goroutines keep running: the source's reads and the client's calls *)
(* return.                                                                 *)
FairSpec == Spec /\ WF_vars(Scanner) /\ WF_vars(Caller)

----------------------------------------------------------------------------
TypeOK ==
    /\ length \in StreamLengths /\ canceled \in BOOLEAN /\ readerClosed \in BOOLEAN
    /\ spc \in {"scan", "closeEncoder", "closePipe", "report", "done"}
    /\ mpc \in {"begin", "fill", "upload", "fail", "failWait", "wait", "complete", "done"}
    /\ produced \in 0 .. length /\ inPipe \in 0 .. produced
    /\ scanErr \in {"nil", "scan", "canceled"} /\ resultCh \in Seq({"nil", "scan", "canceled"})
    /\ writerClosed \in {"open", "eof", "scan", "canceled"}
    /\ number \in Nat /\ buf \in 0 .. PartSize /\ ended \in {"nil", "eof", "err"}
    /\ parts \in Seq(1 .. PartSize) /\ Len(parts) <= MaxParts /\ stored \in Nat
    /\ uploadErr \in {"nil", "partLimit", "upload"}
    /\ returned \in {"no", "beginFailed", "partLimit", "upload", "scan", "canceled",
                     "completion", "ok"}
    /\ aborted \in BOOLEAN /\ completed \in BOOLEAN

(* An upload is completed only with the whole stream of a clean scan, in   *)
(* no more parts than permitted, all of them full but for the last.        *)
CompletesWhole ==
    completed =>
        /\ scanErr = "nil" /\ stored = length /\ Len(parts) <= MaxParts
        /\ \A i \in 1 .. (Len(parts) - 1) : parts[i] = PartSize

(* An upload that was begun ends completed or with an attempt to abort it, *)
(* never both, and the caller is told success exactly if it is completed.  *)
OutcomeIsClear ==
    returned \notin {"no", "beginFailed"} =>
        /\ (returned = "ok") <=> completed
        /\ aborted <=> ~completed

(* When the upload is completed or aborted, and when the call returns, the *)
(* scanning goroutine has ended: it touches neither source nor pipe again. *)
ScannerStopsFirst == aborted \/ completed => spc = "done"

(* The inductive invariant: the goroutine's report is its scan's outcome,  *)
(* and so is what the pipe tells the reader ...                            *)
ScannerSound ==
    /\ spc \in {"scan", "closeEncoder"} => scanErr = "nil"
    /\ spc \in {"scan", "closeEncoder", "closePipe"} => writerClosed = "open"
    /\ spc \in {"closePipe", "report", "done"} /\ scanErr = "nil" =>
           produced = length /\ inPipe = 0
    /\ spc \in {"report", "done"} => writerClosed = (IF scanErr = "nil" THEN "eof" ELSE scanErr)
    /\ resultCh # <<>> => spc = "done" /\ resultCh = <<scanErr>>

(* ... units are neither lost nor made up between the encoder and the      *)
(* parts, and only the last of these is short ...                          *)
PartsSound ==
    /\ uploadErr = "nil" => produced = inPipe + buf + stored
    /\ mpc \in {"begin", "fill", "upload"} => number = Len(parts) + 1
    /\ mpc = "upload" /\ ended = "nil" => buf = PartSize
    /\ mpc = "begin" => parts = <<>>
    /\ \A i \in 1 .. Len(parts) :
           parts[i] = PartSize \/ (i = Len(parts) /\ mpc \notin {"begin", "fill", "upload"})

(* ... and the caller's goroutine acts on nothing else.                    *)
CallerSound ==
    /\ mpc = "upload" /\ ended # "nil" =>
           inPipe = 0 /\ writerClosed = (IF ended = "eof" THEN "eof" ELSE scanErr)
    /\ mpc \notin {"fail", "failWait", "done"} => uploadErr = "nil"
    /\ mpc \in {"fail", "failWait"} /\ uploadErr = "nil" => scanErr # "nil"
    /\ mpc = "wait" => writerClosed = "eof" /\ inPipe = 0 /\ buf = 0
    /\ mpc = "complete" => spc = "done" /\ scanErr = "nil" /\ stored = length
    /\ (mpc = "done") <=> (returned # "no")
    /\ mpc # "done" => ~aborted /\ ~completed

UploadInv ==
    /\ TypeOK /\ ScannerSound /\ PartsSound /\ CallerSound
    /\ CompletesWhole /\ OutcomeIsClear /\ ScannerStopsFirst

(* The call returns, whichever side fails first, and whoever waits for     *)
(* whom at that moment.                                                    *)
EverythingEnds == <>(returned # "no" /\ (spc = "done" \/ returned = "beginFailed"))
=============================================================================
