----------------------- MODULE MultipartUploadProofs -----------------------
(***************************************************************************)
(* UploadInv is an inductive invariant of MultipartUpload, for every part  *)
(* size, part limit and stream.                                            *)
(***************************************************************************)
EXTENDS MultipartUpload, TLAPS

LEMMA InitUploadInv == Init => UploadInv
<1> SUFFICES ASSUME Init PROVE UploadInv OBVIOUS
<1> USE DEF Init
<1>1. /\ length \in Nat /\ parts \in Seq(1 .. PartSize) /\ Len(parts) = 0
      /\ resultCh \in Seq({"nil", "scan", "canceled"}) /\ PartSize \in Nat /\ MaxParts \in Nat
  BY UploadAssumption
<1>2. TypeOK
  <2>1. produced \in 0 .. length /\ inPipe \in 0 .. produced /\ buf \in 0 .. PartSize
    BY <1>1
  <2>2. number \in Nat /\ Len(parts) <= MaxParts /\ stored \in Nat BY <1>1
  <2>3. length \in StreamLengths OBVIOUS
  <2> QED BY <1>1, <2>1, <2>2, <2>3, Zenon DEF TypeOK
<1>3. ScannerSound BY DEF ScannerSound
<1>4. PartsSound BY <1>1 DEF PartsSound
<1>5. CallerSound BY DEF CallerSound
<1> QED BY <1>2, <1>3, <1>4, <1>5 DEF UploadInv, CompletesWhole, OutcomeIsClear, ScannerStopsFirst

(* The scanning goroutine's steps.                                         *)
LEMMA ScannerUploadInv == UploadInv /\ Scanner => UploadInv'
<1> USE UploadAssumption DEF UploadInv, TypeOK, ScannerSound, PartsSound, CallerSound,
        CompletesWhole, OutcomeIsClear, ScannerStopsFirst, partVars, endVars, pipeVars
<1>1. ASSUME UploadInv, ScanWrites PROVE UploadInv'
  BY <1>1 DEF ScanWrites, Scanning, Offer
<1>2. ASSUME UploadInv, ScanEnds PROVE UploadInv'
  BY <1>2 DEF ScanEnds, Scanning
<1>3. ASSUME UploadInv, TrailerWrites PROVE UploadInv'
  BY <1>3 DEF TrailerWrites, Offer
<1>4. ASSUME UploadInv, EncoderCloses PROVE UploadInv'
  BY <1>4 DEF EncoderCloses
<1>5. ASSUME UploadInv, ClosePipe PROVE UploadInv'
  BY <1>5 DEF ClosePipe
<1>6. ASSUME UploadInv, ReportResult PROVE UploadInv'
  BY <1>6 DEF ReportResult
<1> QED BY <1>1, <1>2, <1>3, <1>4, <1>5, <1>6 DEF Scanner

(* The steps of the caller's goroutine.                                    *)
LEMMA CallerUploadInv == UploadInv /\ Caller => UploadInv'
<1> USE UploadAssumption DEF UploadInv, TypeOK, ScannerSound, PartsSound, CallerSound,
        CompletesWhole, OutcomeIsClear, ScannerStopsFirst, scanVars, pipeVars, partVars,
        Return, Goto, Fail
<1>1. ASSUME UploadInv, Begin PROVE UploadInv'
  BY <1>1 DEF Begin
<1>2. ASSUME UploadInv, Take PROVE UploadInv'
  BY <1>2 DEF Take, endVars
<1>3. ASSUME UploadInv, Filled PROVE UploadInv'
  BY <1>3 DEF Filled
<1>4. ASSUME UploadInv, UploadSucceeds PROVE UploadInv'
  BY <1>4 DEF UploadSucceeds, AfterPart, TooMany
<1>5. ASSUME UploadInv, UploadFails PROVE UploadInv'
  BY <1>5 DEF UploadFails
<1>6. ASSUME UploadInv, NothingToUpload PROVE UploadInv'
  BY <1>6 DEF NothingToUpload, AfterPart
<1>7. ASSUME UploadInv, FailStops PROVE UploadInv'
  BY <1>7 DEF FailStops
<1>8. ASSUME UploadInv, FailReturns PROVE UploadInv'
  BY <1>8 DEF FailReturns
<1>9. ASSUME UploadInv, WaitReturns PROVE UploadInv'
  BY <1>9 DEF WaitReturns
<1>10. ASSUME UploadInv, Complete PROVE UploadInv'
  <2>1. CASE completed' /\ Return("ok") /\ UNCHANGED aborted
    BY <1>10, <2>1 DEF Complete
  <2>2. CASE aborted' /\ Return("completion") /\ UNCHANGED completed
    BY <1>10, <2>2 DEF Complete
  <2> QED BY <1>10, <2>1, <2>2 DEF Complete
<1> QED BY <1>1, <1>2, <1>3, <1>4, <1>5, <1>6, <1>7, <1>8, <1>9, <1>10 DEF Caller

LEMMA NextUploadInv == UploadInv /\ [Next]_vars => UploadInv'
<1>1. ASSUME UploadInv, CallerCancels PROVE UploadInv'
  BY <1>1, UploadAssumption DEF CallerCancels, UploadInv, TypeOK, ScannerSound, PartsSound,
     CallerSound, CompletesWhole, OutcomeIsClear, ScannerStopsFirst, scanVars, pipeVars,
     partVars, endVars
<1>2. ASSUME UploadInv, UNCHANGED vars PROVE UploadInv'
  BY <1>2 DEF vars, UploadInv, TypeOK, ScannerSound, PartsSound, CallerSound,
     CompletesWhole, OutcomeIsClear, ScannerStopsFirst, scanVars, pipeVars, partVars, endVars
<1> QED BY <1>1, <1>2, ScannerUploadInv, CallerUploadInv DEF Next, Returned

(* UploadInv holds throughout: what the pipe and the result channel say,   *)
(* and what was stored, agree at every step of both goroutines.            *)
THEOREM UploadInvariant == Spec => []UploadInv
BY InitUploadInv, NextUploadInv, PTL DEF Spec

(* An upload is only ever completed with the whole stream of a clean scan. *)
THEOREM CompletedIsWhole == Spec => []CompletesWhole
<1>1. UploadInv => CompletesWhole BY DEF UploadInv
<1> QED BY <1>1, UploadInvariant, PTL

(* Every upload begun ends completed or aborted, and the caller is told    *)
(* which of the two.                                                       *)
THEOREM EndsClearly == Spec => []OutcomeIsClear
<1>1. UploadInv => OutcomeIsClear BY DEF UploadInv
<1> QED BY <1>1, UploadInvariant, PTL

(* The scanning goroutine is over before the upload is completed or        *)
(* aborted, and thus before the call returns.                              *)
THEOREM StopsBeforeVerdict == Spec => []ScannerStopsFirst
<1>1. UploadInv => ScannerStopsFirst BY DEF UploadInv
<1> QED BY <1>1, UploadInvariant, PTL
=============================================================================
