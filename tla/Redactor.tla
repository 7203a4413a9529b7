------------------------------ MODULE Redactor ------------------------------
(***************************************************************************)
(* What one call of Redact promises (internal/goredact/engine.go, the doc  *)
(* comments of api.go and docs/DESIGN.md), without a buffer, a queue or a  *)
(* window: the input determines one redacted output and one set of         *)
(* findings; the destination receives the output from its start on, each   *)
(* finding is reported once, in its final form, before any byte of what    *)
(* replaces it is written, and "ok" is said only of the whole.             *)
(***************************************************************************)
EXTENDS Integers

CONSTANTS
    Inputs,
    Redaction(_),   \* the output an input determines: a set of [at, byte]
    Findings(_)     \* the findings it determines: a set of records with a start

VARIABLES
    input,
    out,      \* what the destination has received
    found,    \* the findings reported
    result    \* "none", "ok", or the error the call ended with

vars == <<input, out, found, result>>

Init ==
    /\ input \in Inputs
    /\ out = {} /\ found = {}
    /\ result = "none"

(* The output up to an offset of the input.                                *)
Prefix(to) == {o \in Redaction(input) : o.at < to}

(* More of the output, any amount of it, with the findings it needs.       *)
Write ==
    /\ \E to \in 0 .. input.len :
         /\ out' = Prefix(to)
         /\ \A f \in Findings(input) : f.start < to => f \in found'
    /\ out \subseteq out'
    /\ found \subseteq found' /\ found' \subseteq Findings(input)

(* The call may end at any moment with an error, and with success only     *)
(* when nothing is left to write or to report.                             *)
End ==
    /\ result' # "none"
    /\ result' = "ok" => out' = Redaction(input) /\ found' = Findings(input)

Next ==
    /\ result = "none"
    /\ Write
    /\ UNCHANGED input
    /\ UNCHANGED result \/ End

Spec == Init /\ [][Next]_vars
=============================================================================
