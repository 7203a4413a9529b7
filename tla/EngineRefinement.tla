-------------------------- MODULE EngineRefinement --------------------------
(***************************************************************************)
(* The engine as an implementation of the abstract redactor: input, out,   *)
(* found and result are the redactor's own, the rest of the loop's state   *)
(* is hidden, and the reference of module Engine is what the input         *)
(* determines.                                                             *)
(***************************************************************************)
EXTENDS EngineInv

R == INSTANCE Redactor WITH Redaction <- ReferenceOut, Findings <- ReferenceFindings

(* The engine implements the abstract redactor: whatever the portions it   *)
(* is read in and whatever error ends the call, the destination holds a    *)
(* prefix of the one output the input determines, findings are final and   *)
(* reported before their replacement is written, and success means the     *)
(* whole output and every finding (docs/DESIGN.md, the invariants).        *)
ImplementsRedactor == R!Spec
=============================================================================
