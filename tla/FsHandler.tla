------------------------------ MODULE FsHandler ------------------------------
(***************************************************************************)
(* The filesystem usage sampler (common.FsHandler, spec section 4.4).      *)
(* Its code is not part of this repository's sources: the module is        *)
(* written from the spec.  A sampler is restartable: Start begins periodic *)
(* sampling, Stop halts it, and Usage returns the last completed sample    *)
(* without blocking (the zero sample before the first one completes).      *)
(* A sample walks the container's root storage directory and its log       *)
(* directory; the directory sizes are inputs supplied by the module that   *)
(* composes the sampler with the host's filesystem.  A failed walk is      *)
(* logged and keeps the previous sample, so it changes no state.           *)
(***************************************************************************)
EXTENDS Naturals

VARIABLES
    fsRunning,   \* TRUE while the background sampling loop runs
    fsUsage      \* the last completed sample: [base, total] in bytes

fsVars == <<fsRunning, fsUsage>>

\* An FsUsage value: BaseUsageBytes and TotalUsageBytes.
FsUsageRec(B) == [base : B, total : B]

ZeroUsage == [base |-> 0, total |-> 0]

FsInit ==
    /\ fsRunning = FALSE
    /\ fsUsage = ZeroUsage

\* Start: begin sampling in the background (idempotent).
FsStart ==
    /\ fsRunning' = TRUE
    /\ UNCHANGED fsUsage

\* Stop: no further sample is taken once it returns (idempotent).
FsStop ==
    /\ fsRunning' = FALSE
    /\ UNCHANGED fsUsage

\* One completed sample: the root directory's bytes are the base usage and
\* root plus log directory bytes the total usage.
FsUpdate(rootBytes, extraBytes) ==
    /\ fsRunning
    /\ fsUsage' = [base |-> rootBytes, total |-> rootBytes + extraBytes]
    /\ UNCHANGED fsRunning

\* Usage: the last completed sample.
Usage == fsUsage

=============================================================================
