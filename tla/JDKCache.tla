------------------------------ MODULE JDKCache ------------------------------
(***************************************************************************)
(* What the JDK layer promises across builds, with the layer's contents    *)
(* and the steps of JDK.Contribute abstracted away.                        *)
(*                                                                         *)
(* A build, once started, either fails or hands on the contribution of     *)
(* its own dependency and the certificate directories as they are now.     *)
(* The cache then holds what a successful build handed on; a failed build  *)
(* leaves the cache as it was or empty.  Between builds the certificate    *)
(* directories may change and the cache may be dropped.                    *)
(***************************************************************************)
EXTENDS TLAPS

CONSTANTS
    Deps,       \* catalog entries a build may resolve
    CertSets,   \* the possible contents of the certificate directories
    None        \* no contribution

VARIABLES
    certDir,    \* the configured certificate directories
    dep,        \* the dependency of the current build
    cached,     \* the contribution the cache holds, or None
    handed,     \* the contribution the current build handed on, or None
    status      \* "idle", "running", "done" or "failed"

vars == <<certDir, dep, cached, handed, status>>

\* A contribution is named by the inputs it was made from.
Contribution(d, c) == [dependency |-> d, certs |-> c]

Init ==
    /\ certDir \in CertSets
    /\ dep \in Deps
    /\ cached = None
    /\ handed = None
    /\ status = "idle"

\* A build resolves its dependency; it may fail before doing anything.
Begin ==
    /\ status = "idle"
    /\ dep' \in Deps
    /\ status' \in {"running", "failed"}
    /\ UNCHANGED <<certDir, cached, handed>>

\* The build succeeds with the contribution of its inputs.
Succeed ==
    /\ status = "running"
    /\ handed' = Contribution(dep, certDir)
    /\ status' = "done"
    /\ UNCHANGED <<certDir, dep, cached>>

Fail ==
    /\ status = "running"
    /\ status' = "failed"
    /\ UNCHANGED <<certDir, dep, cached, handed>>

\* A success is cached; a failure keeps or drops what was cached.
End ==
    /\ status \in {"done", "failed"}
    /\ IF status = "done" THEN cached' = handed ELSE cached' \in {cached, None}
    /\ handed' = None
    /\ status' = "idle"
    /\ UNCHANGED <<certDir, dep>>

ChangeCertificates ==
    /\ status = "idle"
    /\ certDir' \in CertSets \ {certDir}
    /\ UNCHANGED <<dep, cached, handed, status>>

ClearCache ==
    /\ status = "idle"
    /\ cached' = None
    /\ UNCHANGED <<certDir, dep, handed, status>>

Next == Begin \/ Succeed \/ Fail \/ End \/ ChangeCertificates \/ ClearCache

Spec == Init /\ [][Next]_vars


-----------------------------------------------------------------------------
\* While a build has succeeded and not yet ended, what it handed on is the
\* contribution of its dependency and the current certificate directories;
\* at any other time nothing is handed on.
HandedFresh ==
    /\ status = "done" => handed = Contribution(dep, certDir)
    /\ status # "done" => handed = None

\* The cache changes only to what the build that just succeeded handed on,
\* or to nothing: neither a failed build nor a clear ever puts into the
\* cache a contribution no build produced.
CacheRecordsSuccess == [][cached' # cached => cached' \in {handed, None}]_vars

\* HandedFresh is inductive: only Succeed sets handed, from the inputs that
\* stay fixed until End clears it.
THEOREM HandedFreshTheorem == Spec => []HandedFresh
<1>1. Init => HandedFresh
  BY DEF Init, HandedFresh
<1>2. HandedFresh /\ [Next]_vars => HandedFresh'
  BY DEF HandedFresh, Next, vars, Begin, Succeed, Fail, End,
         ChangeCertificates, ClearCache
<1>3. QED
  BY <1>1, <1>2, PTL DEF Spec

\* Only End and ClearCache write the cache: End with the contribution just
\* handed on, or after a failure with what was cached or nothing.
LEMMA CacheRecordsSuccessTheorem == Spec => CacheRecordsSuccess
<1>1. HandedFresh /\ [Next]_vars =>
        [cached' # cached => cached' \in {handed, None}]_vars
  BY DEF HandedFresh, Next, vars, Begin, Succeed, Fail, End,
         ChangeCertificates, ClearCache
<1>2. QED
  BY <1>1, HandedFreshTheorem, PTL DEF CacheRecordsSuccess, Spec

=============================================================================
