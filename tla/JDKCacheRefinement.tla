------------------------- MODULE JDKCacheRefinement -------------------------
(***************************************************************************)
(* Proof that the JDK layer implements JDKCache under the refinement       *)
(* mapping of JDKLayer, for every catalog, certificate set and archive     *)
(* trust-store.                                                            *)
(***************************************************************************)
EXTENDS JDKLayerProofs

(***************************************************************************)
(* A failed build's layer is either the cached layer it restored (the      *)
(* certificate loader failed in NewJDK) or a partial layer without         *)
(* metadata (the callback failed).  Without this, the failed build's       *)
(* hand-over to the cache could not be matched by the abstract End step.   *)
(***************************************************************************)
FailedKeeps == pc = "failed" => layer.meta \in {cache.meta, NoMeta}

LEMMA FailedStep == IInv /\ FailedKeeps /\ [Next]_vars => FailedKeeps'
<1> SUFFICES ASSUME IInv, FailedKeeps, [Next]_vars, pc' = "failed"
             PROVE  layer'.meta \in {cache'.meta, NoMeta}
  BY DEF FailedKeeps
<1>1. CASE StartBuild
  BY <1>1 DEF StartBuild
<1>2. CASE Expand
  <2>1. layer' = layer /\ cache' = cache /\ pc = "expand"
    BY <1>2 DEF Expand
  <2>2. layer.meta = NoMeta
    BY <2>1 DEF IInv, EmptyLayer, LayerAt
  <2>3. QED
    BY <2>1, <2>2
<1>3. CASE ChmodKeyStore
  <2>1. layer' = layer /\ cache' = cache /\ pc = "chmod"
    BY <1>3 DEF ChmodKeyStore
  <2>2. layer.meta = NoMeta
    BY <2>1 DEF IInv, LayerAt
  <2>3. QED
    BY <2>1, <2>2
<1>4. CASE LoadCertificates
  <2>1. layer' = layer /\ cache' = cache /\ pc = "load"
    BY <1>4 DEF LoadCertificates
  <2>2. layer.meta = NoMeta
    BY <2>1 DEF IInv, LayerAt
  <2>3. QED
    BY <2>1, <2>2
<1>5. CASE UNCHANGED vars
  BY <1>5 DEF vars, FailedKeeps
<1>6. QED
  BY <1>1, <1>2, <1>3, <1>4, <1>5
     DEF Next, ReuseLayer, ResetLayer, FinishLayer, EndBuild,
         ChangeCertificates, ClearCache

\* Every reachable state satisfies IInv and FailedKeeps.
THEOREM FailedKeepsInvariant == Spec => [](IInv /\ FailedKeeps)
<1>1. Init => FailedKeeps
  BY DEF Init, FailedKeeps
<1>2. QED
  BY <1>1, FailedStep, LayerFreshness, PTL DEF Spec

\* A failed build, wherever it failed, hands the lifecycle cache what it
\* already held or a layer without metadata (jdk.go:38, 65, 78, 82).
THEOREM FailedBuildTheorem == Spec => FailedBuildKeepsCache
<1>1. FailedKeeps /\ [Next]_vars =>
        [pc = "failed" /\ pc' = "idle" => cache'.meta \in {cache.meta, NoMeta}]_vars
  <2> SUFFICES ASSUME FailedKeeps, [Next]_vars, pc = "failed", pc' = "idle"
               PROVE  cache'.meta \in {cache.meta, NoMeta}
    OBVIOUS
  <2>1. EndBuild
    BY DEF Next, vars, StartBuild, ReuseLayer, ResetLayer, Expand,
           ChmodKeyStore, LoadCertificates, FinishLayer, ChangeCertificates,
           ClearCache
  <2>2. QED
    BY <2>1 DEF EndBuild, FailedKeeps
<1>2. QED
  BY <1>1, FailedKeepsInvariant, PTL DEF FailedBuildKeepsCache, Spec

\* The JDK layer implements JDKCache: a build either fails or hands on the
\* contribution of its own dependency and the current certificate
\* directories, and the lifecycle cache holds only what a successful build
\* handed on, what it held before, or nothing.
THEOREM Refinement == Spec => ImplementsJDKCache
<1>1. Init => Abstract!Init
  BY DEF Init, Abstract!Init, Status, Handed, EmptyLayer, LayerAt
<1>2. IInv /\ FailedKeeps /\ [Next]_vars => [Abstract!Next]_Abstract!vars
  <2> SUFFICES ASSUME IInv, FailedKeeps, [Next]_vars
               PROVE  [Abstract!Next]_Abstract!vars
    OBVIOUS
  <2>a. Status = Status' /\ Handed = Handed' /\ cache' = cache
        /\ UNCHANGED <<certDir, dep>> => UNCHANGED Abstract!vars
    BY DEF Abstract!vars
  <2>1. CASE StartBuild
    <3>1. Status = "idle" /\ Status' \in {"running", "failed"}
      BY <2>1 DEF Status, StartBuild
    <3>2. Handed = NoMeta /\ Handed' = NoMeta
      BY <2>1 DEF StartBuild, Handed
    <3>3. QED
      BY <2>1, <3>1, <3>2 DEF StartBuild, Abstract!Next, Abstract!Begin
  <2>2. ASSUME pc = "check" \/ pc = "finish", pc' = "done",
               layer'.meta = expected, UNCHANGED <<certDir, dep, cache>>
        PROVE  Abstract!Succeed
    <3>1. Status = "running" /\ Status' = "done"
      BY <2>2 DEF Status
    <3>2. Handed' = [dependency |-> dep, certs |-> certDir]
      BY <2>2 DEF Handed, IInv, NewJDK, CertMetadata
    <3>3. QED
      BY <2>2, <3>1, <3>2 DEF Abstract!Succeed, Abstract!Contribution
  <2>3. CASE ReuseLayer
    <3>1. layer'.meta = layer.meta
      BY <2>3 DEF ReuseLayer, IInv, TypeOK, Layer
    <3>2. QED
      BY <2>2, <2>3, <3>1 DEF ReuseLayer, Abstract!Next
  <2>4. CASE FinishLayer
    <3>1. layer'.meta = expected
      BY <2>4 DEF FinishLayer, IInv, TypeOK, Layer
    <3>2. QED
      BY <2>2, <2>4, <3>1 DEF FinishLayer, Abstract!Next
  <2>5. ASSUME pc \in {"check", "expand", "chmod", "load"},
               pc' \in {"expand", "chmod", "load", "finish", "failed"},
               UNCHANGED <<certDir, dep, cache>>
        PROVE  [Abstract!Next]_Abstract!vars
    <3>1. Handed = NoMeta /\ Handed' = NoMeta
      BY <2>5 DEF Handed
    <3>2. CASE pc' = "failed"
      <4>1. Status = "running" /\ Status' = "failed"
        BY <2>5, <3>2 DEF Status
      <4>2. QED
        BY <2>5, <3>1, <4>1 DEF Abstract!Next, Abstract!Fail
    <3>3. CASE pc' # "failed"
      <4>1. Status = "running" /\ Status' = "running"
        BY <2>5, <3>3 DEF Status
      <4>2. QED
        BY <2>a, <2>5, <3>1, <4>1
    <3>4. QED
      BY <3>2, <3>3
  <2>6. CASE ResetLayer \/ Expand \/ ChmodKeyStore \/ LoadCertificates
    BY <2>5, <2>6 DEF ResetLayer, Expand, ChmodKeyStore, LoadCertificates
  <2>7. CASE EndBuild
    <3>1. Status \in {"done", "failed"} /\ Status' = "idle"
      BY <2>7 DEF Status, EndBuild
    <3>2. Handed' = NoMeta
      BY <2>7 DEF EndBuild, Handed
    <3>3. CASE pc = "done"
      <4>1. Status = "done" /\ cache'.meta = Handed
        BY <2>7, <3>3 DEF Status, EndBuild, Handed
      <4>2. QED
        BY <2>7, <3>1, <3>2, <4>1 DEF EndBuild, Abstract!Next, Abstract!End
    <3>4. CASE pc = "failed"
      <4>1. Status = "failed"
        BY <3>4 DEF Status
      <4>2. cache'.meta \in {cache.meta, NoMeta}
        BY <2>7, <3>4 DEF EndBuild, FailedKeeps
      <4>3. QED
        BY <2>7, <3>1, <3>2, <4>1, <4>2
           DEF EndBuild, Abstract!Next, Abstract!End
    <3>5. QED
      BY <2>7, <3>3, <3>4 DEF EndBuild
  <2>8. CASE ChangeCertificates
    <3>1. Status = "idle" /\ Status' = "idle" /\ Handed = Handed'
      BY <2>8 DEF Status, ChangeCertificates, Handed
    <3>2. QED
      BY <2>8, <3>1 DEF ChangeCertificates, Abstract!Next,
                        Abstract!ChangeCertificates
  <2>9. CASE ClearCache
    <3>1. Status = "idle" /\ Status' = "idle" /\ Handed = Handed'
      BY <2>9 DEF Status, ClearCache, Handed
    <3>2. QED
      BY <2>9, <3>1 DEF ClearCache, Abstract!Next, Abstract!ClearCache,
                        EmptyLayer, LayerAt
  <2>10. CASE UNCHANGED vars
    BY <2>a, <2>10 DEF vars, Status, Handed
  <2>11. QED
    BY <2>1, <2>3, <2>4, <2>6, <2>7, <2>8, <2>9, <2>10 DEF Next
<1>3. QED
  BY <1>1, <1>2, FailedKeepsInvariant, PTL
     DEF ImplementsJDKCache, Abstract!Spec, Spec

-----------------------------------------------------------------------------
(***************************************************************************)
(* What JDKCache guarantees holds of the JDK layer: the theorems proved    *)
(* once of the abstract specification, carried over by Refinement.         *)
(***************************************************************************)

\* Through the mapping: a build that is done has the metadata NewJDK computes
\* from its dependency and the current certificate directories, and no
\* other build state counts as handed on.
THEOREM HandedFreshRefined == Spec => []Abstract!HandedFresh
BY Refinement, Abstract!HandedFreshTheorem DEF ImplementsJDKCache

\* Through the mapping: the metadata of the cached layer changes only to the
\* metadata of the build that has just succeeded, or to none, whatever
\* builds fail, where they fail, and when the cache is cleared.
THEOREM CacheRecordsSuccessRefined == Spec => Abstract!CacheRecordsSuccess
BY Refinement, Abstract!CacheRecordsSuccessTheorem DEF ImplementsJDKCache

====
