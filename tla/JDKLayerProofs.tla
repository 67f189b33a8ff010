--------------------------- MODULE JDKLayerProofs ---------------------------
(***************************************************************************)
(* Proofs about the JDK layer across builds, for every catalog, every      *)
(* certificate set and every archive trust-store.                          *)
(***************************************************************************)
EXTENDS JDKLayer, TLAPS

(***************************************************************************)
(* Merging a certificate directory into a trust-store yields a trust-store.*)
(***************************************************************************)
LEMMA MergeType ==
    ASSUME NEW ks \in Store, NEW dir \in Store
    PROVE  Merge(ks, dir) \in Store
BY DEF Merge, Store

\* A full contribution is a layer.
LEMMA ContributedLayerType ==
    ASSUME NEW d \in Deps, NEW dir \in Store
    PROVE  ContributedLayer(d, dir) \in Layer
BY BaseAssumption, MergeType DEF ContributedLayer, Layer, Metadata

-----------------------------------------------------------------------------
(***************************************************************************)
(* Type correctness.                                                       *)
(***************************************************************************)
\* Every build step, and every change between builds, keeps the state well
\* typed.
LEMMA TypeStep == TypeOK /\ [Next]_vars => TypeOK'
  <1> SUFFICES ASSUME TypeOK, [Next]_vars PROVE TypeOK'
    OBVIOUS
  <1>1. CASE StartBuild
    BY <1>1 DEF StartBuild, TypeOK, NewJDK, CertMetadata, Metadata
  <1>2. CASE ReuseLayer
    BY <1>2 DEF ReuseLayer, TypeOK, Layer
  <1>3. CASE ResetLayer
    BY <1>3 DEF ResetLayer, TypeOK, EmptyLayer, LayerAt, NoCerts, Layer, Store
  <1>4. CASE Expand
    BY <1>4, BaseAssumption DEF Expand, TypeOK, Layer
  <1>5. CASE ChmodKeyStore
    BY <1>5 DEF ChmodKeyStore, TypeOK, Layer
  <1>6. CASE LoadCertificates
    BY <1>6, MergeType DEF LoadCertificates, TypeOK, Layer
  <1>7. CASE FinishLayer
    BY <1>7 DEF FinishLayer, TypeOK, Layer
  <1>8. CASE EndBuild
    BY <1>8 DEF EndBuild, TypeOK
  <1>9. CASE ChangeCertificates
    BY <1>9 DEF ChangeCertificates, TypeOK
  <1>10. CASE ClearCache
    BY <1>10 DEF ClearCache, TypeOK, EmptyLayer, LayerAt, NoCerts, Layer, Store
  <1>11. CASE UNCHANGED vars
    BY <1>11 DEF vars, TypeOK
  <1>12. QED
    BY <1>1, <1>2, <1>3, <1>4, <1>5, <1>6, <1>7, <1>8, <1>9, <1>10, <1>11
       DEF Next

\* The states every build step leaves are well typed.
THEOREM TypeCorrect == Spec => []TypeOK
<1>1. Init => TypeOK
  BY DepsAssumption DEF Init, TypeOK, EmptyLayer, LayerAt, NoCerts, Layer, Store
<1>2. QED
  BY <1>1, TypeStep, PTL DEF Spec

-----------------------------------------------------------------------------
(***************************************************************************)
(* Layer freshness.  The layer a successful build hands on is the          *)
(* contribution of this build's dependency and certificates, and the cache *)
(* never holds a layer whose metadata promises more than it contains.      *)
(* The argument: metadata is written only by FinishLayer, after every step *)
(* of the callback, and Reset clears it first; so a layer with metadata is *)
(* a complete contribution for it (Sound), and reusing a sound layer whose *)
(* metadata equals the expected one reuses the right contents.             *)
(***************************************************************************)

\* A layer without metadata is trivially sound.
LEMMA NoMetaSound ==
    ASSUME NEW l, l.meta = NoMeta
    PROVE  Sound(l)
BY DEF Sound

\* The fields of a complete contribution ...
LEMMA ContributedFields ==
    ASSUME NEW d, NEW dir
    PROVE  /\ ContributedLayer(d, dir).meta = [dependency |-> d, certs |-> dir]
           /\ ContributedLayer(d, dir).extracted = d
           /\ ContributedLayer(d, dir).javaHome = TRUE
           /\ ContributedLayer(d, dir).writable = TRUE
           /\ ContributedLayer(d, dir).keystore = Merge(Base, dir)
           /\ ContributedLayer(d, dir).types = TRUE
BY DEF ContributedLayer

\* ... determine it among the layers.
LEMMA ContributedEq ==
    ASSUME NEW l \in Layer, NEW d \in Deps, NEW dir \in Store,
           l.meta = [dependency |-> d, certs |-> dir], l.extracted = d,
           l.javaHome = TRUE, l.writable = TRUE, l.keystore = Merge(Base, dir),
           l.types = TRUE
    PROVE  l = ContributedLayer(d, dir)
BY DEF Layer, ContributedLayer

\* A complete contribution is sound.
LEMMA ContributedSound ==
    ASSUME NEW d \in Deps, NEW dir \in Store
    PROVE  Sound(ContributedLayer(d, dir))
BY DEF Sound, ContributedLayer

\* Reusing: a sound layer whose metadata is this build's expected metadata
\* is this build's contribution.
LEMMA ReuseFresh ==
    ASSUME NEW l, NEW d \in Deps, NEW dir \in Store,
           Sound(l), l.meta = NewJDK(d, dir)
    PROVE  l = ContributedLayer(d, dir)
<1>1. NewJDK(d, dir) # NoMeta
  BY SentinelAssumption DEF NewJDK, CertMetadata, Metadata
<1>2. l.meta.dependency = d /\ l.meta.certs = dir
  BY DEF NewJDK, CertMetadata
<1>3. QED
  BY <1>1, <1>2 DEF Sound

THEOREM LayerFreshness == Spec => []IInv
<1>1. Init => IInv
  <2> SUFFICES ASSUME Init PROVE IInv
    OBVIOUS
  <2>1. TypeOK
    BY DepsAssumption DEF Init, TypeOK, EmptyLayer, LayerAt, NoCerts, Layer,
                          Store
  <2>2. Sound(cache) /\ Sound(layer)
    BY NoMetaSound DEF Init, EmptyLayer, LayerAt
  <2>3. QED
    BY <2>1, <2>2 DEF Init, IInv
<1>2. IInv /\ [Next]_vars => IInv'
  <2> SUFFICES ASSUME IInv, [Next]_vars PROVE IInv'
    OBVIOUS
  <2>0. TypeOK'
    BY TypeStep DEF IInv
  <2> USE DEF IInv
  <2>a. /\ NoCerts \in Store
        /\ Base \in Store
        /\ dep \in Deps /\ certDir \in Store /\ layer \in Layer
        /\ dep' \in Deps /\ certDir' \in Store /\ layer' \in Layer
    BY <2>0, BaseAssumption DEF TypeOK, NoCerts, Store
  <2>1. CASE StartBuild
    BY <2>0, <2>1 DEF StartBuild
  <2>2. CASE ReuseLayer
    <3>1. layer = ContributedLayer(dep, certDir)
      BY <2>2, <2>a, ReuseFresh DEF ReuseLayer
    <3>2. layer.types = TRUE
      BY <3>1, ContributedFields
    <3>3. layer' = layer
      BY <2>2, <3>2, <2>a DEF ReuseLayer, Layer
    <3>4. QED
      BY <2>0, <2>2, <3>1, <3>3 DEF ReuseLayer
  <2>3. CASE ResetLayer
    BY <2>0, <2>3, NoMetaSound DEF ResetLayer, EmptyLayer, LayerAt
  <2>4. CASE Expand
    <3>1. CASE pc' = "chmod"
      <4>0. layer = LayerAt(Absent, FALSE, FALSE, NoCerts)
        BY <2>4 DEF Expand, EmptyLayer
      <4>1. /\ layer.meta = NoMeta
            /\ layer.writable = FALSE
            /\ layer.types = FALSE
        BY <4>0 DEF LayerAt
      <4>2. layer' = LayerAt(dep, TRUE, FALSE, Base)
        <5>1. /\ layer'.meta = NoMeta
              /\ layer'.extracted = dep
              /\ layer'.javaHome = TRUE
              /\ layer'.writable = FALSE
              /\ layer'.keystore = Base
              /\ layer'.types = layer.types
          BY <2>4, <3>1, <4>1, <2>a DEF Expand, Layer
        <5>2. QED
          BY <5>1, <4>1, <2>a DEF Layer, LayerAt
      <4>3. QED
        BY <2>0, <2>4, <3>1, <4>2, NoMetaSound DEF Expand, LayerAt
    <3>2. CASE pc' = "failed"
      BY <2>0, <2>4, <3>2 DEF Expand
    <3>3. QED
      BY <2>4, <3>1, <3>2 DEF Expand
  <2>5. CASE ChmodKeyStore
    <3>1. CASE pc' = "load"
      <4>1. /\ layer.meta = NoMeta /\ layer.extracted = dep
            /\ layer.javaHome = TRUE /\ layer.keystore = Base
            /\ layer.types = FALSE
        <5>1. layer = LayerAt(dep, TRUE, FALSE, Base)
          BY <2>5 DEF ChmodKeyStore
        <5>2. QED
          BY <5>1 DEF LayerAt
      <4>2. layer' = LayerAt(dep, TRUE, TRUE, Base)
        <5>1. /\ layer'.meta = NoMeta /\ layer'.extracted = dep
              /\ layer'.javaHome = TRUE /\ layer'.writable = TRUE
              /\ layer'.keystore = Base /\ layer'.types = FALSE
          BY <2>5, <3>1, <4>1, <2>a DEF ChmodKeyStore, Layer
        <5>2. QED
          BY <5>1, <2>a DEF Layer, LayerAt
      <4>3. QED
        BY <2>0, <2>5, <3>1, <4>2, NoMetaSound DEF ChmodKeyStore, LayerAt
    <3>2. CASE pc' = "failed"
      BY <2>0, <2>5, <3>2 DEF ChmodKeyStore
    <3>3. QED
      BY <2>5, <3>1, <3>2 DEF ChmodKeyStore
  <2>6. CASE LoadCertificates
    <3>1. CASE pc' = "finish"
      <4>1. /\ layer.meta = NoMeta /\ layer.extracted = dep
            /\ layer.javaHome = TRUE /\ layer.writable = TRUE
            /\ layer.keystore = Base /\ layer.types = FALSE
        <5>1. layer = LayerAt(dep, TRUE, TRUE, Base)
          BY <2>6 DEF LoadCertificates
        <5>2. QED
          BY <5>1 DEF LayerAt
      <4>2. Merge(Base, certDir) \in Store
        BY <2>a, MergeType
      <4>3. layer' = LayerAt(dep, TRUE, TRUE, Merge(Base, certDir))
        <5>1. /\ layer'.meta = NoMeta /\ layer'.extracted = dep
              /\ layer'.javaHome = TRUE /\ layer'.writable = TRUE
              /\ layer'.keystore = Merge(Base, certDir)
              /\ layer'.types = FALSE
          BY <2>6, <3>1, <4>1, <2>a DEF LoadCertificates, Layer
        <5>2. QED
          BY <5>1, <4>2, <2>a DEF Layer, LayerAt
      <4>4. QED
        BY <2>0, <2>6, <3>1, <4>3, NoMetaSound DEF LoadCertificates, LayerAt
    <3>2. CASE pc' = "failed"
      BY <2>0, <2>6, <3>2 DEF LoadCertificates
    <3>3. QED
      BY <2>6, <3>1, <3>2 DEF LoadCertificates
  <2>7. CASE FinishLayer
    <3>1. /\ layer.meta = NoMeta /\ layer.extracted = dep
          /\ layer.javaHome = TRUE /\ layer.writable = TRUE
          /\ layer.keystore = Merge(Base, certDir) /\ layer.types = FALSE
      <4>1. layer = LayerAt(dep, TRUE, TRUE, Merge(Base, certDir))
        BY <2>7 DEF FinishLayer
      <4>2. QED
        BY <4>1 DEF LayerAt
    <3>2. expected = [dependency |-> dep, certs |-> certDir]
      BY <2>7 DEF FinishLayer, NewJDK, CertMetadata
    <3>3. layer' = ContributedLayer(dep, certDir)
      <4>1. /\ layer'.meta = [dependency |-> dep, certs |-> certDir]
            /\ layer'.extracted = dep
            /\ layer'.javaHome = TRUE /\ layer'.writable = TRUE
            /\ layer'.keystore = Merge(Base, certDir)
            /\ layer'.types = TRUE
        BY <2>7, <3>1, <3>2, <2>a DEF FinishLayer, Layer
      <4>2. QED
        BY <4>1, <2>a, ContributedEq
    <3>4. QED
      BY <2>0, <2>7, <3>3, <2>a, ContributedSound DEF FinishLayer
  <2>8. CASE EndBuild
    BY <2>0, <2>8 DEF EndBuild
  <2>9. CASE ChangeCertificates
    BY <2>0, <2>9 DEF ChangeCertificates
  <2>10. CASE ClearCache
    BY <2>0, <2>10, NoMetaSound DEF ClearCache, EmptyLayer, LayerAt
  <2>11. CASE UNCHANGED vars
    BY <2>0, <2>11 DEF vars
  <2>12. QED
    BY <2>1, <2>2, <2>3, <2>4, <2>5, <2>6, <2>7, <2>8, <2>9, <2>10, <2>11
       DEF Next
<1>3. QED
  BY <1>1, <1>2, PTL DEF Spec

\* A successful build, whether it reused the cached layer or rebuilt it,
\* hands on the layer of its own dependency and certificate directories.
THEOREM SuccessIsFreshTheorem == Spec => []SuccessIsFresh
BY LayerFreshness, PTL DEF IInv, SuccessIsFresh

\* No failed build leaves the cache with a layer whose metadata a later
\* build would trust but whose contents are incomplete.
THEOREM CacheSoundTheorem == Spec => []CacheSound
BY LayerFreshness, PTL DEF IInv, CacheSound

-----------------------------------------------------------------------------
(***************************************************************************)
(* Alias clashes across builds.  A build that reuses its layer never runs  *)
(* Load, so SuccessHasNoAliasClash cannot follow from that build's steps.  *)
(* The strengthening carries the fact in the layers themselves: a layer    *)
(* with metadata was made by a build whose Load found no clash with those  *)
(* certificates, and after a successful Load the current certificates do  *)
(* not clash.                                                              *)
(***************************************************************************)
NoClash(l) == l.meta # NoMeta => ~Conflict(Base, l.meta.certs)

ClashFree ==
    /\ NoClash(layer)
    /\ NoClash(cache)
    /\ pc = "finish" => ~Conflict(Base, certDir)

LEMMA ClashStep == IInv /\ ClashFree /\ [Next]_vars => ClashFree'
<1> SUFFICES ASSUME IInv, ClashFree, [Next]_vars PROVE ClashFree'
  OBVIOUS
<1>a. layer \in Layer
  BY DEF IInv, TypeOK
<1>1. CASE StartBuild
  BY <1>1 DEF StartBuild, ClashFree, NoClash
<1>2. CASE ReuseLayer
  <2>1. layer'.meta = layer.meta
    BY <1>2, <1>a DEF ReuseLayer, Layer
  <2>2. QED
    BY <1>2, <2>1 DEF ReuseLayer, ClashFree, NoClash
<1>3. CASE ResetLayer
  BY <1>3 DEF ResetLayer, ClashFree, NoClash, EmptyLayer, LayerAt
<1>4. CASE Expand
  <2>1. layer'.meta = layer.meta /\ pc' # "finish"
    BY <1>4, <1>a DEF Expand, Layer
  <2>2. QED
    BY <1>4, <2>1 DEF Expand, ClashFree, NoClash
<1>5. CASE ChmodKeyStore
  <2>1. layer'.meta = layer.meta /\ pc' # "finish"
    BY <1>5, <1>a DEF ChmodKeyStore, Layer
  <2>2. QED
    BY <1>5, <2>1 DEF ChmodKeyStore, ClashFree, NoClash
<1>6. CASE LoadCertificates
  <2>1. layer'.meta = layer.meta
    BY <1>6, <1>a DEF LoadCertificates, Layer
  <2>2. layer.keystore = Base
    BY <1>6 DEF LoadCertificates, IInv, LayerAt
  <2>3. pc' = "finish" => ~Conflict(Base, certDir)
    BY <1>6, <2>2 DEF LoadCertificates
  <2>4. QED
    BY <1>6, <2>1, <2>3 DEF LoadCertificates, ClashFree, NoClash
<1>7. CASE FinishLayer
  <2>1. layer'.meta = expected
    BY <1>7, <1>a DEF FinishLayer, Layer
  <2>2. expected.certs = certDir
    BY <1>7 DEF FinishLayer, IInv, NewJDK, CertMetadata
  <2>3. QED
    BY <1>7, <2>1, <2>2 DEF FinishLayer, ClashFree, NoClash
<1>8. CASE EndBuild
  BY <1>8 DEF EndBuild, ClashFree, NoClash
<1>9. CASE ChangeCertificates
  BY <1>9 DEF ChangeCertificates, ClashFree, NoClash
<1>10. CASE ClearCache
  BY <1>10 DEF ClearCache, ClashFree, NoClash, EmptyLayer, LayerAt
<1>11. CASE UNCHANGED vars
  BY <1>11 DEF vars, ClashFree, NoClash
<1>12. QED
  BY <1>1, <1>2, <1>3, <1>4, <1>5, <1>6, <1>7, <1>8, <1>9, <1>10, <1>11
     DEF Next

\* A successful build, by reuse or by contribution, is one whose configured
\* certificates clash with no alias of the JDK's own cacerts, although a
\* reusing build never runs CertificateLoader.Load itself.
THEOREM NoAliasClashTheorem == Spec => []SuccessHasNoAliasClash
<1>1. Init => ClashFree
  BY DEF Init, ClashFree, NoClash, EmptyLayer, LayerAt
<1>2. IInv /\ ClashFree => SuccessHasNoAliasClash
  <2> SUFFICES ASSUME IInv, ClashFree, pc = "done"
               PROVE  ~Conflict(Base, certDir)
    BY DEF SuccessHasNoAliasClash
  <2>0. layer = ContributedLayer(dep, certDir)
    BY DEF IInv
  <2>1. layer.meta = [dependency |-> dep, certs |-> certDir]
    BY <2>0 DEF ContributedLayer
  <2>2. layer.meta # NoMeta
    BY <2>1, SentinelAssumption DEF IInv, TypeOK, Metadata
  <2>3. QED
    BY <2>1, <2>2 DEF ClashFree, NoClash
<1>3. QED
  BY <1>1, <1>2, ClashStep, LayerFreshness, PTL DEF Spec

=============================================================================
