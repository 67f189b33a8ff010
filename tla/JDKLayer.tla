------------------------------ MODULE JDKLayer ------------------------------
(***************************************************************************)
(* The JDK layer of jvm-vendors (src/jdk.go) across a sequence of builds.  *)
(*                                                                         *)
(* A build constructs the contributor (NewJDK), which fingerprints the     *)
(* resolved dependency and the certificate directories into the layer's    *)
(* expected metadata.  The layer restored from the cache is reused when    *)
(* its metadata equals the expected one; otherwise it is reset and the     *)
(* callback of JDK.Contribute expands the archive, sets JAVA_HOME and      *)
(* JDK_HOME, makes the trust-store writable at the path the version        *)
(* selects and merges the configured certificates into it.  Only after the *)
(* callback returns is the metadata written.  The build outcome is then    *)
(* persisted: a successful layer is cached, a failed build may leave its   *)
(* partial layer behind (spec section 5: non-transactional).               *)
(*                                                                         *)
(* Between builds the certificate directories may change and the cache may *)
(* be cleared.  Data is abstracted: a dependency is its version and the    *)
(* layout of its archive, a certificate file is a model value whose name   *)
(* is its alias, and a trust-store maps those aliases to contents.         *)
(***************************************************************************)
EXTENDS Naturals

CONSTANTS
    Deps,        \* catalog entries a build may resolve as its JDK
    Files,       \* certificate file names; a file's alias is its name
    Contents,    \* certificate contents
    Base,        \* the aliases the archive's own cacerts holds
    Absent,      \* no file / no alias
    NoMeta,      \* a layer without metadata
    Unparsable   \* a version string whose major number does not parse

\* A dependency: its version's major number (or Unparsable) and whether its
\* archive keeps the trust-store under jre/ (the pre-Java-9 layout).
Dependency == [version : Nat \cup {Unparsable}, legacy : BOOLEAN]

\* Contents of a certificate directory, and of a trust-store, by alias.
Store == [Files -> Contents \cup {Absent}]

ASSUME DepsAssumption == Deps \subseteq Dependency /\ Deps # {}
ASSUME BaseAssumption == Base \in Store

\* The metadata a layer may carry: a dependency and a certificate fingerprint.
Metadata == [dependency : Deps, certs : Store]

ASSUME SentinelAssumption ==
    /\ Absent \notin Contents
    /\ Absent \notin Deps
    /\ NoMeta \notin Metadata
    /\ Unparsable \notin Nat

VARIABLES
    certDir,   \* the configured certificate directories (environment)
    dep,       \* the dependency resolved by the current build
    expected,  \* the contributor's ExpectedMetadata
    layer,     \* the layer directory and metadata of the current build
    cache,     \* the layer as the next build restores it
    pc         \* where the current build is

vars == <<certDir, dep, expected, layer, cache, pc>>

(***************************************************************************)
(* VersionPolicy (versions.go, from the spec): a version is before Java 9  *)
(* when its leading number parses and is below 9; unparsable is modern.    *)
(***************************************************************************)
IsBeforeJava9(v) == v # Unparsable /\ v < 9

(***************************************************************************)
(* CertificateLoader (certificate_loader.go, from the spec).  Metadata     *)
(* fingerprints the directories so that adding, removing or changing a     *)
(* certificate changes it.  Load adds each certificate under its alias;    *)
(* an alias already present with other contents is an error.               *)
(***************************************************************************)
CertMetadata(dir) == dir

Conflict(ks, dir) ==
    \E f \in Files : dir[f] # Absent /\ ks[f] # Absent /\ ks[f] # dir[f]

Merge(ks, dir) == [f \in Files |-> IF dir[f] = Absent THEN ks[f] ELSE dir[f]]

Layer == [meta : Metadata \cup {NoMeta},
          extracted : Deps \cup {Absent},
          javaHome : BOOLEAN,
          writable : BOOLEAN,
          keystore : Store,
          types : BOOLEAN]

\* A trust-store, or a certificate directory, without any of the aliases.
NoCerts == [f \in Files |-> Absent]

\* A layer directory without metadata: what the archive x, JAVA_HOME (j),
\* the writable bit (w) and the trust-store k written so far make of it.
LayerAt(x, j, w, k) ==
    [meta |-> NoMeta, extracted |-> x, javaHome |-> j, writable |-> w,
     keystore |-> k, types |-> FALSE]

\* A layer directory right after libcnb's Layer.Reset (and before any build).
EmptyLayer == LayerAt(Absent, FALSE, FALSE, NoCerts)

\* Mutant: NewJDK forgets to merge the certificate loader's metadata.
NewJDKWithoutCertMetadata(d, dir) ==
    [dependency |-> d, certs |-> NoCerts]

\* NewJDK: the expected metadata is the dependency plus the certificate
\* loader's metadata entries.
NewJDK(d, dir) == [dependency |-> d, certs |-> CertMetadata(dir)]

\* The layer a complete contribution of dependency d with the certificate
\* directories dir produces, metadata included.
ContributedLayer(d, dir) ==
    [meta |-> [dependency |-> d, certs |-> dir], extracted |-> d,
     javaHome |-> TRUE, writable |-> TRUE, keystore |-> Merge(Base, dir),
     types |-> TRUE]

-----------------------------------------------------------------------------
Init ==
    /\ certDir \in Store
    /\ dep \in Deps
    /\ expected = NoMeta
    /\ layer = EmptyLayer
    /\ cache = EmptyLayer
    /\ pc = "idle"

\* A build starts: resolve a dependency, restore the cached layer and build
\* the contributor.  CertificateLoader.Metadata can fail (unreadable
\* directory), and NewJDK then returns its error.
StartBuild ==
    /\ pc = "idle"
    /\ \E d \in Deps :
         /\ dep' = d
         /\ layer' = cache
         /\ \/ /\ expected' = NewJDK(d, certDir)
               /\ pc' = "check"
            \/ /\ pc' = "failed"
               /\ UNCHANGED expected
    /\ UNCHANGED <<certDir, cache>>

\* LayerContributor.Contribute: the restored metadata matches, so the
\* cached layer is used as it is.
ReuseLayer ==
    /\ pc = "check"
    /\ layer.meta = expected
    /\ layer' = [layer EXCEPT !.types = TRUE]
    /\ pc' = "done"
    /\ UNCHANGED <<certDir, dep, expected, cache>>

\* Mutant: the expected metadata is written when the layer is reset, before
\* the callback has run.
ResetLayerWritingMetadata ==
    /\ pc = "check"
    /\ layer.meta # expected
    /\ layer' = [EmptyLayer EXCEPT !.meta = expected]
    /\ pc' = "expand"
    /\ UNCHANGED <<certDir, dep, expected, cache>>

\* LayerContributor.Contribute: the metadata differs, so the layer is reset
\* (directory removed, metadata cleared) and the callback runs.
ResetLayer ==
    /\ pc = "check"
    /\ layer.meta # expected
    /\ layer' = EmptyLayer
    /\ pc' = "expand"
    /\ UNCHANGED <<certDir, dep, expected, cache>>

\* crush.Extract, then JAVA_HOME and JDK_HOME overridden in the build
\* environment.  A failed extraction returns "unable to expand JDK".
Expand ==
    /\ pc = "expand"
    /\ \/ /\ layer' = [layer EXCEPT !.extracted = dep, !.keystore = Base,
                                    !.javaHome = TRUE]
          /\ pc' = "chmod"
       \/ /\ pc' = "failed"
          /\ UNCHANGED layer
    /\ UNCHANGED <<certDir, dep, expected, cache>>

\* Mutant: the error of os.Chmod is dropped and the callback goes on.
ChmodKeyStoreIgnoringError ==
    /\ pc = "chmod"
    /\ IF IsBeforeJava9(dep.version) = dep.legacy
         THEN layer' = [layer EXCEPT !.writable = TRUE]
         ELSE UNCHANGED layer
    /\ pc' = "load"
    /\ UNCHANGED <<certDir, dep, expected, cache>>

\* The keystore path is chosen by IsBeforeJava9(version); os.Chmod fails
\* when the archive keeps its cacerts elsewhere, and may fail on an I/O
\* error at either path; its error is "unable to set keystore file
\* permissions".
ChmodKeyStore ==
    /\ pc = "chmod"
    /\ \/ /\ IsBeforeJava9(dep.version) = dep.legacy
          /\ layer' = [layer EXCEPT !.writable = TRUE]
          /\ pc' = "load"
       \/ /\ pc' = "failed"
          /\ UNCHANGED layer
    /\ UNCHANGED <<certDir, dep, expected, cache>>

\* Mutant: the error of CertificateLoader.Load is dropped.  Load rejects a
\* clashing alias before it writes, so the trust-store keeps the JDK's
\* entry and the callback goes on as if the certificates were in.
LoadCertificatesIgnoringError ==
    /\ pc = "load"
    /\ layer' = IF Conflict(layer.keystore, certDir) THEN layer
                ELSE [layer EXCEPT !.keystore = Merge(layer.keystore, certDir)]
    /\ pc' = "finish"
    /\ UNCHANGED <<certDir, dep, expected, cache>>

\* CertificateLoader.Load(keyStorePath, "changeit"): a conflicting alias or
\* an I/O error returns "unable to load certificates".
LoadCertificates ==
    /\ pc = "load"
    /\ \/ /\ ~Conflict(layer.keystore, certDir)
          /\ layer' = [layer EXCEPT !.keystore = Merge(layer.keystore, certDir)]
          /\ pc' = "finish"
       \/ /\ pc' = "failed"
          /\ UNCHANGED layer
    /\ UNCHANGED <<certDir, dep, expected, cache>>

\* The callback returned nil: metadata and layer types are written.
FinishLayer ==
    /\ pc = "finish"
    /\ layer' = [layer EXCEPT !.meta = expected, !.types = TRUE]
    /\ pc' = "done"
    /\ UNCHANGED <<certDir, dep, expected, cache>>

\* The build ends.  A successful layer is what the next build restores; a
\* failed build either leaves the previous cache or its partial layer.
EndBuild ==
    /\ pc \in {"done", "failed"}
    /\ IF pc = "done" THEN cache' = layer ELSE cache' \in {cache, layer}
    /\ pc' = "idle"
    /\ UNCHANGED <<certDir, dep, expected, layer>>

\* Between builds an operator adds, removes or edits certificates.
ChangeCertificates ==
    /\ pc = "idle"
    /\ certDir' \in Store \ {certDir}
    /\ UNCHANGED <<dep, expected, layer, cache, pc>>

\* Between builds the platform drops the cache.
ClearCache ==
    /\ pc = "idle"
    /\ cache' = EmptyLayer
    /\ UNCHANGED <<certDir, dep, expected, layer, pc>>

Next ==
    \/ StartBuild
    \/ ReuseLayer
    \/ ResetLayer
    \/ Expand
    \/ ChmodKeyStore
    \/ LoadCertificates
    \/ FinishLayer
    \/ EndBuild
    \/ ChangeCertificates
    \/ ClearCache

Spec == Init /\ [][Next]_vars

-----------------------------------------------------------------------------
\* Every variable holds a value of its kind.
TypeOK ==
    /\ certDir \in Store
    /\ dep \in Deps
    /\ expected \in Metadata \cup {NoMeta}
    /\ layer \in Layer
    /\ cache \in Layer
    /\ pc \in {"idle", "check", "expand", "chmod", "load", "finish",
               "done", "failed"}

\* A cached layer that carries metadata holds exactly what a complete
\* contribution for that metadata produces: a build that failed half-way
\* through JDK.Contribute never leaves a layer a later build would reuse.
Sound(l) ==
    l.meta # NoMeta => l = ContributedLayer(l.meta.dependency, l.meta.certs)

CacheSound == Sound(cache)

\* When a build succeeds, whether by reusing the cached layer or by
\* contributing it, the JDK layer it hands on is the one this build's
\* dependency and this build's certificate directories call for.
SuccessIsFresh ==
    pc = "done" => layer = ContributedLayer(dep, certDir)

(***************************************************************************)
(* The strengthening of CacheSound and SuccessIsFresh that every step      *)
(* preserves: the working layer is sound too, and at each point of the     *)
(* callback it holds exactly what the steps before that point wrote.       *)
(***************************************************************************)
IInv ==
    /\ TypeOK
    /\ Sound(cache)
    /\ Sound(layer)
    /\ pc \in {"check", "expand", "chmod", "load", "finish", "done"} =>
          expected = NewJDK(dep, certDir)
    /\ pc = "expand" => layer = EmptyLayer
    /\ pc = "chmod" => layer = LayerAt(dep, TRUE, FALSE, Base)
    /\ pc = "load" => layer = LayerAt(dep, TRUE, TRUE, Base)
    /\ pc = "finish" => layer = LayerAt(dep, TRUE, TRUE, Merge(Base, certDir))
    /\ pc = "done" => layer = ContributedLayer(dep, certDir)

\* A failed build (NewJDK's certificate error, or an error return of the
\* callback at extraction, chmod or Load) hands the lifecycle cache either
\* what it held or a layer without metadata: it never gives the cache
\* metadata of its own that a later build would trust.
FailedBuildKeepsCache ==
    [][pc = "failed" /\ pc' = "idle" => cache'.meta \in {cache.meta, NoMeta}]_vars

\* A successful build, including one that reused the cached layer and never
\* ran CertificateLoader.Load (jdk.go:82), is one whose configured
\* certificates clash with no alias of the JDK's own cacerts: the reused
\* layer's metadata ties it to an earlier build that ran Load on these very
\* certificates.
SuccessHasNoAliasClash == pc = "done" => ~Conflict(Base, certDir)

-----------------------------------------------------------------------------
(***************************************************************************)
(* Refinement mapping onto JDKCache.  The abstract cache holds the         *)
(* metadata of the cached layer; a build is running from the reuse check   *)
(* to the end of the callback; what it hands on is the metadata of its     *)
(* layer once it is done.                                                  *)
(***************************************************************************)
Status == IF pc \in {"idle", "done", "failed"} THEN pc ELSE "running"

Handed == IF pc = "done" THEN layer.meta ELSE NoMeta

Abstract == INSTANCE JDKCache
                WITH CertSets <- Store, None <- NoMeta, cached <- cache.meta,
                     handed <- Handed, status <- Status

\* The JDK layer, with its libpak check, callback steps, partial layers and
\* lifecycle cache, implements the promise of JDKCache: every build ends
\* in failure or hands on the contribution of its own dependency and the
\* current certificate directories, and the cache only ever holds what a
\* successful build handed on, or nothing.
ImplementsJDKCache == Abstract!Spec

=============================================================================
