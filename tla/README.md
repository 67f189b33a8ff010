# TLA+ models of jvm-vendors

This directory holds TLA+ specifications of the jvm-vendors buildpack, with TLC
configurations and TLAPS proofs. The code they model is `src/detect.go`,
`src/internal/vendors.go` and `src/jdk.go`. The collaborators that code calls
are not under `src/`: the certificate loader, the version policy, libpak's
layer contributor and configuration resolver, and the lifecycle's layer
cache. They are modelled from `spec.md`, and marked `spec_modelled` in
`PROJECT.json`.

## 1. The system

- **Detect** (`detect.go`) runs once per build in the detect phase.
  1. It builds the configuration resolver from the buildpack metadata.
  2. It loads the vendor list from `BP_JVM_VENDORS` via `internal.LoadJvmVendors`.
  3. It resolves `BP_JVM_VENDOR`.
  4. It then returns one of three outcomes:
     - an error;
     - "skip", when a vendor is requested that the list does not contain;
     - "pass", with five fixed build-plan alternatives.
- **LoadJvmVendors** (`vendors.go`) fails on an empty value. Otherwise it
  splits on `,`, trims each piece and drops empty pieces, keeping the order.
- **The JDK contributor** (`jdk.go`).
  - `NewJDK` builds the layer's expected metadata: the dependency plus the
    certificate loader's fingerprint of the certificate directories. It fails
    if the fingerprint cannot be computed.
  - `Contribute` hands libpak a callback. libpak compares the metadata of the
    restored layer with the expected metadata. If they are equal, it reuses
    the layer. If not, it resets the layer and runs the callback, which:
    1. extracts the archive;
    2. overrides `JAVA_HOME` and `JDK_HOME`;
    3. picks the trust-store path by `IsBeforeJava9(version)` and chmods it;
    4. merges the configured certificates into it.

    Only when the callback succeeds does libpak write the metadata.
  - The lifecycle then caches the layer for the next build. Spec §5 says
    contribution is non-transactional, so a failed build may leave a partial
    layer behind.

**How the parts interact.**
- Across builds, the layer restored from the cache links one build to the
  next. The expected metadata is the only thing that decides whether the
  restored layer can be trusted.
- Between builds, an operator may add, remove or change certificates, and the
  platform may drop the cache.

## 2. Modules

| Module | Models | State | Actions |
|---|---|---|---|
| `JDKLayer` | `jdk.go` across a sequence of builds, with the certificate loader, version policy, libpak check/reset and the layer cache | `certDir`, `dep`, `expected`, `layer`, `cache`, `pc` | `StartBuild` (resolve, restore, `NewJDK`), `ReuseLayer`, `ResetLayer`, `Expand` (65-70), `ChmodKeyStore` (72-80: fails when the path `IsBeforeJava9` picks is not where the archive keeps cacerts, or on an I/O error), `LoadCertificates` (82-84), `FinishLayer` (85-87 plus the metadata write), `EndBuild`, and the environment steps `ChangeCertificates` and `ClearCache` |
| `JDKCache` | the abstract promise of the JDK layer across builds: a build fails or hands on the contribution of its own dependency and current certificates; the cache holds what a success handed on, what it held, or nothing | `certDir`, `dep`, `cached`, `handed`, `status` | `Begin`, `Succeed`, `Fail`, `End`, `ChangeCertificates`, `ClearCache` |
| `MCJDKLayer` | TLC instance: four dependencies (8 with the legacy layout, 9 and 11 with the modern one, an unparsable version with the legacy layout), two certificate files, two contents, an archive trust-store holding one alias | | |
| `JDKLayerProofs` | TLAPS proofs about `JDKLayer` | | |
| `JDKCacheRefinement` | TLAPS proof that `JDKLayer` implements `JDKCache` | | |
| `Detect` | `detect.go` and `vendors.go` | `env`, `defaults`, `mdOk`, `jvmVendorsRaw`, `next` (pieces consumed), `jvmVendors`, `pc`, `result` | `NewConfigurationResolver` (detect.go:37-48), `LoadJvmVendors` (vendors.go:10-16: resolve, reject `""`), `LoadJvmVendor` (one iteration of the loop at vendors.go:17-22), `CheckJvmVendor` (detect.go:50-101, once the loop is over) |
| `DetectProofs` | TLAPS proofs about `Detect` | | |
| `MCDetect` | TLC instance: one vendor, strings of up to two comma pieces | | |

**How the data is abstracted.**
- **Strings.** A configuration string is the sequence of the pieces that
  `strings.Split(s, ",")` returns. Each piece is a vendor name or nothing, with
  or without surrounding blanks. `""` is the single empty piece, as Go returns
  it.
- **The vendor loop.** The loop of `LoadJvmVendors` takes one step per
  piece, with `next` counting the pieces consumed. Detect is a single
  goroutine, so the steps do not interleave with anything; they follow one
  another until `CheckJvmVendor` sees `next = Len(jvmVendorsRaw)`.
- **The vendor reference.** `TokensOf(v, s, n)` says that `v` is the trimmed,
  non-empty tokens of the first `n` pieces of `s`, in order. It asks for a
  strictly increasing map `g` from the entries of `v` to the pieces, such
  that each picked piece is non-empty and gives its entry, and every
  non-empty piece is picked. Such a `g` exists for exactly one `v`. The
  definition is declarative and independent of the loop.
- **Dependencies.** A dependency is its parsed major version (or
  `Unparsable`) and whether its archive uses the pre-9 `jre/` layout. A
  mismatch between the two is the case where chmod fails.
- **Certificates.** A certificate directory, and a trust-store, map aliases
  (file names) to contents. The fingerprint is the directory itself, since
  spec §4.5 requires it to change whenever a certificate is added, removed or
  changed.
- **Merge.** Merging adds each certificate under its alias. An alias that is
  present with different contents is an error.

## 3. Runs

| Run | Checks | Shows |
|---|---|---|
| `jdk_layer` (pass, 127,881 states, depth 17) | `CacheSound`, `SuccessIsFresh`, `SuccessHasNoAliasClash`, `FailedBuildKeepsCache` | Builds may fail at any step, leave their partial layer, change certificates or clear the cache, in any order. Through all of that: a layer with metadata is a complete contribution; a successful build hands on the layer of its own dependency and current certificates; a successful build has certificates that clash with no JDK alias, even when it reused its layer and never ran `Load`; a failed build hands the cache what it held or a layer without metadata. |
| `jdk_layer_refinement` (pass, 127,881 states) | `ImplementsJDKCache` | Every behaviour of `JDKLayer` is a behaviour of `JDKCache` under the refinement mapping (below). |
| `detect_vendors` (pass, 1,496,313 states) | `VendorsFollowConfig`, `SelectionHonoured` | For every environment value and default, Detect works with exactly the trimmed, non-empty tokens, in order, of the value the resolver picks (the reference `TokensOf`, independent of the loop). With no `BP_JVM_VENDOR` Detect passes. A selection written exactly as a name passes exactly when the name is one of those tokens, however the list is padded or separated. A padded selection is left open, because the spec does not say whether it is trimmed; the code skips it. |
| `detect_empty_vendors` (violation) | `LoadedVendorsNonEmpty` | `BP_JVM_VENDORS=" "` (or `","`) loads as an empty list without error, and Detect passes. Spec §4.2 and §8 require a failure. This is the finding in `PROJECT.json`. |

Each property has a mutant in `PROJECT.json`: a plausible bug in the modelled
code that TLC catches under the run's own configuration.

| Mutant | Property that catches it |
|---|---|
| The chmod error is dropped | `CacheSound` |
| `NewJDK` without the certificate fingerprint | `SuccessIsFresh` |
| Empty pieces kept | `VendorsFollowConfig` |
| `NewJDK` without the certificate fingerprint | `ImplementsJDKCache` |
| `slices.Contains` stops one short of the end | `SelectionHonoured` |
| The `Load` error is dropped: the clashing alias stays and the callback goes on | `SuccessHasNoAliasClash` |
| Metadata written at the reset, before the callback | `FailedBuildKeepsCache` |

**Why these bounds.**
- Two certificate files with two contents are enough for an addition, a
  removal, a change of contents and an alias clash with the archive's
  trust-store.
- The four dependencies cover both sides of the 8/9 boundary (8 and 9), a
  later release, an unparsable version and a layout mismatch.
- The state graph is exhausted at depth 17, which covers several complete
  builds in a row, each possibly failed.
- For Detect, two pieces give a lone separator (`","`), padding, and empty
  pieces before and after a name.

**No fairness, no liveness property.** Each build's callback is
straight-line code: there is no retry, loop or wait (jdk.go:63-86), so a
started build ends after a fixed number of steps. A liveness property would
hold by the shape of the model and show nothing about the code, so none is
checked.

Detect runs once, so its runs disable the deadlock check. The layer model
never stops, because a new build can always start.

**Refinement mapping** (`JDKLayer`, onto `JDKCache`):
- `cached` is `cache.meta`, and `None` is `NoMeta`.
- `status` is `pc` at `idle`, `done` and `failed`, and `running` anywhere
  else.
- `handed` is `layer.meta` once the build is done, and `None` before that.
- The reset and each successful callback step are stutters.
- A reuse and the metadata write are `Succeed`.
- Each error return is `Fail`.

## 4. Proofs (`JDKLayerProofs`, `JDKCache`, `JDKCacheRefinement`, `DetectProofs`, checked by `tlapm`)

The proofs assume `DepsAssumption`, `BaseAssumption` and `SentinelAssumption`:
the catalog is a non-empty set of dependencies, the archive trust-store is a
store, and the sentinels are distinct from real values. They hold for every
catalog, every certificate set and every archive trust-store.

- `TypeCorrect`: `Spec => []TypeOK`.
- `LayerFreshness`: `Spec => []IInv`. `IInv` is the inductive strengthening.
  - Both the cached and the working layer are `Sound`.
  - While a build runs, `expected = NewJDK(dep, certDir)`.
  - At each point of the callback, the working layer holds exactly what the
    preceding steps wrote: empty after the reset; extracted with the archive's
    trust-store; writable; merged; and finally the full contribution.

  `CacheSound` alone is not inductive. A build that caches its layer needs
  to know that the layer is complete, which depends on where the callback
  was. That is why `IInv` tracks the working layer step by step.
- `CacheSoundTheorem` and `SuccessIsFreshTheorem` follow from `IInv`.
- `Refinement` (in `JDKCacheRefinement`) proves
  `Spec => ImplementsJDKCache`. `JDKLayer`'s initial states map to
  `JDKCache`'s, and each step maps to an abstract step or a stutter. The
  argument is the one in the mapping above. It needs `IInv`: at
  `check`/`finish` the expected metadata is this build's
  `Contribution(dep, certDir)`. It also needs one more invariant,
  `FailedKeeps`: a failed build's layer is either the restored cache or has
  no metadata. With `FailedKeeps`, a failed hand-over leaves the abstract
  cache as it was or empty.
- `FailedKeepsInvariant` proves `Spec => [](IInv /\ FailedKeeps)`.
  `FailedBuildTheorem` derives the action property `FailedBuildKeepsCache`
  from it. A failed build reaches `idle` only through `EndBuild`, which
  caches the old cache or the failed layer.
- `NoAliasClashTheorem` proves `Spec => []SuccessHasNoAliasClash`. The
  invariant is not inductive, even with `IInv`, because a build that reuses
  its layer never runs `Load`. The strengthening `ClashFree` carries the
  fact inside the layers:
  - every layer with metadata has certificates that do not clash with
    `Base`;
  - after a successful `Load`, the current certificates do not clash.

  A reused layer's metadata is this build's `NewJDK`, so its certificates
  are the current ones. TLC checked `IInv /\ ClashFree` on the instance
  before it was proved.
- **Abstract and refined.** `JDKCache` proves two facts about itself, from
  its own definitions alone:
  - `HandedFreshTheorem`: a done build hands on the contribution of its
    inputs, and otherwise nothing;
  - the lemma `CacheRecordsSuccessTheorem`: the cache changes only to what
    was just handed on, or to nothing.

  `HandedFreshRefined` and `CacheRecordsSuccessRefined` carry both over to
  `JDKLayer` through `Refinement`, with no further reasoning about the
  layer's steps. In `JDKLayer`'s terms, the cached layer's metadata changes
  only to the metadata of the build that has just succeeded, or to none.

The lemmas work field by field. `LayerAt` and `ContributedLayer` are compared
with a layer by its six fields (`ContributedFields` and `ContributedEq`). This
works around the SMT backend's lack of support for `EXCEPT` on record
literals that have Boolean fields.

**Detect** (`DetectProofs`, from `DetectAssumption`: `NoName` is not a
vendor, and the piece bound is a positive natural). The results hold for
every set of vendor names and every number of pieces.
- `TypeCorrect`: `Spec => []TypeOK`.
- `DetectInvariant`: `Spec => []IInv`. `IInv` is the loop invariant of
  `LoadJvmVendors`. While the loop runs, and once Detect has decided on a
  loaded list, the list is `TokensOf` the first `next` pieces of the resolved
  `BP_JVM_VENDORS`. Once decided, every piece is consumed, and the result is
  "pass" exactly when there is no selection or `Contains` finds it. Neither
  property is inductive on its own, because both speak only of the end of
  the loop.
- The lemmas `TokensEmpty`, `TokensSkip` and `TokensAppend` give what one
  iteration does to the reference:
  - an empty piece keeps the same `g`;
  - an appended piece extends `g` with the new piece.

  `TokensMember` turns `TokensOf` into membership: a name is in the list
  exactly when some piece trims to it.
- `VendorsTheorem` proves `Spec => []VendorsFollowConfig`, and
  `SelectionTheorem` proves `Spec => []SelectionHonoured`. A selection
  written as exactly one name differs from `""`, so the decision is
  `Contains`. By `TokensMember`, that is membership among the pieces.

The loop is modelled as steps and the reference as a map of indices.
Neither needs induction over data, which this TLAPS installation cannot do
(below). An earlier form of the model computed the list in one step with
`SelectSeq` and compared it with a recursive reference. That was as
faithful, but it was provable only by such induction.

**Checked only by TLC.**
- The runs on the small instances, which also catch the mutants.
- Nothing recursive is proved. Unfolding a recursive function, or arguing
  by induction on a length, needs `RecursiveFcnOfNat`, `NatInduction` or
  `SmallestNatural`. All three take an operator parameter, which no
  installed prover instantiates, and the backends know no facts about
  `SelectSeq`. The Detect proofs above avoid both.

## 5. Not modelled, and the plan

- **DependencyResolver, BuildPlanner (`build.go`), the JRE and NIK
  contributors, the SDKMAN parser, JVM heap-dump options.** None of these
  has code under `src/`; spec §4.3, §4.6, §4.4, §4.2 and §6 describe them.
  Planned modules:
  - `BuildPlanner`: the decision table of §4.6 as an ordered contributor
    list, checked against the examples of §8;
  - `JRELayer`: the JDK layer plus launch environment and helpers;
  - `SDKMAN`: a pure parser checked against §8's examples;
  - a composition of Detect and the build.
- **Liveness.** A build whose collaborators do not fail eventually
  succeeds. This would need fairness on the collaborators' outcomes, which
  the code does not control. Termination holds by the shape of the callback
  (see "No fairness" above).
- **Version parsing.** The version policy is not under `src/`. The model
  takes the major version as already parsed, or `Unparsable`. So the risk
  at jdk.go:73, a version string misread at the 8/9 boundary, is listed as a
  hazard that no property covers.
- **Out of scope (spec §1):** downloads, checksum verification, extraction
  mechanics, Dockerfile generation and entrypoints. Logging and message text
  are left out everywhere.
