------------------------------- MODULE Detect -------------------------------
(***************************************************************************)
(* The detect phase of jvm-vendors (src/detect.go) and the vendor list it  *)
(* loads (src/internal/vendors.go).                                        *)
(*                                                                         *)
(* A configuration value is a string.  Only its comma structure and the    *)
(* whitespace around each piece matter to this code, so a string is the   *)
(* sequence of the pieces strings.Split(s, ",") returns, each piece a      *)
(* vendor name (or no name) with or without surrounding blanks.  The empty *)
(* string is the one-piece sequence of an empty piece, as strings.Split    *)
(* returns it.                                                             *)
(*                                                                         *)
(* Detect is one goroutine; its steps follow the code in order, and the    *)
(* loop of LoadJvmVendors takes one step per piece.                        *)
(***************************************************************************)
EXTENDS Naturals, Sequences

CONSTANTS
    Vendors,    \* vendor names, e.g. "corretto", "graalvm"
    NoName,     \* the piece between two commas, or the whole empty string
    Unset,      \* an environment variable that is not set / no default
    MaxPieces   \* bound on the number of comma-separated pieces

ASSUME DetectAssumption ==
    /\ NoName \notin Vendors
    /\ MaxPieces \in Nat \ {0}

Piece == [name : Vendors \cup {NoName}, padded : BOOLEAN]

\* Strings of at most n pieces.
Strings(n) == UNION {[1..k -> Piece] : k \in 1..n}

EmptyString == <<[name |-> NoName, padded |-> FALSE]>>

\* strings.TrimSpace of one piece: its name, or "" for NoName.
TrimSpace(p) == p.name

\* The names Detect and Build resolve.
ConfigNames == {"BP_JVM_VENDORS", "BP_JVM_VENDOR"}

VARIABLES
    env,        \* the process environment, restricted to ConfigNames
    defaults,   \* the configuration defaults of buildpack.toml
    mdOk,       \* the buildpack metadata parses into a configuration resolver
    jvmVendorsRaw, \* the BP_JVM_VENDORS value LoadJvmVendors resolved
    next,       \* how many pieces of jvmVendorsRaw the loop has consumed
    jvmVendors, \* the vendor list LoadJvmVendors builds and returns
    pc,         \* "start", "load", "split" (the loop) or "done"
    result      \* what Detect returned, or kind "none" before it returned

vars == <<env, defaults, mdOk, jvmVendorsRaw, next, jvmVendors, pc, result>>

Value == Strings(MaxPieces) \cup {Unset}

(***************************************************************************)
(* libpak ConfigurationResolver.Resolve: a set environment variable wins,  *)
(* even when empty; then the configuration default; else "".               *)
(***************************************************************************)
Resolve(name) ==
    IF env[name] # Unset THEN env[name]
    ELSE IF defaults[name] # Unset THEN defaults[name]
    ELSE EmptyString

\* Mutant: the search stops one short of the end of the list.
ContainsMissingLast(vendors, s) ==
    /\ Len(s) = 1
    /\ ~s[1].padded
    /\ \E i \in 1..(Len(vendors) - 1) : vendors[i] = s[1].name

\* slices.Contains(jvmVendors, jvmVendor): the raw BP_JVM_VENDOR string
\* equals one of the trimmed names only when it is one unpadded piece.
Contains(vendors, s) ==
    /\ Len(s) = 1
    /\ ~s[1].padded
    /\ \E i \in 1..Len(vendors) : vendors[i] = s[1].name

\* The build-plan alternatives Detect offers, provides then requires.
Plans ==
    << [provides |-> <<"jdk", "native-image-builder", "jre">>, requires |-> <<"jdk">>],
       [provides |-> <<"jdk", "native-image-builder">>, requires |-> <<"jdk">>],
       [provides |-> <<"jdk", "jre">>, requires |-> <<>>],
       [provides |-> <<"jdk">>, requires |-> <<>>],
       [provides |-> <<"jre">>, requires |-> <<>>] >>

Result == [kind : {"error", "skip"}] \cup [kind : {"pass"}, plans : {Plans}]

None == [kind |-> "none"]

-----------------------------------------------------------------------------
Init ==
    /\ env \in [ConfigNames -> Value]
    /\ defaults \in [ConfigNames -> Value]
    /\ mdOk \in BOOLEAN
    /\ jvmVendorsRaw = EmptyString
    /\ next = 0
    /\ jvmVendors = <<>>
    /\ pc = "start"
    /\ result = None

\* Detect builds the build-module metadata and the configuration resolver;
\* either failing is an error.
NewConfigurationResolver ==
    /\ pc = "start"
    /\ \/ /\ ~mdOk
          /\ result' = [kind |-> "error"]
          /\ pc' = "done"
       \/ /\ mdOk
          /\ pc' = "load"
          /\ UNCHANGED result
    /\ UNCHANGED <<env, defaults, mdOk, jvmVendorsRaw, next, jvmVendors>>

\* LoadJvmVendors resolves BP_JVM_VENDORS; an empty value is an error that
\* Detect returns, otherwise the loop over its pieces starts.
LoadJvmVendors ==
    /\ pc = "load"
    /\ jvmVendorsRaw' = Resolve("BP_JVM_VENDORS")
    /\ \/ /\ jvmVendorsRaw' = EmptyString
          /\ result' = [kind |-> "error"]
          /\ pc' = "done"
          /\ UNCHANGED <<next, jvmVendors>>
       \/ /\ jvmVendorsRaw' # EmptyString
          /\ jvmVendors' = <<>>
          /\ next' = 0
          /\ pc' = "split"
          /\ UNCHANGED result
    /\ UNCHANGED <<env, defaults, mdOk>>

\* Mutant: the empty pieces are kept.
LoadJvmVendorKeepingEmpty ==
    /\ pc = "split"
    /\ next < Len(jvmVendorsRaw)
    /\ jvmVendors' = Append(jvmVendors, TrimSpace(jvmVendorsRaw[next + 1]))
    /\ next' = next + 1
    /\ UNCHANGED <<env, defaults, mdOk, jvmVendorsRaw, pc, result>>

\* One iteration of the loop: the next piece, trimmed, is appended unless
\* it is empty.
LoadJvmVendor ==
    /\ pc = "split"
    /\ next < Len(jvmVendorsRaw)
    /\ LET jvmVendor == TrimSpace(jvmVendorsRaw[next + 1])
       IN  jvmVendors' = IF jvmVendor # NoName THEN Append(jvmVendors, jvmVendor)
                                              ELSE jvmVendors
    /\ next' = next + 1
    /\ UNCHANGED <<env, defaults, mdOk, jvmVendorsRaw, pc, result>>

\* The loop is over and the list returned: Detect passes unless a vendor
\* is requested that the list does not contain.
CheckJvmVendor ==
    /\ pc = "split"
    /\ next = Len(jvmVendorsRaw)
    /\ LET jvmVendor == Resolve("BP_JVM_VENDOR")
       IN  result' = IF jvmVendor # EmptyString /\ ~Contains(jvmVendors, jvmVendor)
                       THEN [kind |-> "skip"]
                       ELSE [kind |-> "pass", plans |-> Plans]
    /\ pc' = "done"
    /\ UNCHANGED <<env, defaults, mdOk, jvmVendorsRaw, next, jvmVendors>>

Next ==
    \/ NewConfigurationResolver
    \/ LoadJvmVendors
    \/ LoadJvmVendor
    \/ CheckJvmVendor

Spec == Init /\ [][Next]_vars

-----------------------------------------------------------------------------
\* Every variable holds a value of its kind.
TypeOK ==
    /\ env \in [ConfigNames -> Value]
    /\ defaults \in [ConfigNames -> Value]
    /\ mdOk \in BOOLEAN
    /\ jvmVendorsRaw \in Seq(Piece)
    /\ next \in Nat
    /\ jvmVendors \in Seq(Vendors)
    /\ pc \in {"start", "load", "split", "done"}
    /\ result \in Result \cup {None}

\* LoadJvmVendors returned without error and Detect decided.
Loaded == pc = "done" /\ result.kind \in {"pass", "skip"}

(***************************************************************************)
(* Reference for the vendor list (spec 4.2 and 8): v is the trimmed,       *)
(* non-empty tokens among the first n pieces of s, in the order they were  *)
(* written.  g picks, for every entry of v, the piece it came from: the    *)
(* picks go strictly forward, each picked piece is non-empty and gives     *)
(* the entry, and every non-empty piece is picked.                         *)
(***************************************************************************)
PicksTokens(v, s, g, n) ==
    /\ \A k, l \in 1..Len(v) : k < l => g[k] < g[l]
    /\ \A k \in 1..Len(v) : v[k] = TrimSpace(s[g[k]]) /\ v[k] # NoName
    /\ \A j \in 1..n : TrimSpace(s[j]) # NoName => \E k \in 1..Len(v) : g[k] = j

TokensOf(v, s, n) == \E g \in [1..Len(v) -> 1..n] : PicksTokens(v, s, g, n)

\* Whenever LoadJvmVendors succeeds, Detect works with exactly the trimmed,
\* non-empty, order-preserved tokens of the resolved BP_JVM_VENDORS, the
\* environment's value winning over the buildpack.toml default.
VendorsFollowConfig ==
    LET raw == Resolve("BP_JVM_VENDORS")
    IN  Loaded => TokensOf(jvmVendors, raw, Len(raw))

\* The spec (4.2 and 8): loading the vendors fails when the resulting list
\* is empty, whitespace-only input included.  So whenever LoadJvmVendors
\* returns without error, and Detect therefore goes on, the list it
\* returned is non-empty.
LoadedVendorsNonEmpty == Loaded => Len(jvmVendors) > 0

\* A selection written as exactly one name, without blanks or commas.
ExactName(s) == Len(s) = 1 /\ ~s[1].padded /\ s[1].name # NoName

\* The spec (3): BP_JVM_VENDOR, when set, must be a member of the vendor set
\* or detection fails.  Once Detect has loaded the vendors, it passes with
\* no selection, and with a selection written exactly as a vendor name it
\* passes exactly when that name is one of the trimmed pieces of the
\* resolved BP_JVM_VENDORS, however that list pads or separates its
\* tokens.  (A padded selection is left open: the spec does not say
\* whether BP_JVM_VENDOR is trimmed.)
SelectionHonoured ==
    LET sel == Resolve("BP_JVM_VENDOR")
        raw == Resolve("BP_JVM_VENDORS")
    IN  Loaded =>
          /\ sel = EmptyString => result.kind = "pass"
          /\ ExactName(sel) =>
               (result.kind = "pass" <=> \E j \in 1..Len(raw) : TrimSpace(raw[j]) = sel[1].name)

=============================================================================
