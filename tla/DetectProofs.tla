---------------------------- MODULE DetectProofs ----------------------------
(***************************************************************************)
(* Proofs about the detect phase, for every set of vendor names and every  *)
(* bound on the number of comma-separated pieces.                          *)
(***************************************************************************)
EXTENDS Detect, SequenceTheorems, TLAPS

USE DetectAssumption

\* The empty string is a string of pieces.
LEMMA EmptyStringType == EmptyString \in Seq(Piece)
<1>1. [name |-> NoName, padded |-> FALSE] \in Piece
  BY DEF Piece
<1>2. QED
  BY <1>1 DEF EmptyString

\* Every configured value other than Unset is a string of pieces.
LEMMA ValueType == \A x \in Value \ {Unset} : x \in Seq(Piece)
<1> SUFFICES ASSUME NEW x \in Value \ {Unset} PROVE x \in Seq(Piece)
  OBVIOUS
<1>1. PICK k \in 1..MaxPieces : x \in [1..k -> Piece]
  BY DEF Value, Strings
<1>2. QED
  BY <1>1

\* Resolve returns a string of pieces: the environment's, the default's or
\* the empty one.
LEMMA ResolveType ==
    ASSUME env \in [ConfigNames -> Value], defaults \in [ConfigNames -> Value],
           NEW name \in ConfigNames
    PROVE  Resolve(name) \in Seq(Piece)
BY ValueType, EmptyStringType DEF Resolve

\* The passing result, with the plans Detect offers, is a result.
LEMMA PlansResult == [kind |-> "pass", plans |-> Plans] \in Result
BY DEF Result

-----------------------------------------------------------------------------
(***************************************************************************)
(* What one iteration of the loop in LoadJvmVendors does to the tokens     *)
(* reference: before the loop the empty list is the tokens of no pieces;   *)
(* an empty piece leaves the list the tokens of one more piece; a          *)
(* non-empty piece appended makes it so.                                   *)
(***************************************************************************)
LEMMA TokensEmpty == ASSUME NEW s PROVE TokensOf(<<>>, s, 0)
<1>1. PicksTokens(<<>>, s, <<>>, 0)
  BY DEF PicksTokens
<1>2. <<>> \in [1..Len(<<>>) -> 1..0]
  OBVIOUS
<1>3. QED
  BY <1>1, <1>2 DEF TokensOf

LEMMA TokensSkip ==
    ASSUME NEW v \in Seq(Vendors), NEW s \in Seq(Piece), NEW n \in Nat,
           n < Len(s), TokensOf(v, s, n), TrimSpace(s[n + 1]) = NoName
    PROVE  TokensOf(v, s, n + 1)
<1>1. PICK g \in [1..Len(v) -> 1..n] : PicksTokens(v, s, g, n)
  BY DEF TokensOf
<1>2. g \in [1..Len(v) -> 1..(n + 1)]
  BY <1>1
<1>3. PicksTokens(v, s, g, n + 1)
  BY <1>1 DEF PicksTokens
<1>4. QED
  BY <1>2, <1>3 DEF TokensOf

LEMMA TokensAppend ==
    ASSUME NEW v \in Seq(Vendors), NEW s \in Seq(Piece), NEW n \in Nat,
           n < Len(s), TokensOf(v, s, n), TrimSpace(s[n + 1]) # NoName
    PROVE  TokensOf(Append(v, TrimSpace(s[n + 1])), s, n + 1)
<1> DEFINE x == TrimSpace(s[n + 1])
           w == Append(v, x)
<1>1. PICK g \in [1..Len(v) -> 1..n] : PicksTokens(v, s, g, n)
  BY DEF TokensOf
<1> DEFINE h == [k \in 1..Len(v) + 1 |-> IF k <= Len(v) THEN g[k] ELSE n + 1]
<1>2. Len(w) = Len(v) + 1 /\ w[Len(v) + 1] = x
      /\ \A k \in 1..Len(v) : w[k] = v[k]
  BY AppendProperties
<1>3. h \in [1..Len(w) -> 1..(n + 1)]
  BY <1>1, <1>2
<1>4. \A k, l \in 1..Len(w) : k < l => h[k] < h[l]
  BY <1>1, <1>2 DEF PicksTokens
<1>5. \A k \in 1..Len(w) : w[k] = TrimSpace(s[h[k]]) /\ w[k] # NoName
  BY <1>1, <1>2 DEF PicksTokens
<1>6. \A j \in 1..(n + 1) : TrimSpace(s[j]) # NoName => \E k \in 1..Len(w) : h[k] = j
  <2> SUFFICES ASSUME NEW j \in 1..(n + 1), TrimSpace(s[j]) # NoName
               PROVE  \E k \in 1..Len(w) : h[k] = j
    OBVIOUS
  <2>1. CASE j = n + 1
    BY <2>1, <1>2
  <2>2. CASE j <= n
    <3>1. PICK k \in 1..Len(v) : g[k] = j
      BY <2>2, <1>1 DEF PicksTokens
    <3>2. QED
      BY <3>1, <1>2
  <2>3. QED
    BY <2>1, <2>2
<1>7. QED
  BY <1>3, <1>4, <1>5, <1>6 DEF TokensOf, PicksTokens

\* A name other than the empty one is in the list exactly when some piece
\* trims to it.
LEMMA TokensMember ==
    \A v \in Seq(Vendors), s \in Seq(Piece), x \in Vendors :
       TokensOf(v, s, Len(s)) =>
         ((\E i \in 1..Len(v) : v[i] = x) <=> (\E j \in 1..Len(s) : TrimSpace(s[j]) = x))
<1> SUFFICES ASSUME NEW v \in Seq(Vendors), NEW s \in Seq(Piece), NEW x \in Vendors,
                    TokensOf(v, s, Len(s))
             PROVE  (\E i \in 1..Len(v) : v[i] = x) <=> (\E j \in 1..Len(s) : TrimSpace(s[j]) = x)
  OBVIOUS
<1>1. PICK g \in [1..Len(v) -> 1..Len(s)] : PicksTokens(v, s, g, Len(s))
  BY DEF TokensOf
<1>2. ASSUME NEW i \in 1..Len(v), v[i] = x PROVE \E j \in 1..Len(s) : TrimSpace(s[j]) = x
  BY <1>1, <1>2 DEF PicksTokens
<1>3. ASSUME NEW j \in 1..Len(s), TrimSpace(s[j]) = x PROVE \E i \in 1..Len(v) : v[i] = x
  <2>1. PICK k \in 1..Len(v) : g[k] = j
    BY <1>1, <1>3 DEF PicksTokens
  <2>2. QED
    BY <1>1, <1>3, <2>1 DEF PicksTokens
<1>4. QED
  BY <1>2, <1>3

\* TypeOK holds before Detect runs ...
LEMMA TypeInit == Init => TypeOK
BY EmptyStringType DEF Init, TypeOK, None

\* ... and every step of Detect keeps it.
LEMMA TypeStep == TypeOK /\ [Next]_vars => TypeOK'
<1> SUFFICES ASSUME TypeOK, [Next]_vars PROVE TypeOK'
  OBVIOUS
<1>1. CASE NewConfigurationResolver
  BY <1>1 DEF NewConfigurationResolver, TypeOK, Result
<1>2. CASE LoadJvmVendors
  <2>1. jvmVendorsRaw' \in Seq(Piece)
    BY <1>2, ResolveType DEF LoadJvmVendors, TypeOK, ConfigNames
  <2>2. CASE jvmVendorsRaw' = EmptyString
    <3>1. result' = [kind |-> "error"] /\ pc' = "done"
          /\ UNCHANGED <<next, jvmVendors>>
      BY <1>2, <2>2 DEF LoadJvmVendors
    <3>2. QED
      BY <1>2, <2>1, <3>1 DEF LoadJvmVendors, TypeOK, Result
  <2>3. CASE jvmVendorsRaw' # EmptyString
    <3>1. jvmVendors' = <<>> /\ next' = 0 /\ pc' = "split"
          /\ UNCHANGED result
      BY <1>2, <2>3 DEF LoadJvmVendors
    <3>2. QED
      BY <1>2, <2>1, <3>1 DEF LoadJvmVendors, TypeOK
  <2>4. QED
    BY <2>2, <2>3
<1>3. CASE LoadJvmVendor
  <2>0. jvmVendorsRaw[next + 1] \in Piece
    BY <1>3 DEF LoadJvmVendor, TypeOK
  <2>1. TrimSpace(jvmVendorsRaw[next + 1]) \in Vendors \cup {NoName}
    BY <2>0 DEF TrimSpace, Piece
  <2>2. QED
    BY <1>3, <2>1 DEF LoadJvmVendor, TypeOK
<1>4. CASE CheckJvmVendor
  BY <1>4, PlansResult DEF CheckJvmVendor, TypeOK, Result
<1>5. CASE UNCHANGED vars
  BY <1>5 DEF vars, TypeOK
<1>6. QED
  BY <1>1, <1>2, <1>3, <1>4, <1>5 DEF Next

\* Every reachable state of Detect satisfies TypeOK.
THEOREM TypeCorrect == Spec => []TypeOK
BY TypeInit, TypeStep, PTL DEF Spec

-----------------------------------------------------------------------------
(***************************************************************************)
(* The loop invariant of LoadJvmVendors, strengthened into an inductive    *)
(* invariant of Detect: while the loop runs, and once Detect has decided   *)
(* on a loaded list, the list is the tokens of the pieces consumed so far  *)
(* of the resolved BP_JVM_VENDORS; once decided, all pieces are consumed   *)
(* and the result is the one CheckJvmVendor computes from that list.       *)
(***************************************************************************)
IInv ==
    /\ TypeOK
    /\ pc = "split" \/ Loaded =>
         /\ jvmVendorsRaw = Resolve("BP_JVM_VENDORS")
         /\ next <= Len(jvmVendorsRaw)
         /\ TokensOf(jvmVendors, jvmVendorsRaw, next)
    /\ Loaded =>
         /\ next = Len(jvmVendorsRaw)
         /\ result.kind = "pass" <=>
              \/ Resolve("BP_JVM_VENDOR") = EmptyString
              \/ Contains(jvmVendors, Resolve("BP_JVM_VENDOR"))

\* No step changes the environment or the defaults, so nothing Resolve
\* returns changes during Detect.
LEMMA ResolveFixed ==
    ASSUME [Next]_vars, NEW name
    PROVE  Resolve(name)' = Resolve(name)
BY DEF Next, vars, NewConfigurationResolver, LoadJvmVendors, LoadJvmVendor,
       CheckJvmVendor, Resolve

\* Every step of Detect, the loop's included, keeps IInv.
LEMMA DetectStep == IInv /\ [Next]_vars => IInv'
<1> SUFFICES ASSUME IInv, [Next]_vars PROVE IInv'
  OBVIOUS
<1>0. TypeOK'
  BY TypeStep DEF IInv
<1> DEFINE raw == Resolve("BP_JVM_VENDORS")
           sel == Resolve("BP_JVM_VENDOR")
<1>a. raw' = raw /\ sel' = sel
  BY ResolveFixed
<1>1. CASE NewConfigurationResolver
  <2>1. pc' = "load" \/ (pc' = "done" /\ result'.kind = "error")
    BY <1>1 DEF NewConfigurationResolver
  <2>2. QED
    BY <1>0, <2>1 DEF IInv, Loaded
<1>2. CASE LoadJvmVendors
  <2>1. CASE jvmVendorsRaw' = EmptyString
    <3>1. pc' = "done" /\ result'.kind = "error"
      BY <1>2, <2>1 DEF LoadJvmVendors
    <3>2. QED
      BY <1>0, <3>1 DEF IInv, Loaded
  <2>2. CASE jvmVendorsRaw' # EmptyString
    <3>1. jvmVendors' = <<>> /\ next' = 0 /\ pc' = "split" /\ jvmVendorsRaw' = raw
      BY <1>2, <2>2 DEF LoadJvmVendors
    <3>2. TokensOf(jvmVendors', jvmVendorsRaw', next')
      BY <3>1, TokensEmpty
    <3>3. QED
      BY <1>0, <1>a, <3>1, <3>2 DEF IInv, Loaded
  <2>3. QED
    BY <2>1, <2>2
<1>3. CASE LoadJvmVendor
  <2>1. /\ pc = "split" /\ pc' = "split" /\ next < Len(jvmVendorsRaw)
        /\ next' = next + 1 /\ jvmVendorsRaw' = jvmVendorsRaw
    BY <1>3 DEF LoadJvmVendor
  <2>2. /\ jvmVendorsRaw = raw /\ TokensOf(jvmVendors, jvmVendorsRaw, next)
        /\ jvmVendorsRaw \in Seq(Piece) /\ jvmVendors \in Seq(Vendors) /\ next \in Nat
    BY <2>1 DEF IInv, TypeOK
  <2>3. TokensOf(jvmVendors', jvmVendorsRaw', next')
    <3>1. CASE TrimSpace(jvmVendorsRaw[next + 1]) = NoName
      <4>1. jvmVendors' = jvmVendors
        BY <1>3, <3>1 DEF LoadJvmVendor
      <4>2. QED
        BY <2>1, <2>2, <3>1, <4>1, TokensSkip
    <3>2. CASE TrimSpace(jvmVendorsRaw[next + 1]) # NoName
      <4>1. jvmVendors' = Append(jvmVendors, TrimSpace(jvmVendorsRaw[next + 1]))
        BY <1>3, <3>2 DEF LoadJvmVendor
      <4>2. QED
        BY <2>1, <2>2, <3>2, <4>1, TokensAppend
    <3>3. QED
      BY <3>1, <3>2
  <2>4. QED
    BY <1>0, <1>a, <2>1, <2>2, <2>3 DEF IInv, Loaded
<1>4. CASE CheckJvmVendor
  <2>1. /\ pc = "split" /\ pc' = "done" /\ next = Len(jvmVendorsRaw)
        /\ UNCHANGED <<jvmVendorsRaw, next, jvmVendors>>
    BY <1>4 DEF CheckJvmVendor
  <2>2. result' = IF sel # EmptyString /\ ~Contains(jvmVendors, sel)
                    THEN [kind |-> "skip"]
                    ELSE [kind |-> "pass", plans |-> Plans]
    BY <1>4 DEF CheckJvmVendor
  <2>3. result'.kind = "pass" <=> sel = EmptyString \/ Contains(jvmVendors, sel)
    BY <2>2
  <2>4. QED
    BY <1>0, <1>a, <2>1, <2>3 DEF IInv, Loaded
<1>5. CASE UNCHANGED vars
  BY <1>0, <1>a, <1>5 DEF vars, IInv, Loaded
<1>6. QED
  BY <1>1, <1>2, <1>3, <1>4, <1>5 DEF Next

\* Every reachable state of Detect satisfies IInv.
THEOREM DetectInvariant == Spec => []IInv
<1>1. Init => IInv
  BY TypeInit DEF Init, IInv, Loaded, None
<1>2. QED
  BY <1>1, DetectStep, PTL DEF Spec

\* Whenever LoadJvmVendors has returned a list and Detect has decided on
\* it, the list is exactly the trimmed, non-empty tokens of the resolved
\* BP_JVM_VENDORS in the order written, for every value of the
\* environment and the defaults and every number of pieces: the loop at
\* vendors.go:17-22 computes the reference.
THEOREM VendorsTheorem == Spec => []VendorsFollowConfig
<1>1. IInv => VendorsFollowConfig
  BY DEF IInv, VendorsFollowConfig
<1>2. QED
  BY <1>1, DetectInvariant, PTL

\* Detect passes without a selection, and with a selection written as
\* exactly one vendor name it passes exactly when some piece of the
\* resolved BP_JVM_VENDORS trims to that name (detect.go:55-59 against
\* vendors.go:17-22).
THEOREM SelectionTheorem == Spec => []SelectionHonoured
<1>1. IInv => SelectionHonoured
  <2> DEFINE raw == Resolve("BP_JVM_VENDORS")
             sel == Resolve("BP_JVM_VENDOR")
  <2> SUFFICES ASSUME IInv, Loaded
               PROVE  /\ sel = EmptyString => result.kind = "pass"
                      /\ ExactName(sel) =>
                           (result.kind = "pass" <=>
                              \E j \in 1..Len(raw) : TrimSpace(raw[j]) = sel[1].name)
    BY DEF SelectionHonoured
  <2>1. /\ jvmVendorsRaw = raw /\ TokensOf(jvmVendors, raw, Len(raw))
        /\ raw \in Seq(Piece) /\ jvmVendors \in Seq(Vendors)
        /\ result.kind = "pass" <=> sel = EmptyString \/ Contains(jvmVendors, sel)
    BY DEF IInv, TypeOK
  <2>2. sel = EmptyString => result.kind = "pass"
    BY <2>1
  <2>3. ASSUME ExactName(sel)
        PROVE  result.kind = "pass" <=>
                 \E j \in 1..Len(raw) : TrimSpace(raw[j]) = sel[1].name
    <3>1. sel # EmptyString
      BY <2>3 DEF ExactName, EmptyString
    <3>2. Contains(jvmVendors, sel) <=> \E i \in 1..Len(jvmVendors) : jvmVendors[i] = sel[1].name
      BY <2>3 DEF ExactName, Contains
    <3>3. (\E i \in 1..Len(jvmVendors) : jvmVendors[i] = sel[1].name)
          <=> \E j \in 1..Len(raw) : TrimSpace(raw[j]) = sel[1].name
      <4>1. sel[1].name \in Vendors
        <5>1. sel \in Seq(Piece)
          BY ResolveType DEF IInv, TypeOK, ConfigNames
        <5>2. sel[1] \in Piece
          BY <5>1, <2>3 DEF ExactName
        <5>3. QED
          BY <5>2, <2>3 DEF ExactName, Piece
      <4>2. QED
        BY <2>1, <4>1, TokensMember
    <3>4. QED
      BY <2>1, <3>1, <3>2, <3>3
  <2>4. QED
    BY <2>2, <2>3
<1>2. QED
  BY <1>1, DetectInvariant, PTL

====
