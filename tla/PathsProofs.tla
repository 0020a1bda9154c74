----------------------------- MODULE PathsProofs -----------------------------
(***************************************************************************)
(* Proofs about the path operators of Paths for every alphabet, origin and *)
(* base path, and the invariants of PathsProbe for every set of inputs.    *)
(***************************************************************************)
EXTENDS PathsProbe, PathsLemmas

(* Normalize returns a path that starts with '/'.                         *)
LEMMA NormalizeStartsWithSlash ==
    ASSUME NEW p \in Path
    PROVE  /\ Normalize(p) \in Path
           /\ StartsWithSlash(Normalize(p))
BY SlashFirst DEF Normalize

(* Two paths are normalized alike exactly when they are the same route up *)
(* to the leading slash Normalize adds.                                   *)
LEMMA NormalizeSame ==
    ASSUME NEW p \in Path, NEW q \in Path
    PROVE  Normalize(p) = Normalize(q) <=> SameUpToLeadingSlash(p, q)
<1>1. \A x, y \in Path : Slash \o x = Slash \o y => x = y
  BY PathsAssumption, ConcatSimplifications DEF Path
<1>2. CASE StartsWithSlash(p) /\ StartsWithSlash(q)
  BY <1>2 DEF Normalize, SameUpToLeadingSlash
<1>3. CASE StartsWithSlash(p) /\ ~StartsWithSlash(q)
  BY <1>3 DEF Normalize, SameUpToLeadingSlash
<1>4. CASE ~StartsWithSlash(p) /\ StartsWithSlash(q)
  BY <1>4 DEF Normalize, SameUpToLeadingSlash
<1>5. CASE ~StartsWithSlash(p) /\ ~StartsWithSlash(q)
  <2>1. Normalize(p) = Normalize(q) <=> p = q
    BY <1>1, <1>5 DEF Normalize
  <2>2. ~(p = Slash \o q) /\ ~(q = Slash \o p)
    BY <1>5, SlashFirst
  <2>3. QED
    BY <2>1, <2>2 DEF SameUpToLeadingSlash
<1>6. QED
  BY <1>2, <1>3, <1>4, <1>5

(* Every canonical URL is the origin, the base path, then '/'.            *)
LEMMA CanonicalPrefix ==
    ASSUME NEW p \in Path
    PROVE  HasPrefix(canonicalUrl(p), Origin \o BasePath \o Slash)
<1> DEFINE A == Origin \o BasePath
           B == A \o Slash
<1>0. Origin \in Seq(Char) /\ BasePath \in Seq(Char) /\ Slash \in Seq(Char)
  BY PathsAssumption
<1>1. A \in Seq(Char) /\ B \in Seq(Char) /\ Len(B) = Len(A) + Len(Slash)
  BY <1>0, ConcatProperties
<1>2. PICK r \in Path : Normalize(p) = Slash \o r
  BY NormalizeStartsWithSlash, SplitFirstSlash
<1>3. canonicalUrl(p) = B \o r
  <2>1. \A x, y, z \in Seq(Char) : (x \o y) \o z = x \o (y \o z)
    BY ConcatAssociative
  <2>2. r \in Seq(Char)
    BY DEF Path
  <2>3. (A \o Slash) \o r = A \o (Slash \o r)
    BY <1>0, <1>1, <2>1, <2>2
  <2>4. A \o (Slash \o r) = B \o r
    BY <2>3
  <2>5. QED
    BY <1>2, <2>4 DEF canonicalUrl
<1>4. Len(B) >= 1
  BY <1>0, <1>1, PathsAssumption
<1>5. SubSeq(B \o r, 1, Len(B)) = SubSeq(B, 1, Len(B))
  <2>1. \A k, m \in 1 .. Len(B) : SubSeq(B \o r, k, m) = SubSeq(B, k, m)
    BY <1>1, SubSeqOfConcat1 DEF Path
  <2>2. QED
    BY <1>4, <2>1
<1>6. SubSeq(B, 1, Len(B)) = B
  BY <1>1, SubSeqFull
<1>7. Len(B) <= Len(B \o r)
  BY <1>1, ConcatProperties DEF Path
<1>8. QED
  BY <1>3, <1>5, <1>6, <1>7 DEF HasPrefix

-----------------------------------------------------------------------------
(* The inputs of the probe are paths.                                     *)
LEMMA ProbeTyped == Spec => []TypeOK
<1>1. Init => TypeOK
  BY InputsAssumption DEF Init, TypeOK
<1>2. TypeOK /\ [Next]_vars => TypeOK'
  BY InputsAssumption DEF TypeOK, Next, vars
<1>3. QED
  BY <1>1, <1>2, PTL DEF Spec

(* Every canonical URL, whatever the input, starts with the origin, then  *)
(* the base path, then '/'.                                               *)
THEOREM CanonicalAlwaysUnderBase == Spec => []CanonicalUrlUnderBase
<1>1. TypeOK => CanonicalUrlUnderBase
  BY CanonicalPrefix DEF TypeOK, CanonicalUrlUnderBase
<1>2. QED
  BY <1>1, ProbeTyped, PTL

(* Two inputs get the same canonical URL exactly when they are the same   *)
(* route up to a missing leading slash.                                   *)
THEOREM CanonicalAlwaysSameResource == Spec => []CanonicalUrlSameResource
<1>1. TypeOK => CanonicalUrlSameResource
  <2> SUFFICES ASSUME TypeOK
               PROVE  CanonicalUrlSameResource
    OBVIOUS
  <2> DEFINE A == Origin \o BasePath
  <2>1. A \in Seq(Char)
    BY PathsAssumption, ConcatProperties
  <2>2. Normalize(pathname) \in Path /\ Normalize(other) \in Path
    BY NormalizeStartsWithSlash DEF TypeOK
  <2>3. canonicalUrl(pathname) = canonicalUrl(other)
          <=> Normalize(pathname) = Normalize(other)
    BY <2>1, <2>2, ConcatSimplifications DEF canonicalUrl, Path
  <2>4. QED
    BY <2>3, NormalizeSame DEF TypeOK, CanonicalUrlSameResource
<1>2. QED
  BY <1>1, ProbeTyped, PTL

=============================================================================
