----------------------------- MODULE PathsLemmas -----------------------------
(***************************************************************************)
(* Facts about paths with a slash put in front of them or after them, for *)
(* every alphabet: the lemmas the proofs about canonicalUrl and about the  *)
(* sidebar's matcher rest on.                                              *)
(***************************************************************************)
EXTENDS Paths, SequenceTheorems, TLAPS

(* A path with '/' put in front starts with '/'.                          *)
LEMMA SlashFirst ==
    ASSUME NEW p \in Path
    PROVE  /\ Slash \o p \in Path
           /\ StartsWithSlash(Slash \o p)
<1>0. Slash \in Seq(Char) /\ p \in Seq(Char) /\ Len(Slash) = 1
  BY PathsAssumption DEF Path
<1>1. Slash \o p \in Seq(Char) /\ Len(Slash \o p) = Len(Slash) + Len(p)
  BY <1>0, ConcatProperties
<1>2. SubSeq(Slash \o p, 1, 1) = SubSeq(Slash, 1, 1)
  <2>1. 1 \in 1 .. Len(Slash)
    BY <1>0
  <2>2. QED
    BY <1>0, <2>1, SubSeqOfConcat1
<1>3. SubSeq(Slash, 1, 1) = Slash
  BY <1>0, SubSeqFull
<1>4. QED
  BY <1>0, <1>1, <1>2, <1>3 DEF StartsWithSlash, Path

(* A path with '/' put after it ends with '/'.                            *)
LEMMA SlashLast ==
    ASSUME NEW p \in Path
    PROVE  EndsWithSlash(p \o Slash)
<1> DEFINE n == Len(p) + 1
<1>0. Slash \in Seq(Char) /\ p \in Seq(Char) /\ Len(Slash) = 1
  BY PathsAssumption DEF Path
<1>1. Len(p \o Slash) = Len(p) + Len(Slash)
  BY <1>0, ConcatProperties
<1>2. SubSeq(p \o Slash, n, n) = SubSeq(Slash, 1, 1)
  <2>1. n \in Len(p) + 1 .. Len(p) + Len(Slash)
    BY <1>0
  <2>2. \A k, m \in Len(p) + 1 .. Len(p) + Len(Slash) :
          SubSeq(p \o Slash, k, m) = SubSeq(Slash, k - Len(p), m - Len(p))
    BY <1>0, SubSeqOfConcat2
  <2>3. QED
    BY <2>1, <2>2
<1>3. SubSeq(Slash, 1, 1) = Slash
  BY <1>0, SubSeqFull
<1>4. QED
  BY <1>0, <1>1, <1>2, <1>3 DEF EndsWithSlash

(* A path that starts with '/' is '/' followed by the rest of it.         *)
LEMMA SplitFirstSlash ==
    ASSUME NEW p \in Path, StartsWithSlash(p)
    PROVE  \E r \in Path : p = Slash \o r
<1> DEFINE r == SubSeq(p, 2, Len(p))
<1>1. Len(p) >= 1 /\ SubSeq(p, 1, 1) = Slash
  BY DEF StartsWithSlash
<1>2. r \in Seq(Char)
  BY SubSeqProperties, LenProperties DEF Path
<1>3. SubSeq(p, 1, 1) \o SubSeq(p, 2, Len(p)) = SubSeq(p, 1, Len(p))
  BY <1>1, ConcatAdjacentSubSeq DEF Path
<1>4. SubSeq(p, 1, Len(p)) = p
  BY SubSeqFull DEF Path
<1>5. QED
  BY <1>1, <1>2, <1>3, <1>4 DEF Path

(* A path of two or more characters that ends with '/' is the path      *)
(* without its last character, followed by '/'.                           *)
LEMMA SplitLastSlash ==
    ASSUME NEW p \in Path, EndsWithSlash(p), Len(p) > 1
    PROVE  /\ SubSeq(p, 1, Len(p) - 1) \in Path
           /\ p = SubSeq(p, 1, Len(p) - 1) \o Slash
<1> DEFINE n == Len(p)
           r == SubSeq(p, 1, n - 1)
<1>1. n \in Nat /\ n > 1 /\ SubSeq(p, n, n) = Slash
  BY DEF EndsWithSlash, Path
<1>2. r \in Seq(Char)
  BY <1>1, SubSeqProperties DEF Path
<1>3. r \o SubSeq(p, n, n) = SubSeq(p, 1, n)
  <2>1. p \in Seq(Char) /\ 1 \in 1 .. Len(p) + 1 /\ n - 1 \in 0 .. Len(p)
        /\ n \in n - 1 .. Len(p)
    BY <1>1 DEF Path
  <2>2. SubSeq(p, 1, n - 1) \o SubSeq(p, (n - 1) + 1, n) = SubSeq(p, 1, n)
    BY <2>1, ConcatAdjacentSubSeq
  <2>3. (n - 1) + 1 = n
    BY <1>1
  <2>4. QED
    BY <2>2, <2>3
<1>4. SubSeq(p, 1, n) = p
  BY SubSeqFull DEF Path
<1>5. QED
  BY <1>1, <1>2, <1>3, <1>4 DEF Path

(* Taking '/' off the end of a path with '/' put after it gives the path. *)
LEMMA DropSlashLast ==
    ASSUME NEW c \in Path
    PROVE  /\ Len(c \o Slash) = Len(c) + 1
           /\ SubSeq(c \o Slash, 1, Len(c)) = c
<1>0. Slash \in Seq(Char) /\ c \in Seq(Char) /\ Len(Slash) = 1
  BY PathsAssumption DEF Path
<1>1. Len(c \o Slash) = Len(c) + Len(Slash)
  BY <1>0, ConcatProperties
<1>2. SubSeq(c \o Slash, 1, Len(c)) = SubSeq(c, 1, Len(c))
  <2>1. CASE Len(c) = 0
    <3>1. c = << >>
      BY <1>0, <2>1, EmptySeq
    <3>2. SubSeq(c \o Slash, 1, 0) = << >> /\ SubSeq(c, 1, 0) = << >>
      BY <1>0, <1>1, SubSeqEmpty
    <3>3. QED
      BY <2>1, <3>2
  <2>2. CASE Len(c) > 0
    <3>1. \A k, m \in 1 .. Len(c) : SubSeq(c \o Slash, k, m) = SubSeq(c, k, m)
      BY <1>0, SubSeqOfConcat1
    <3>2. QED
      BY <2>2, <3>1
  <2>3. QED
    BY <1>0, <2>1, <2>2
<1>3. SubSeq(c, 1, Len(c)) = c
  BY <1>0, SubSeqFull
<1>4. QED
  BY <1>0, <1>1, <1>2, <1>3

=============================================================================
