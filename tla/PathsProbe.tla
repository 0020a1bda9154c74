------------------------------ MODULE PathsProbe ------------------------------
(***************************************************************************)
(* The path operators of Paths evaluated on every pair of inputs from a    *)
(* finite set Inputs of paths.  The two variables are inputs: each step    *)
(* replaces one of them, so the reachable states are all the pairs and an  *)
(* invariant of this specification is a property of the operators over    *)
(* Inputs x Inputs.                                                        *)
(***************************************************************************)
EXTENDS Paths, FiniteSets

CONSTANT Inputs

ASSUME InputsAssumption == Inputs \subseteq Path /\ Inputs # {}

VARIABLES pathname, other

vars == <<pathname, other>>

Init == pathname \in Inputs /\ other \in Inputs

Next == \/ pathname' \in Inputs /\ UNCHANGED other
        \/ other' \in Inputs /\ UNCHANGED pathname

Spec == Init /\ [][Next]_vars

(* t is a prefix of s.                                                    *)
HasPrefix(s, t) == Len(t) <= Len(s) /\ SubSeq(s, 1, Len(t)) = t

(* The number of places where t occurs in s.                              *)
Occurrences(t, s) ==
    Cardinality({i \in 1..Len(s) : /\ i + Len(t) - 1 <= Len(s)
                                   /\ SubSeq(s, i, i + Len(t) - 1) = t})

(* The rule of spec section 4.2: equality up to one trailing slash on     *)
(* either side.                                                           *)
SpecActive(p, h) == p = h \/ p = h \o Slash \/ h = p \o Slash

(* p and q name the same route once a missing leading slash is added.     *)
SameUpToLeadingSlash(p, q) ==
    \/ p = q
    \/ ~StartsWithSlash(q) /\ p = Slash \o q
    \/ ~StartsWithSlash(p) /\ q = Slash \o p

-----------------------------------------------------------------------------
TypeOK == pathname \in Path /\ other \in Path

(* canonicalUrl gives two inputs the same URL exactly when they are the   *)
(* same route up to the leading slash it adds: "docs/" and "/docs/" share *)
(* one URL, and no two different routes do.                               *)
CanonicalUrlSameResource ==
    canonicalUrl(pathname) = canonicalUrl(other)
        <=> SameUpToLeadingSlash(pathname, other)

(* Every canonical URL is the origin, then the base path, then a path     *)
(* that starts with '/': the base path is never glued to the route.       *)
CanonicalUrlUnderBase ==
    HasPrefix(canonicalUrl(pathname), Origin \o BasePath \o Slash)

(* Spec 4.2 and 8: the rule holds symmetrically, also when the href       *)
(* carries the extra slash.  Checked to be violated (Sidebar.tsx NavLink).*)
SpecSymmetricMatch ==
    StartsWithSlash(pathname)
        => (isActive(pathname, other) <=> SpecActive(pathname, other))

(* Spec 8: canonicalUrl always produces a string containing the base path *)
(* exactly once.  Checked to be violated (site.ts canonicalUrl).          *)
BasePathOnce == Occurrences(BasePath, canonicalUrl(pathname)) = 1

=============================================================================
