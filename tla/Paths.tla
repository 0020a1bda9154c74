-------------------------------- MODULE Paths --------------------------------
(***************************************************************************)
(* Route-path strings of the docs site: the active-route rule of the       *)
(* sidebar (src/components/Sidebar.tsx) and the canonical-URL builder      *)
(* (src/lib/site.ts).  A path is a sequence over the alphabet Char; the    *)
(* TLC models instantiate it with TLA+ strings, which TLC treats as        *)
(* sequences of one-character strings for \o, Len and SubSeq.              *)
(***************************************************************************)
EXTENDS Naturals, Sequences

CONSTANTS
    Char,       \* the characters a path may contain
    Slash,      \* the one-character path "/"
    Origin,     \* SITE_ORIGIN, scheme and host
    BasePath    \* SITE_BASE_PATH, the deployment sub-path

ASSUME PathsAssumption ==
    /\ Slash \in Seq(Char)
    /\ Len(Slash) = 1
    /\ Origin \in Seq(Char)
    /\ BasePath \in Seq(Char)

Path == Seq(Char)

(* pathname.startsWith('/') *)
StartsWithSlash(p) == Len(p) >= 1 /\ SubSeq(p, 1, 1) = Slash

(* The path ends in '/'; the routes the router hands out may or may not.  *)
EndsWithSlash(p) == Len(p) >= 1 /\ SubSeq(p, Len(p), Len(p)) = Slash

(* Mutant of Normalize: the leading slash is never added.                 *)
NormalizeNone(p) == p

(* site.ts: the leading slash is added when it is missing, never removed. *)
Normalize(p) == IF StartsWithSlash(p) THEN p ELSE Slash \o p

(* site.ts canonicalUrl: origin, base path and normalized path, joined.   *)
canonicalUrl(pathname) == Origin \o BasePath \o Normalize(pathname)

(* Mutant of isActive: prefix matching, pathname.startsWith(item.href).    *)
isActivePrefix(pathname, href) ==
    Len(href) <= Len(pathname) /\ SubSeq(pathname, 1, Len(href)) = href

(* NavLink: pathname === item.href || pathname === `${item.href}/`        *)
isActive(pathname, href) == pathname = href \/ pathname = href \o Slash

(* Mutant of sectionActive: the section's copy forgets the slashed form.  *)
sectionActiveExact(pathname, children) ==
    \E i \in DOMAIN children : pathname = children[i]

(* Section: item.children?.some(child => pathname === child.href ||       *)
(* pathname === `${child.href}/`), its own inline copy of the rule; a     *)
(* section without children (undefined) is never active.                  *)
sectionActive(pathname, children) ==
    \E i \in DOMAIN children :
        pathname = children[i] \/ pathname = children[i] \o Slash

=============================================================================
