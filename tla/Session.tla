------------------------------- MODULE Session -------------------------------
(***************************************************************************)
(* One browser tab on the docs site.  The root layout (src/app/layout.tsx) *)
(* mounts the narrow-viewport Header (with its drawer) and the wide-       *)
(* viewport Sidebar on every page; CSS shows one of them.  Both stay       *)
(* mounted across client-side navigations, so Header's useState(open)      *)
(* survives them.  A click on a next/link runs the link's onClick          *)
(* synchronously and then starts an asynchronous router navigation, which  *)
(* commits later, is superseded by a newer one, or falls back to a full    *)
(* document load.  The router's "current route" is pathname.               *)
(*                                                                         *)
(*   pathname  the route usePathname() returns (with or without '/')       *)
(*   pending   the navigation in flight, or NoNav; its via field records   *)
(*             which control started it (a ghost field: the router does    *)
(*             not keep it)                                                *)
(*   open      Header's drawer state                                       *)
(*   wide      the viewport is at the lg breakpoint (Sidebar shown)        *)
(***************************************************************************)
EXTENDS Paths

CONSTANTS
    Navigation, \* the navigation tree: sections with titles, hrefs, children
    Home,       \* "/", the target of both logo links
    LlmsHref,   \* "/llms", the sidebar's footer link
    PageLinks,  \* page route -> the hrefs linked from that page's body
    NoNav       \* no navigation in flight

Via == {"drawer", "sidebar", "header", "content"}

Request == [href : Path, via : Via]

ASSUME SessionAssumption ==
    /\ Navigation \in Seq([title : STRING, href : Path, children : Seq(Path)])
    /\ Home \in Path
    /\ LlmsHref \in Path
    /\ \A r \in DOMAIN PageLinks : PageLinks[r] \subseteq Path
    /\ NoNav \notin Request

Sections == 1..Len(Navigation)

Entries(s) == DOMAIN Navigation[s].children

Child(s, i) == Navigation[s].children[i]

NavHrefs == UNION {{Child(s, i) : i \in Entries(s)} : s \in Sections}

(* Spec 3: an href starts with '/'; every href of the tree is written      *)
(* without a trailing slash, and NoNav is not a path.                     *)
ASSUME NavHrefsAssumption ==
    /\ \A h \in NavHrefs : StartsWithSlash(h) /\ ~EndsWithSlash(h)
    /\ NoNav \notin Path

Routes == {Home, LlmsHref} \cup NavHrefs
            \cup UNION {PageLinks[r] : r \in DOMAIN PageLinks}

(* The forms in which the router may report the route h: the spec leaves  *)
(* the trailing slash open, and next.config.mjs sets trailingSlash: true. *)
RouteForms(h) == IF EndsWithSlash(h) THEN {h} ELSE {h, h \o Slash}

RoutePaths == UNION {RouteForms(h) : h \in Routes}

(* The page a route form shows: its trailing slash removed.               *)
PageOf(p) == IF EndsWithSlash(p) /\ Len(p) > 1 THEN SubSeq(p, 1, Len(p) - 1)
                                             ELSE p

(* The links in the body of the page at p.  The pages authored outside    *)
(* src/ may link anywhere the site does.                                  *)
ContentLinks(p) ==
    IF PageOf(p) \in DOMAIN PageLinks THEN PageLinks[PageOf(p)] ELSE Routes

VARIABLES pathname, pending, open, wide

vars == <<pathname, pending, open, wide>>

-----------------------------------------------------------------------------
(* A page load: any route, drawer closed (useState(false)).               *)
Init ==
    /\ pathname \in RoutePaths
    /\ pending = NoNav
    /\ open = FALSE
    /\ wide \in BOOLEAN

(* The router starts a navigation to h; a newer one supersedes the old.   *)
Start(h, via) == pending' = [href |-> h, via |-> via]

(* Header menu button: onClick={() => setOpen(!open)}.                    *)
ToggleDrawer ==
    /\ ~wide
    /\ open' = ~open
    /\ UNCHANGED <<pathname, pending, wide>>

(* Mutant of SelectDrawerLink: the entry's onClick is left out.           *)
SelectDrawerLinkKeepOpen ==
    /\ ~wide
    /\ open
    /\ \E s \in Sections : \E i \in Entries(s) : Start(Child(s, i), "drawer")
    /\ UNCHANGED <<pathname, open, wide>>

(* A drawer entry, rendered only while open: its onClick closes the       *)
(* drawer, then next/link starts the navigation.                          *)
SelectDrawerLink ==
    /\ ~wide
    /\ open
    /\ \E s \in Sections : \E i \in Entries(s) : Start(Child(s, i), "drawer")
    /\ open' = FALSE
    /\ UNCHANGED <<pathname, wide>>

(* Header logo link to "/": no onClick.                                   *)
SelectHeaderLogo ==
    /\ ~wide
    /\ Start(Home, "header")
    /\ UNCHANGED <<pathname, open, wide>>

(* A sidebar NavLink.                                                     *)
SelectSidebarLink ==
    /\ wide
    /\ \E s \in Sections : \E i \in Entries(s) : Start(Child(s, i), "sidebar")
    /\ UNCHANGED <<pathname, open, wide>>

(* The sidebar's logo link and its "LLM Context" footer link.             *)
SelectSidebarFooter ==
    /\ wide
    /\ \E h \in {Home, LlmsHref} : Start(h, "sidebar")
    /\ UNCHANGED <<pathname, open, wide>>

(* A link in the body of the current page.                                *)
SelectContentLink ==
    /\ \E h \in ContentLinks(pathname) : Start(h, "content")
    /\ UNCHANGED <<pathname, open, wide>>

(* The router commits the navigation in flight; the layout, and with it   *)
(* the Header and its state, stays mounted.                               *)
CommitNavigation ==
    /\ pending # NoNav
    /\ pathname' \in RouteForms(pending.href)
    /\ pending' = NoNav
    /\ UNCHANGED <<open, wide>>

(* The router falls back to a full document load of the target: every     *)
(* component mounts afresh.                                               *)
HardNavigation ==
    /\ pending # NoNav
    /\ pathname' \in RouteForms(pending.href)
    /\ pending' = NoNav
    /\ open' = FALSE
    /\ UNCHANGED wide

(* The user reloads the page.                                             *)
Reload ==
    /\ pending' = NoNav
    /\ open' = FALSE
    /\ UNCHANGED <<pathname, wide>>

(* Back or forward: the router restores an earlier route, dropping the    *)
(* navigation in flight.                                                  *)
TraverseHistory ==
    /\ pathname' \in RoutePaths
    /\ pending' = NoNav
    /\ UNCHANGED <<open, wide>>

(* The viewport crosses the lg breakpoint: CSS swaps Header and Sidebar,  *)
(* neither unmounts.                                                      *)
Resize ==
    /\ wide' = ~wide
    /\ UNCHANGED <<pathname, pending, open>>

Next ==
    \/ ToggleDrawer
    \/ SelectDrawerLink
    \/ SelectHeaderLogo
    \/ SelectSidebarLink
    \/ SelectSidebarFooter
    \/ SelectContentLink
    \/ CommitNavigation
    \/ HardNavigation
    \/ Reload
    \/ TraverseHistory
    \/ Resize

Spec == Init /\ [][Next]_vars

-----------------------------------------------------------------------------
(* What each renderer highlights for the current route.                   *)

(* Sidebar NavLink: the entry's own copy of the rule.                     *)
SidebarLinkHighlighted(s, i) == isActive(pathname, Child(s, i))

(* Sidebar Section: the heading's inline copy of the rule.                *)
SidebarHeadingHighlighted(s) == sectionActive(pathname, Navigation[s].children)

(* Header drawer: entries and headings have fixed classes.                *)
DrawerLinkHighlighted(s, i) == FALSE

DrawerHeadingHighlighted(s) == FALSE

-----------------------------------------------------------------------------
(* The drawer's side of the tab seen as the contract of spec 4.3 and 9:   *)
(* the leaf handed to the router is the href of a navigation that a       *)
(* drawer entry started and the router has not yet taken.                 *)
DrawerSelection ==
    IF pending # NoNav /\ pending.via = "drawer" THEN pending.href ELSE NoNav

Contract == INSTANCE DrawerContract
                WITH Leaves <- NavHrefs, NoSelection <- NoNav,
                     openState <- open, selection <- DrawerSelection

-----------------------------------------------------------------------------
(* Type invariant.                                                        *)
TypeOK ==
    /\ pathname \in Path
    /\ pending \in Request \cup {NoNav}
    /\ open \in BOOLEAN
    /\ wide \in BOOLEAN

(* The sidebar computes a section's heading highlight (Section) and its   *)
(* entries' highlights (NavLink) with two separate copies of the slash    *)
(* rule: on every route the heading is lit exactly when one of its        *)
(* entries is.                                                            *)
HeadingHighlightMatchesLinks ==
    \A s \in Sections :
        SidebarHeadingHighlighted(s) <=> \E i \in Entries(s) : SidebarLinkHighlighted(s, i)

(* React keys: sections are keyed by title and entries by href in both    *)
(* the Sidebar and the Header drawer, so no two sections share a title    *)
(* and no two entries of one section share an href (aliases across       *)
(* sections are allowed).                                                 *)
SiblingKeysUnique ==
    /\ \A s, t \in Sections : s # t => Navigation[s].title # Navigation[t].title
    /\ \A s \in Sections : \A i, j \in Entries(s) : i # j => Child(s, i) # Child(s, j)

(* Header implements the drawer contract of spec 9: open starts false     *)
(* (useState(false)), changes only by the menu button, by a drawer entry  *)
(* that closes it while handing its href to the router, or by a fresh     *)
(* mount; the router taking the href leaves it alone.                     *)
DrawerImplementsContract == Contract!Spec

(* The sidebar lights exactly the entries whose href is the page the      *)
(* router shows, whichever of its two forms (with or without the trailing *)
(* slash of trailingSlash: true) the router reports; aliased entries of   *)
(* several sections light together (spec 4.2 and 8).                      *)
HighlightIsCurrentPage ==
    \A s \in Sections : \A i \in Entries(s) :
        SidebarLinkHighlighted(s, i) <=> Child(s, i) = PageOf(pathname)

(* Spec 8: given the same route, the drawer and the sidebar report the    *)
(* same highlight for every entry and heading.  Checked to be violated:   *)
(* the Header drawer renders no highlight.                                *)
DrawerFlagsMatchSidebar ==
    \A s \in Sections :
        /\ DrawerHeadingHighlighted(s) = SidebarHeadingHighlighted(s)
        /\ \A i \in Entries(s) : DrawerLinkHighlighted(s, i) = SidebarLinkHighlighted(s, i)

(* Spec 4.3 and 8: navigate-and-close is one transition; a navigation     *)
(* started from a drawer entry arrives with the drawer closed.  Checked   *)
(* to be violated: onClick closes the drawer, the navigation commits      *)
(* later, and the menu button can reopen the drawer in between.           *)
NavigateAndCloseAtomic ==
    [][ (/\ pending # NoNav
         /\ pending.via = "drawer"
         /\ pending' = NoNav
         /\ pathname' \in RouteForms(pending.href)) => ~open' ]_vars

(* Spec 4.3: the drawer state is not kept across navigations; whenever    *)
(* the route changes, the drawer is closed afterwards.  Checked to be     *)
(* violated: the Header stays mounted in the layout and only its drawer   *)
(* entries close it.                                                      *)
DrawerClosedAfterNavigation == [][pathname' # pathname => ~open']_vars

=============================================================================
