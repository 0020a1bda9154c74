---------------------------- MODULE SessionProofs ----------------------------
(***************************************************************************)
(* Proofs about Session for every navigation tree, page-link table and     *)
(* alphabet that satisfy the constant assumptions.                         *)
(***************************************************************************)
EXTENDS Session, PathsLemmas

(* Every route form the router can report is a path.                      *)
LEMMA RouteFormsArePaths ==
    ASSUME NEW h \in Path
    PROVE  RouteForms(h) \subseteq Path
<1>1. h \o Slash \in Seq(Char)
  BY PathsAssumption DEF Path
<1>2. QED
  BY <1>1 DEF RouteForms, Path

(* Every entry of the navigation tree is a path.                          *)
LEMMA ChildIsPath ==
    ASSUME NEW s \in Sections, NEW i \in Entries(s)
    PROVE  Child(s, i) \in Path
<1> DEFINE Item == [title : STRING, href : Path, children : Seq(Path)]
<1>1. Navigation[s] \in Item
  BY SessionAssumption, ElementOfSeq DEF Sections
<1>2. Navigation[s].children \in Seq(Path)
  BY <1>1
<1>3. QED
  BY <1>2 DEF Child, Entries

(* Every href the site links to is a path.                                *)
LEMMA RoutesArePaths == Routes \subseteq Path
<1>1. NavHrefs \subseteq Path
  BY ChildIsPath DEF NavHrefs
<1>2. UNION {PageLinks[r] : r \in DOMAIN PageLinks} \subseteq Path
  BY SessionAssumption
<1>3. QED
  BY <1>1, <1>2, SessionAssumption DEF Routes

LEMMA RoutePathsArePaths == RoutePaths \subseteq Path
BY RoutesArePaths, RouteFormsArePaths DEF RoutePaths

(* The type invariant holds initially and is kept by every step.          *)
THEOREM TypeCorrect == Spec => []TypeOK
<1>1. Init => TypeOK
  BY RoutePathsArePaths DEF Init, TypeOK
<1>2. TypeOK /\ [Next]_vars => TypeOK'
  <2> SUFFICES ASSUME TypeOK, [Next]_vars PROVE TypeOK'
    OBVIOUS
  <2>1. ASSUME NEW h \in Path, NEW v \in Via, Start(h, v) PROVE pending' \in Request
    BY <2>1 DEF Start, Request
  <2>2. CASE ToggleDrawer
    BY <2>2 DEF ToggleDrawer, TypeOK
  <2>3. CASE SelectDrawerLink
    <3>0. PICK s \in Sections : \E i \in Entries(s) : Start(Child(s, i), "drawer")
      BY <2>3 DEF SelectDrawerLink
    <3>1. PICK i \in Entries(s) : Start(Child(s, i), "drawer")
      BY <3>0
    <3>2. Child(s, i) \in Path
      BY ChildIsPath
    <3>3. QED
      BY <2>1, <2>3, <3>1, <3>2 DEF SelectDrawerLink, TypeOK, Via
  <2>4. CASE SelectHeaderLogo
    BY <2>1, <2>4, SessionAssumption DEF SelectHeaderLogo, TypeOK, Via
  <2>5. CASE SelectSidebarLink
    <3>0. PICK s \in Sections : \E i \in Entries(s) : Start(Child(s, i), "sidebar")
      BY <2>5 DEF SelectSidebarLink
    <3>1. PICK i \in Entries(s) : Start(Child(s, i), "sidebar")
      BY <3>0
    <3>2. Child(s, i) \in Path
      BY ChildIsPath
    <3>3. QED
      BY <2>1, <2>5, <3>1, <3>2 DEF SelectSidebarLink, TypeOK, Via
  <2>6. CASE SelectSidebarFooter
    BY <2>1, <2>6, SessionAssumption DEF SelectSidebarFooter, TypeOK, Via
  <2>7. CASE SelectContentLink
    <3>1. PICK h \in ContentLinks(pathname) : Start(h, "content")
      BY <2>7 DEF SelectContentLink
    <3>2. h \in Path
      BY <3>1, RoutesArePaths, SessionAssumption DEF ContentLinks
    <3>3. QED
      BY <2>1, <2>7, <3>1, <3>2 DEF SelectContentLink, TypeOK, Via
  <2>8. CASE CommitNavigation
    BY <2>8, RouteFormsArePaths DEF CommitNavigation, TypeOK, Request
  <2>9. CASE HardNavigation
    BY <2>9, RouteFormsArePaths DEF HardNavigation, TypeOK, Request
  <2>10. CASE Reload
    BY <2>10 DEF Reload, TypeOK
  <2>11. CASE TraverseHistory
    BY <2>11, RoutePathsArePaths DEF TraverseHistory, TypeOK
  <2>12. CASE Resize
    BY <2>12 DEF Resize, TypeOK
  <2>13. CASE UNCHANGED vars
    BY <2>13 DEF vars, TypeOK
  <2>14. QED
    BY <2>2, <2>3, <2>4, <2>5, <2>6, <2>7, <2>8, <2>9, <2>10, <2>11,
       <2>12, <2>13 DEF Next
<1>3. QED
  BY <1>1, <1>2, PTL DEF Spec

(* The heading rule of Section and the entry rule of NavLink agree on     *)
(* every route and every section, whatever the tree: the heading is lit   *)
(* exactly when one of its entries is.                                    *)
THEOREM HeadingHighlightAlwaysMatches == Spec => []HeadingHighlightMatchesLinks
<1>1. HeadingHighlightMatchesLinks
  BY DEF HeadingHighlightMatchesLinks, SidebarHeadingHighlighted,
         SidebarLinkHighlighted, sectionActive, isActive, Child, Entries
<1>2. QED
  BY <1>1, PTL DEF Spec

(* The sidebar's entry rule, applied to an href written with a leading   *)
(* slash and no trailing one, holds exactly when the href is the page the *)
(* path shows.                                                            *)
LEMMA ActiveIsPage ==
    ASSUME NEW p \in Path, NEW c \in Path, StartsWithSlash(c), ~EndsWithSlash(c)
    PROVE  isActive(p, c) <=> c = PageOf(p)
<1>1. ASSUME p = c PROVE c = PageOf(p)
  BY <1>1 DEF PageOf
<1>2. ASSUME p = c \o Slash PROVE c = PageOf(p)
  <2>1. EndsWithSlash(p)
    BY <1>2, SlashLast
  <2>2. Len(p) = Len(c) + 1 /\ SubSeq(p, 1, Len(c)) = c
    BY <1>2, DropSlashLast
  <2>3. Len(c) \in Nat /\ Len(c) >= 1
    BY DEF StartsWithSlash, Path
  <2>4. Len(p) > 1 /\ Len(p) - 1 = Len(c)
    BY <2>2, <2>3
  <2>5. QED
    BY <2>1, <2>2, <2>4 DEF PageOf
<1>3. ASSUME c = PageOf(p) PROVE isActive(p, c)
  <2>1. CASE EndsWithSlash(p) /\ Len(p) > 1
    <3>1. c = SubSeq(p, 1, Len(p) - 1)
      BY <1>3, <2>1 DEF PageOf
    <3>2. p = c \o Slash
      BY <2>1, <3>1, SplitLastSlash
    <3>3. QED
      BY <3>2 DEF isActive
  <2>2. CASE ~(EndsWithSlash(p) /\ Len(p) > 1)
    BY <1>3, <2>2 DEF PageOf, isActive
  <2>3. QED
    BY <2>1, <2>2
<1>4. QED
  BY <1>1, <1>2, <1>3 DEF isActive

(* On every reachable route, the sidebar lights exactly the entries whose *)
(* href is the page shown, for every tree whose hrefs start with '/' and  *)
(* carry no trailing slash.                                               *)
THEOREM HighlightAlwaysCurrentPage == Spec => []HighlightIsCurrentPage
<1>1. TypeOK => HighlightIsCurrentPage
  <2> SUFFICES ASSUME TypeOK, NEW s \in Sections, NEW i \in Entries(s)
               PROVE  SidebarLinkHighlighted(s, i) <=> Child(s, i) = PageOf(pathname)
    BY DEF HighlightIsCurrentPage
  <2>1. Child(s, i) \in Path
    BY ChildIsPath
  <2>2. StartsWithSlash(Child(s, i)) /\ ~EndsWithSlash(Child(s, i))
    BY NavHrefsAssumption DEF NavHrefs
  <2>3. QED
    BY <2>1, <2>2, ActiveIsPage DEF SidebarLinkHighlighted, TypeOK
<1>2. QED
  BY <1>1, TypeCorrect, PTL

(* Header implements the drawer contract of spec 9 (DrawerContract), with *)
(* the drawer's handed-over leaf read off the navigation in flight.       *)
THEOREM DrawerRefinement == Spec => DrawerImplementsContract
<1>1. Init => Contract!Init
  BY DEF Init, Contract!Init, DrawerSelection
<1>2. TypeOK /\ [Next]_vars => [Contract!Next]_Contract!contractVars
  <2> SUFFICES ASSUME TypeOK, [Next]_vars
               PROVE  [Contract!Next]_Contract!contractVars
    OBVIOUS
  <2>1. ASSUME DrawerSelection' = NoNav, open' = open
        PROVE  [Contract!Next]_Contract!contractVars
    <3>1. CASE DrawerSelection = NoNav
      BY <2>1, <3>1 DEF Contract!contractVars
    <3>2. CASE DrawerSelection # NoNav
      BY <2>1, <3>2 DEF Contract!Next, Contract!Deliver
    <3>3. QED
      BY <3>1, <3>2
  <2>2. ASSUME NEW h \in Path, NEW v \in Via \ {"drawer"}, Start(h, v)
        PROVE  DrawerSelection' = NoNav
    BY <2>2 DEF Start, DrawerSelection, Via
  <2>3. CASE ToggleDrawer
    BY <2>3 DEF ToggleDrawer, DrawerSelection, Contract!Next, Contract!Toggle
  <2>4. CASE SelectDrawerLink
    <3>1. PICK s \in Sections : \E i \in Entries(s) : Start(Child(s, i), "drawer")
      BY <2>4 DEF SelectDrawerLink
    <3>2. PICK i \in Entries(s) : Start(Child(s, i), "drawer")
      BY <3>1
    <3>3. Child(s, i) \in NavHrefs /\ Child(s, i) \in Path
      BY ChildIsPath DEF NavHrefs
    <3>4. pending' # NoNav
      BY <3>2, <3>3, SessionAssumption DEF Start, Request, Via
    <3>5. DrawerSelection' = Child(s, i)
      BY <3>2, <3>4 DEF Start, DrawerSelection
    <3>6. QED
      BY <2>4, <3>3, <3>5 DEF SelectDrawerLink, Contract!Next,
                              Contract!NavigateAndClose
  <2>5. CASE SelectHeaderLogo
    BY <2>1, <2>2, <2>5, SessionAssumption DEF SelectHeaderLogo, Via
  <2>6. CASE SelectSidebarLink
    <3>1. PICK s \in Sections : \E i \in Entries(s) : Start(Child(s, i), "sidebar")
      BY <2>6 DEF SelectSidebarLink
    <3>2. PICK i \in Entries(s) : Start(Child(s, i), "sidebar")
      BY <3>1
    <3>3. Child(s, i) \in Path
      BY ChildIsPath
    <3>4. QED
      BY <2>1, <2>2, <2>6, <3>2, <3>3 DEF SelectSidebarLink, Via
  <2>7. CASE SelectSidebarFooter
    BY <2>1, <2>2, <2>7, SessionAssumption DEF SelectSidebarFooter, Via
  <2>8. CASE SelectContentLink
    <3>1. PICK h \in ContentLinks(pathname) : Start(h, "content")
      BY <2>8 DEF SelectContentLink
    <3>2. h \in Path
      BY <3>1, RoutesArePaths, SessionAssumption DEF ContentLinks
    <3>3. QED
      BY <2>1, <2>2, <2>8, <3>1, <3>2 DEF SelectContentLink, Via
  <2>9. CASE CommitNavigation
    BY <2>1, <2>9 DEF CommitNavigation, DrawerSelection
  <2>10. CASE HardNavigation
    BY <2>10 DEF HardNavigation, DrawerSelection, Contract!Next, Contract!Remount
  <2>11. CASE Reload
    BY <2>11 DEF Reload, DrawerSelection, Contract!Next, Contract!Remount
  <2>12. CASE TraverseHistory
    BY <2>1, <2>12 DEF TraverseHistory, DrawerSelection
  <2>13. CASE Resize
    BY <2>13 DEF Resize, DrawerSelection, Contract!contractVars
  <2>14. CASE UNCHANGED vars
    BY <2>14 DEF vars, DrawerSelection, Contract!contractVars
  <2>15. QED
    BY <2>3, <2>4, <2>5, <2>6, <2>7, <2>8, <2>9, <2>10, <2>11, <2>12,
       <2>13, <2>14 DEF Next
<1>3. QED
  BY <1>1, <1>2, TypeCorrect, PTL DEF Spec, DrawerImplementsContract, Contract!Spec

=============================================================================
