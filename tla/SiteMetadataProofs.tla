-------------------------- MODULE SiteMetadataProofs --------------------------
(***************************************************************************)
(* Proofs about SiteMetadata for every origin, FAQ vocabulary and bound on *)
(* the FAQ list.                                                           *)
(***************************************************************************)
EXTENDS SiteMetadata, SequenceTheorems, TLAPS

(* The type invariant holds initially and is kept by every step.          *)
THEOREM MetaTypeCorrect == Spec => []TypeOK
<1>1. Init => TypeOK
  BY DEF Init, TypeOK
<1>2. TypeOK /\ [Next]_metaVars => TypeOK'
  BY DEF TypeOK, Next, VisitPage, EmitFaqs, metaVars
<1>3. QED
  BY <1>1, <1>2, PTL DEF Spec

(* Next's shallow merge keeps a field of the layout that the page does    *)
(* not set.                                                               *)
LEMMA MergeKeepsLayoutField ==
    ASSUME NEW pageMeta, NEW layoutMeta, NEW k \in DOMAIN layoutMeta,
           k \notin DOMAIN pageMeta
    PROVE  MergeMetadata(pageMeta, layoutMeta)[k] = layoutMeta[k]
BY DEF MergeMetadata

(* No page of src/app sets icons: every page resolves to the layout's.    *)
LEMMA PagesInheritIcons ==
    ASSUME NEW r \in PageRoutes
    PROVE  Resolved(r).icons = layoutMetadata.icons
<1>1. "icons" \in DOMAIN layoutMetadata
  BY DEF layoutMetadata
<1>2. /\ "icons" \notin DOMAIN homeMetadata
      /\ "icons" \notin DOMAIN docsMetadata
      /\ "icons" \notin DOMAIN llmsMetadata
  BY DEF homeMetadata, docsMetadata, llmsMetadata
<1>3. /\ MergeMetadata(homeMetadata, layoutMetadata).icons = layoutMetadata.icons
      /\ MergeMetadata(docsMetadata, layoutMetadata).icons = layoutMetadata.icons
      /\ MergeMetadata(llmsMetadata, layoutMetadata).icons = layoutMetadata.icons
  BY <1>1, <1>2, MergeKeepsLayoutField
<1>4. QED
  BY <1>3 DEF Resolved, PageRoutes

(* In a production build every icon URL of every page is where the export *)
(* serves an icon file, for every origin: the layout prefixes each file   *)
(* with SITE_BASE_PATH, which is the router's production basePath, and no *)
(* page's metadata overrides the layout's icons.                          *)
THEOREM ProdIconsAlwaysServed == Spec => []ProdIconsServed
<1>1. TypeOK => ProdIconsServed
  <2> SUFFICES ASSUME TypeOK, prod
               PROVE  Resolved(page).icons = {ServedPath(prod, f) : f \in IconFiles}
    BY DEF ProdIconsServed
  <2>1. Resolved(page).icons = {BasePath \o f : f \in IconFiles}
    BY PagesInheritIcons DEF TypeOK, layoutMetadata
  <2>2. \A f \in IconFiles : ServedPath(prod, f) = BasePath \o f
    BY SiteBaseAssumption DEF ServedPath
  <2>3. QED
    BY <2>1, <2>2
<1>2. QED
  BY <1>1, MetaTypeCorrect, PTL

(* Next's shallow merge takes a field the page sets from the page.        *)
LEMMA MergeTakesPageField ==
    ASSUME NEW pageMeta, NEW layoutMeta, NEW k \in DOMAIN pageMeta
    PROVE  MergeMetadata(pageMeta, layoutMeta)[k] = pageMeta[k]
BY DEF MergeMetadata

(* Every page's resolved canonical URL is the one it builds from its own  *)
(* route with canonicalUrl.                                               *)
LEMMA PagesKeepCanonical ==
    ASSUME NEW r \in PageRoutes
    PROVE  Resolved(r).canonical = canonicalUrl(r)
<1>1. /\ "canonical" \in DOMAIN homeMetadata
      /\ "canonical" \in DOMAIN docsMetadata
      /\ "canonical" \in DOMAIN llmsMetadata
  BY DEF homeMetadata, docsMetadata, llmsMetadata
<1>2. /\ MergeMetadata(homeMetadata, layoutMetadata).canonical = canonicalUrl("/")
      /\ MergeMetadata(docsMetadata, layoutMetadata).canonical = canonicalUrl("/docs/")
      /\ MergeMetadata(llmsMetadata, layoutMetadata).canonical = canonicalUrl("/llms/")
  BY <1>1, MergeTakesPageField DEF homeMetadata, docsMetadata, llmsMetadata
<1>3. QED
  BY <1>2 DEF Resolved, PageRoutes

(* In a production build, every page's canonical URL is the URL the       *)
(* export serves it at, for every origin: each page passes its own        *)
(* slash-led route, Normalize leaves it alone, SITE_BASE_PATH is the      *)
(* production basePath, and the merge keeps the page's canonical.         *)
THEOREM ProdCanonicalAlwaysServed == Spec => []ProdCanonicalServed
<1>1. TypeOK => ProdCanonicalServed
  <2> SUFFICES ASSUME TypeOK, prod
               PROVE  Resolved(page).canonical = Origin \o ServedPath(prod, page)
    BY DEF ProdCanonicalServed
  <2>1. page \in Path /\ StartsWithSlash(page)
    BY PageRoutesAssumption DEF TypeOK
  <2>2. Resolved(page).canonical = (Origin \o BasePath) \o page
    BY <2>1, PagesKeepCanonical DEF TypeOK, canonicalUrl, Normalize
  <2>3. ServedPath(prod, page) = BasePath \o page
    BY SiteBaseAssumption DEF ServedPath
  <2>4. \A x, y, z \in Seq(Char) : (x \o y) \o z = x \o (y \o z)
    BY ConcatAssociative
  <2>5. (Origin \o BasePath) \o page = Origin \o (BasePath \o page)
    BY <2>1, <2>4, PathsAssumption DEF Path
  <2>6. QED
    BY <2>2, <2>3, <2>5
<1>2. QED
  BY <1>1, MetaTypeCorrect, PTL

=============================================================================
