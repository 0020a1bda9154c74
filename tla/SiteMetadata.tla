----------------------------- MODULE SiteMetadata -----------------------------
(***************************************************************************)
(* The URLs the three pages of src/app declare about themselves, and the  *)
(* structured data the home page embeds, in a production or a development *)
(* build.  Next.js gives a page the layout's metadata with the page's own *)
(* top-level fields put over it (a shallow merge: a page that defines no  *)
(* openGraph inherits the layout's).  The router serves routes and the    *)
(* files of public/ under next.config.mjs's basePath, which is '/wrkr' in *)
(* production and '' otherwise; site.ts's SITE_BASE_PATH is '/wrkr' in    *)
(* every build.  Titles, descriptions and other display text are left out.*)
(*                                                                         *)
(*   prod   the build is a production build (NODE_ENV === 'production')    *)
(*   page   the page being rendered, as the route it is served at          *)
(*   faqs   the FAQ list handed to the FAQ emitter                         *)
(***************************************************************************)
EXTENDS Paths

CONSTANTS
    Question,   \* the questions a FAQ entry may carry
    Answer,     \* the answers a FAQ entry may carry
    MaxFaqs     \* the longest FAQ list the emitter is given

ASSUME MetadataAssumption == MaxFaqs \in Nat

FaqEntry == [question : Question, answer : Answer]

FaqLists == UNION {[1..n -> FaqEntry] : n \in 0..MaxFaqs}

(* The routes of app/page.tsx, app/docs/page.tsx and app/llms/page.tsx as *)
(* trailingSlash: true serves them.                                       *)
PageRoutes == {"/", "/docs/", "/llms/"}

(* Each page hands canonicalUrl its route as a path with the leading     *)
(* slash (app/page.tsx:10, docs/page.tsx:8, llms/page.tsx:8).             *)
ASSUME PageRoutesAssumption == \A r \in PageRoutes : r \in Path /\ StartsWithSlash(r)

(* The icon files of public/ the layout links.                            *)
IconFiles == {"/favicon.svg", "/favicon.ico"}

(* next.config.mjs: basePath: isProd ? '/wrkr' : ''.                       *)
RouterBase(isProd) == IF isProd THEN "/wrkr" ELSE ""

(* The path the exported site serves a route or a public file at.        *)
ServedPath(isProd, p) == RouterBase(isProd) \o p

(* site.ts: SITE_BASE_PATH = '/wrkr', the production basePath of          *)
(* next.config.mjs.                                                       *)
ASSUME SiteBaseAssumption == BasePath = RouterBase(TRUE)

(* Mutant of layoutMetadata: icon URLs written without SITE_BASE_PATH.    *)
layoutMetadataBareIcons ==
    [metadataBase |-> Origin \o BasePath,
     ogUrl        |-> "https://clyra-ai.github.io/wrkr",
     icons        |-> IconFiles]

(* layout.tsx metadata: metadataBase, openGraph.url and the icon URLs.    *)
layoutMetadata ==
    [metadataBase |-> Origin \o BasePath,
     ogUrl        |-> "https://clyra-ai.github.io/wrkr",
     icons        |-> {BasePath \o f : f \in IconFiles}]

(* app/page.tsx metadata: alternates.canonical.                           *)
homeMetadata == [canonical |-> canonicalUrl("/")]

(* Mutant of docsMetadata: the docs page names its route without the      *)
(* trailing slash, as the navigation tree writes it.                      *)
docsMetadataNoSlash == [canonical |-> canonicalUrl("/docs")]

(* app/docs/page.tsx metadata.                                            *)
docsMetadata == [canonical |-> canonicalUrl("/docs/")]

(* app/llms/page.tsx metadata.                                            *)
llmsMetadata == [canonical |-> canonicalUrl("/llms/")]

(* Next's metadata resolution: every top-level field the page sets        *)
(* replaces the layout's whole field; the others are the layout's.        *)
MergeMetadata(pageMeta, layoutMeta) ==
    [k \in DOMAIN pageMeta \cup DOMAIN layoutMeta |->
        IF k \in DOMAIN pageMeta THEN pageMeta[k] ELSE layoutMeta[k]]

(* The metadata Next.js resolves for a page: the page's fields over the   *)
(* layout's.                                                              *)
Resolved(r) ==
    CASE r = "/"      -> MergeMetadata(homeMetadata, layoutMetadata)
      [] r = "/docs/" -> MergeMetadata(docsMetadata, layoutMetadata)
      [] r = "/llms/" -> MergeMetadata(llmsMetadata, layoutMetadata)

(* Mutant of softwareApplicationJsonLd: softwareHelp names the docs page  *)
(* without its trailing slash.                                            *)
softwareApplicationJsonLdNoSlash ==
    [url          |-> "https://clyra-ai.github.io/wrkr/",
     softwareHelp |-> "https://clyra-ai.github.io/wrkr/docs"]

(* softwareApplicationJsonLd: its two URL fields, written as literals.    *)
softwareApplicationJsonLd ==
    [url          |-> "https://clyra-ai.github.io/wrkr/",
     softwareHelp |-> "https://clyra-ai.github.io/wrkr/docs/"]

(* faqJsonLd: mainEntity is faqs.map(entry => Question(name, Answer(text))).*)
faqJsonLd(list) ==
    [mainEntity |-> [i \in DOMAIN list |->
        [name |-> list[i].question,
         acceptedAnswer |-> [text |-> list[i].answer]]]]

VARIABLES prod, page, faqs

metaVars == <<prod, page, faqs>>

(* A build of either kind, any of its pages, any FAQ list.                *)
Init ==
    /\ prod \in BOOLEAN
    /\ page \in PageRoutes
    /\ faqs \in FaqLists

(* The reader moves to another page of the same build.                    *)
VisitPage ==
    /\ page' \in PageRoutes
    /\ UNCHANGED <<prod, faqs>>

(* The FAQ emitter is given another list.                                 *)
EmitFaqs ==
    /\ faqs' \in FaqLists
    /\ UNCHANGED <<prod, page>>

Next == VisitPage \/ EmitFaqs

Spec == Init /\ [][Next]_metaVars

-----------------------------------------------------------------------------
TypeOK ==
    /\ prod \in BOOLEAN
    /\ page \in PageRoutes
    /\ faqs \in FaqLists

(* In a production build, the canonical URL every page declares through   *)
(* canonicalUrl is the URL the site serves it at: SITE_BASE_PATH, the     *)
(* router's basePath and trailingSlash agree, and no page's canonical is  *)
(* lost in the merge with the layout.                                     *)
ProdCanonicalServed ==
    prod => Resolved(page).canonical = Origin \o ServedPath(prod, page)

(* In a production build, the URLs the home page's JSON-LD hard-codes are *)
(* the served URLs of the home and docs pages.                            *)
JsonLdUrlsServed ==
    prod /\ page = "/" =>
        /\ softwareApplicationJsonLd.url = Origin \o ServedPath(prod, "/")
        /\ softwareApplicationJsonLd.softwareHelp
               = Origin \o ServedPath(prod, "/docs/")

(* In a production build, every icon URL of the layout is the path the    *)
(* site serves one of the icon files at.                                  *)
ProdIconsServed ==
    prod => Resolved(page).icons = {ServedPath(prod, f) : f \in IconFiles}

(* Spec 4.1 and 6: a page's metadata carries its canonical URL; the       *)
(* og:url it declares is that URL.  Checked to be violated: layout.tsx    *)
(* hard-codes og:url without the trailing slash, and every page inherits  *)
(* it.                                                                    *)
OgUrlIsCanonical == Resolved(page).ogUrl = Resolved(page).canonical

(* Spec 4.1 and 7: the base path is owned by SiteConfig alone, so every   *)
(* icon URL resolves in every build.  Checked to be violated: the router  *)
(* drops its own copy of the base path outside production.                *)
IconsServedInEveryBuild ==
    Resolved(page).icons = {ServedPath(prod, f) : f \in IconFiles}

=============================================================================
