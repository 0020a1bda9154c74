# Formal models of the Wrkr docs site

This directory holds TLA+ models of `src/docs-site`. That is the Next.js
static site that documents Wrkr. The models are checked with TLC, and the
main invariants are proved with TLAPS.

## The system

The site is small, but its client side has more behaviour than its size
suggests.

| Part | Source | State | Operations |
|---|---|---|---|
| Site config and canonical URL builder | `src/lib/site.ts` | none (pure) | `canonicalUrl(pathname)` |
| Active-route matcher | `src/components/Sidebar.tsx` 9, 27 | none (pure); reads `usePathname()` | `NavLink` rule, `Section` inline copy |
| Navigation tree | `src/lib/navigation.ts` | constant | read by Header and Sidebar |
| Header with drawer | `src/components/Header.tsx` | `open` (`useState(false)`) | toggle button, logo link, drawer entries (`onClick={() => setOpen(false)}`) |
| Sidebar | `src/components/Sidebar.tsx` | none; renders highlight flags | entry links, logo link, "LLM Context" link |
| Root layout | `src/app/layout.tsx` | keeps Header and Sidebar mounted | page content in `<main>` |
| Pages | `src/app/page.tsx`, `app/docs/page.tsx`, `app/llms/page.tsx` | constant link lists, JSON-LD | content links |
| Page metadata and JSON-LD | `app/layout.tsx` 7-45, `app/*/page.tsx` metadata, `app/page.tsx` 90-119 | constant per build | Next merges each page's metadata over the layout's; `faqJsonLd` maps the FAQ list |
| Build config | `next.config.mjs` | `basePath` (`'/wrkr'` in production, `''` otherwise), `trailingSlash: true` | — |

The parts interact as follows.

- The layout mounts `Header` (CSS `lg:hidden`) and `Sidebar` (`hidden lg:block`) on every page.
- A client-side navigation replaces only the page content. Header's `open` therefore survives it.
- A `next/link` click runs the link's `onClick` synchronously, then starts an asynchronous router transition. That transition later commits, is superseded by a newer one, or falls back to a full document load.
- With `trailingSlash: true`, the router may report a route with or without its trailing slash. The matcher accepts both forms of the pathname.

## Modules

- `Paths.tla` holds the pure path operations.
  - A path is a sequence over a character set `Char`.
  - `Normalize` and `canonicalUrl` come from site.ts:4-7.
  - `isActive` comes from Sidebar.tsx:9.
  - `sectionActive` comes from Sidebar.tsx:27.
  - It also defines the mutant forms of these operators that the mutant runs use.
- `PathsProbe.tla` is a harness for the path properties.
  - Two variables `pathname` and `other` each range over a set `Inputs` of paths.
  - Every pair of inputs is a reachable state.
  - The path properties are invariants of this harness. Each one is stated once and is both model-checked and proved.
- `WrkrNavigation.tla` holds the site's link data.
  - It has the seven sections of navigation.ts with their titles, hrefs and child hrefs.
  - It has the link targets of the three page bodies.
- `Session.tla` models one browser tab.
  - Variables:
    - `pathname` is the router's current route.
    - `pending` is the navigation in flight. Its ghost field `via` records which control started it.
    - `open` is Header's drawer state.
    - `wide` records which breakpoint is shown.
  - User actions, one per control in the code:
    - `ToggleDrawer` (Header.tsx:20)
    - `SelectDrawerLink` (Header.tsx:25-45). It requires `open`, because the drawer is rendered only then. It closes the drawer and starts the navigation.
    - `SelectHeaderLogo` (Header.tsx:13)
    - `SelectSidebarLink` and `SelectSidebarFooter` (Sidebar.tsx:11-22, 43-59)
    - `SelectContentLink` (the page bodies)
  - Environment actions, for the router and the browser:
    - `CommitNavigation`: a client transition commits. The layout stays mounted, so `open` is unchanged.
    - `HardNavigation`: a full load. The Header remounts with `useState(false)`.
    - `Reload`
    - `TraverseHistory`: back or forward.
    - `Resize`: the viewport crosses `lg`. CSS swaps the two components and neither unmounts.
  - State functions give what each renderer highlights for the current route. The drawer's flags are constantly FALSE, because its classes are fixed.
  - `DrawerSelection` is a refinement mapping. It reads off the navigation in flight the leaf that a drawer entry handed to the router. `Contract == INSTANCE DrawerContract WITH ...` maps the tab onto the drawer contract.
- `DrawerContract.tla` is the abstract specification of the drawer from spec §4.3 and §9.
  - OpenState is an explicit boolean with two named transitions: `Toggle`, and `NavigateAndClose`, which hands a leaf to the router and closes in one step.
  - `Deliver`: the router takes the leaf.
  - `Remount`: the drawer starts closed again.
- `SiteMetadata.tla` models the URLs the three pages declare and the home page's structured data.
  - Variables: `prod` (the build kind), `page` (the page rendered) and `faqs` (the list handed to the FAQ emitter).
  - `layoutMetadata`, `homeMetadata`, `docsMetadata` and `llmsMetadata` come from the `metadata` exports.
  - `Resolved(r)` is Next's shallow merge of a page's fields over the layout's. The merge itself is written out as `MergeMetadata`: a field the page sets replaces the layout's whole field.
- `SiteBaseAssumption` records that `SITE_BASE_PATH` (site.ts) equals the production `basePath` of next.config.mjs. Both are the literal `'/wrkr'`, and TLC evaluates the assumption on every metadata run.
  - `RouterBase` and `ServedPath` come from next.config.mjs. `basePath` depends on `isProd`, and routes are served in their trailing-slash form.
  - `softwareApplicationJsonLd` keeps its two URL fields. `faqJsonLd` is the `faqs.map` emitter.
  - Display text is abstracted to model values.
- `MCPaths.tla`, `MCSession.tla` and `MCSiteMetadata.tla` instantiate these modules for TLC. They use the real origin `https://clyra-ai.github.io`, base path `/wrkr`, navigation tree and page links.
- `PathsLemmas.tla` holds generic lemmas about putting a slash before or after a path, and taking it off again. `PathsProofs.tla` and `SessionProofs.tla` hold the TLAPS proofs and build on those lemmas.
- `SiteMetadataProofs.tla` holds the proofs about page metadata.

## Runs

| Run | Expect | What it shows |
|---|---|---|
| `paths_ops` | pass | See below. |
| `paths_symmetric` | violation | The spec's matcher (spec §4.2, §8) also accepts `href = pathname + '/'`. The code's does not: pathname `/` against href `//`. No href of the current navigation ends in a slash, so this is latent until one is added in that form. |
| `paths_base_once` | violation | Spec §4.1/§8 says the base path occurs exactly once. `canonicalUrl('/wrkr')` yields `…/wrkr/wrkr`. |
| `session_nav` | pass | See below. |
| `meta_urls` | pass | See below. |
| `meta_og_url` | violation | Every page inherits the layout's literal og:url `https://clyra-ai.github.io/wrkr`. `/docs/` and `/llms/` therefore share the home page's og:url, and home's lacks the trailing slash of its canonical URL. The first half is a bug on any reading; the second depends on how Next serialises the URL, which is not modelled. |
| `meta_icons_dev` | violation | Outside production, next.config.mjs sets `basePath` to `''`, while the icon URLs keep `SITE_BASE_PATH`. The favicons are linked at `/wrkr/favicon.*` and served at `/favicon.*`. |
| `session_drawer_flags` | violation | Spec §8 says the drawer and the sidebar report identical flags. The drawer reports none. |
| `session_atomic_close` | violation | Spec §4.3 says navigate-and-close is one step. The trace is: open the drawer, click an entry (it closes), reopen it before the commit, commit. The new page shows the drawer open. |
| `session_drawer_persists` | violation | Spec §4.3 says OpenState does not persist across navigations. Back/forward, the logo link or a content link change the route while the drawer stays open. |

`paths_ops` checks two things over all 40 paths of up to three tokens:

- `canonicalUrl` identifies two paths exactly when they differ only by a missing leading slash.
- Every canonical URL starts with `origin/wrkr/`.

`session_nav` checks three things in every interleaving of clicks, commits, reloads, history steps and resizes on the real navigation data:

- **`HeadingHighlightMatchesLinks`**: a sidebar heading is lit exactly when one of its entries is.
- **`HighlightIsCurrentPage`**: the lit entries are exactly those whose href is the page shown. This holds whether the router reports the route with or without its trailing slash. Aliased entries light together (spec §8).
- **`DrawerImplementsContract`**: the refinement, checked as a temporal PROPERTY.
  - Header's drawer implements `DrawerContract`.
  - The mapping takes `open` to OpenState. It takes the href of a navigation started from the drawer, until the router takes it, to the handed-over leaf.
  - It shows that Header's own state machine is the spec's two-transition machine.
  - The atomicity and persistence violations below come from what the router does after the drawer hands over. Header's own transitions do not cause them.

`meta_urls` checks, over both builds, the three pages and every FAQ list of up to three entries (240 states):

- **`ProdCanonicalServed`**: in production, each page's canonical URL is the URL the export serves it at.
- **`JsonLdUrlsServed`**: in production, the home page's hard-coded JSON-LD `url` and `softwareHelp` are the served URLs of home and docs.
- **`ProdIconsServed`**: in production, the icon URLs are the served paths of the icon files.

The FAQ emitter (`faqJsonLd`, the `faqs.map` of page.tsx) is modelled and exercised by `EmitFaqs`, but no property is claimed about it: a `.map` keeps length, order and duplicates by its definition, so such a property could only restate the operator.

React sibling keys are a fact about the constant tree, not about any step. `MCSession` therefore checks them as `ASSUME NavigationKeysUnique`, which TLC evaluates on every run of that model. It requires distinct section titles, and distinct entry hrefs within a section. A tree with a repeated entry makes the assumption fail.

The four session violations and the two metadata violations are genuine disagreements between the spec and the code. They are listed under `findings` in PROJECT.json.

### Bounds

The path runs use every concatenation of up to three of the tokens `/`, `docs` and `wrkr`, including the empty path. This covers the cases the code distinguishes:

- a missing leading slash;
- a trailing slash;
- a doubled slash;
- the empty path;
- a path that already contains the base path.

The session run uses the full navigation data (about 80 route forms) and the real page link lists. It explores all 43,612 states. A session has no counters, so no bound is needed.

### Fairness

None. Every action is a user click or an event of the browser or router that may never happen. Nothing in the code forces one to happen, and no liveness property is claimed.

## Mutants

Each property of a passing run is broken by a plausible bug in the code it is about:

- `canonicalUrl` without normalisation breaks both canonical URL properties.
- `Section`'s inline copy without the slashed form breaks `HeadingHighlightMatchesLinks`.
- A prefix matcher (`pathname.startsWith(href)`) breaks `HighlightIsCurrentPage`.
- A drawer entry without its `onClick` close breaks `DrawerImplementsContract`.
- The docs page's canonical written as `'/docs'` breaks `ProdCanonicalServed`.
- `softwareHelp` written without its trailing slash breaks `JsonLdUrlsServed`.
- Icon URLs without `SITE_BASE_PATH` break `ProdIconsServed`.

## Proofs

The following are proved for every value of the constants that satisfies the modules' assumptions:

- **`TypeCorrect`** (SessionProofs): `Spec => []TypeOK` for any navigation tree and page-link map.
  - The proof is by induction, with one case per action.
  - It rests on three lemmas: the route forms, the child hrefs and the routes are all paths.
- **`HeadingHighlightAlwaysMatches`** (SessionProofs): the sidebar's two copies of the matching rule agree for every tree. The state predicate is valid from the definitions alone, so it holds in every state.
- **`HighlightAlwaysCurrentPage`** (SessionProofs): the lit entries are exactly the entries of the page shown, on every reachable route.
  - It holds for every tree satisfying `NavHrefsAssumption`: hrefs start with `/` and have no trailing slash (spec §3; TLC checks this for the real tree).
  - Lemma `ActiveIsPage` shows that `isActive(p, c)` holds iff `c = PageOf(p)`. It uses `SplitLastSlash` and `DropSlashLast` from PathsLemmas.
  - The theorem follows from `TypeCorrect`.
- **`DrawerRefinement`** (SessionProofs): `Spec => Contract!Spec`.
  - Initial states map to the contract's initial state.
  - Each action is one case of the proof. A drawer entry maps to `NavigateAndClose`, the toggle to `Toggle`, and reloads and hard loads to `Remount`.
  - Any other step that ends a drawer navigation maps to `Deliver`. Every other step is a stutter of the contract.
  - A shared step covers every action that leaves `open` alone and clears the handed-over leaf.
- **`CanonicalAlwaysUnderBase`** (PathsProofs): the canonical URL always has `Origin \o BasePath \o Slash` as a prefix.
  - `Normalize(p)` is `Slash \o r` for some path `r`.
  - The claim then follows from the associativity of concatenation and `SubSeq` of a concatenation.
- **`CanonicalAlwaysSameResource`** (PathsProofs): two canonical URLs are equal iff the paths are equal up to a leading slash.
  - It follows from left cancellation of concatenation.
  - It also uses lemma `NormalizeSame`, which splits into four cases on the leading slashes of the two paths.
- **`ProdCanonicalAlwaysServed`** (SiteMetadataProofs): `Spec => []ProdCanonicalServed`, for every origin.
  - Lemma `MergeTakesPageField` shows that the merge takes a field the page sets from the page. Lemma `PagesKeepCanonical` applies it to the three pages.
  - `PageRoutesAssumption` makes `Normalize` the identity on each page's route. `SiteBaseAssumption` makes the served path `BasePath \o route`.
  - The theorem then follows by the associativity of concatenation.
- **`MetaTypeCorrect`** (SiteMetadataProofs): the type invariant of the metadata model.
- **`ProdIconsAlwaysServed`** (SiteMetadataProofs): `Spec => []ProdIconsServed`, for every origin.
  - Lemma `MergeKeepsLayoutField` shows that the merge keeps a layout field the page does not set.
  - Lemma `PagesInheritIcons` applies it to the three pages: none of them sets `icons`.
  - `SiteBaseAssumption` then makes each icon URL the served path.
None of these invariants needed strengthening. The path properties are state predicates that are valid for every input, so the inductive invariant is the predicate itself together with `TypeOK`.

**Only model-checked:**

- the violations;
- `NavigationKeysUnique`, which is a fact about the concrete data;
- `JsonLdUrlsServed`. It compares the literal `'https://clyra-ai.github.io/wrkr/docs/'` with the concatenation `Origin \o "/wrkr" \o "/docs/"`. The provers treat a string literal as an opaque value: they cannot show `"/wrkr" \o "/docs/" = "/wrkr/docs/"`. The property therefore stays with TLC, which evaluates strings as sequences of characters.
- The assumptions on literals: `PageRoutesAssumption` (each page's route is a path that starts with `/`) and `SiteBaseAssumption` (`SITE_BASE_PATH` is the production `basePath`). TLC evaluates both on every metadata run.

**Out of TLAPS's reach:** liveness and `ENABLED`, induction over data, and modules with `RECURSIVE` operators. None of these occurs in the proved modules.

## Not modelled

- **Display text:** the wording of titles, descriptions, FAQ questions and answers, and the JSON-LD fields that are fixed strings (type, category, price).
- **The og image path** (`/og.svg`). How Next resolves it against `metadataBase` belongs to the framework.
- **Styling and the Tailwind config.**
- **next/link and the router.** They are not code of this repository and appear only as environment actions.

## Plan for later work

1. Find a session invariant that relates the drawer to the navigation in flight. One candidate is "a drawer navigation commits with the drawer closed, unless the toggle ran after it started". Prove it.
