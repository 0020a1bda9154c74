---------------------------- MODULE WrkrNavigation ----------------------------
(***************************************************************************)
(* The site's static link data: the navigation tree of                     *)
(* src/lib/navigation.ts and the links in the bodies of the three pages of *)
(* src/app.  A section keeps its title (the React key of its block) and    *)
(* its href; an entry keeps only its href, the key of its link and the     *)
(* only field the matcher reads.  Entry titles are display text and are    *)
(* left out.                                                               *)
(***************************************************************************)
EXTENDS Sequences

Section(title, href, children) ==
    [title |-> title, href |-> href, children |-> children]

startHere == Section("Start Here", "/docs",
    <<"/docs/adopt_in_one_pr", "/docs/examples/quickstart",
      "/docs/integration_checklist", "/docs/faq">>)

intentGuides == Section("Intent Guides",
    "/docs/intent/scan-org-repos-for-ai-agents-configs",
    <<"/docs/intent/scan-org-repos-for-ai-agents-configs",
      "/docs/intent/detect-headless-agent-risk",
      "/docs/intent/generate-compliance-evidence-from-scans",
      "/docs/intent/gate-on-drift-and-regressions">>)

technicalFoundations == Section("Technical Foundations", "/docs/architecture",
    <<"/docs", "/docs/architecture", "/docs/concepts/mental_model",
      "/docs/policy_authoring", "/docs/failure_taxonomy_exit_codes",
      "/docs/threat_model">>)

trustAndContracts == Section("Trust and Contracts",
    "/docs/trust/deterministic-guarantees",
    <<"/docs/trust/deterministic-guarantees",
      "/docs/trust/detection-coverage-matrix",
      "/docs/trust/proof-chain-verification",
      "/docs/trust/contracts-and-schemas",
      "/docs/contracts/compatibility_matrix",
      "/docs/trust/security-and-privacy", "/docs/trust/release-integrity",
      "/docs/specs/wrkr-manifest">>)

commandReference == Section("Command Reference", "/docs/commands/index",
    <<"/docs/commands/index", "/docs/commands/root", "/docs/commands/scan",
      "/docs/commands/report", "/docs/commands/score",
      "/docs/commands/verify", "/docs/commands/evidence",
      "/docs/commands/regress", "/docs/commands/fix">>)

positioning == Section("Positioning", "/docs/positioning",
    <<"/docs/positioning", "/docs/evidence_templates",
      "/docs/examples/operator-playbooks">>)

docsHub == Section("Docs Hub", "/docs",
    <<"/docs", "/llms", "/llms.txt", "/llms-full.txt", "/ai-sitemap.xml">>)

(* export const navigation: NavItem[]                                     *)
navigation ==
    <<startHere, intentGuides, technicalFoundations, trustAndContracts,
      commandReference, positioning, docsHub>>

(* Links in the body of the home page: hero, feature cards, call to action.*)
homeLinks ==
    {"/docs/examples/quickstart",
     "/docs/intent/scan-org-repos-for-ai-agents-configs",
     "/docs/intent/detect-headless-agent-risk",
     "/docs/intent/generate-compliance-evidence-from-scans",
     "/docs/intent/gate-on-drift-and-regressions",
     "/docs/specs/wrkr-manifest", "/llms", "/docs"}

(* Links of the six tracks of the docs home page.                         *)
docsLinks ==
    {"/docs/adopt_in_one_pr", "/docs/examples/quickstart",
     "/docs/integration_checklist", "/docs/commands/index",
     "/docs/commands/scan",
     "/docs/intent/scan-org-repos-for-ai-agents-configs",
     "/docs/intent/detect-headless-agent-risk",
     "/docs/intent/generate-compliance-evidence-from-scans",
     "/docs/intent/gate-on-drift-and-regressions",
     "/docs/architecture", "/docs/concepts/mental_model",
     "/docs/policy_authoring", "/docs/failure_taxonomy_exit_codes",
     "/docs/threat_model", "/docs/commands/verify",
     "/docs/commands/evidence", "/docs/specs/wrkr-manifest",
     "/docs/contracts/compatibility_matrix",
     "/docs/trust/proof-chain-verification",
     "/docs/trust/contracts-and-schemas", "/docs/positioning",
     "/docs/evidence_templates", "/docs/faq",
     "/docs/trust/deterministic-guarantees",
     "/docs/trust/detection-coverage-matrix",
     "/docs/trust/security-and-privacy", "/docs/trust/release-integrity",
     "/llms", "/llms.txt", "/llms-full.txt", "/ai-sitemap.xml",
     "/robots.txt"}

(* Resource links of the LLM context page and its "Back to docs" link.    *)
llmsLinks ==
    {"/llms.txt", "/llms-full.txt", "/llm/product.md", "/llm/quickstart.md",
     "/llm/security.md", "/llm/contracts.md", "/llm/faq.md", "/robots.txt",
     "/ai-sitemap.xml", "/docs"}

=============================================================================
