------------------------------ MODULE MCSession ------------------------------
(***************************************************************************)
(* Model for TLC of Session over the site's real navigation tree and page *)
(* links (WrkrNavigation).                                                 *)
(***************************************************************************)
EXTENDS Session, WrkrNavigation

MCOrigin == "https://clyra-ai.github.io"
MCBasePath == "/wrkr"
MCHome == "/"
MCLlmsHref == "/llms"

MCPageLinks ==
    [r \in {"/", "/docs", "/llms"} |->
        IF r = "/" THEN homeLinks ELSE IF r = "/docs" THEN docsLinks ELSE llmsLinks]

CharsOf(str) == {SubSeq(str, i, i) : i \in 1..Len(str)}

MCChar ==
    UNION {CharsOf(str) : str \in {MCOrigin, MCBasePath} \cup homeLinks
                                   \cup docsLinks \cup llmsLinks
                                   \cup UNION {{navigation[s].href} \cup
                                               {navigation[s].children[i] :
                                                 i \in DOMAIN navigation[s].children}
                                               : s \in DOMAIN navigation}}

(* React keys of the real navigation tree (Sidebar.tsx:34, 52 and         *)
(* Header.tsx:28, 33): no two sections share a title and no section       *)
(* repeats an href.  A fact about the data, so TLC evaluates it once, on  *)
(* every run of this model.                                               *)
ASSUME NavigationKeysUnique == SiblingKeysUnique

=============================================================================
