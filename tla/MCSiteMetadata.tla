--------------------------- MODULE MCSiteMetadata ---------------------------
(***************************************************************************)
(* Model for TLC of SiteMetadata with the site's real origin and base path *)
(* (src/lib/site.ts) and FAQ lists of up to three entries over three       *)
(* questions and one answer, duplicates and every order included.          *)
(***************************************************************************)
EXTENDS SiteMetadata

MCOrigin == "https://clyra-ai.github.io"
MCBasePath == "/wrkr"

CharsOf(str) == {SubSeq(str, i, i) : i \in 1..Len(str)}

MCChar == UNION {CharsOf(str) : str \in {MCOrigin, MCBasePath, "/docs/llms"}}

=============================================================================
