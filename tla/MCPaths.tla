------------------------------- MODULE MCPaths -------------------------------
(***************************************************************************)
(* Model for TLC of PathsProbe: every pair of paths built from up to three *)
(* tokens "/", "docs" and "wrkr", with the site's real origin and base     *)
(* path (src/lib/site.ts), so that inputs that already carry the base      *)
(* path, lack the leading slash or carry a trailing one all occur.         *)
(***************************************************************************)
EXTENDS PathsProbe

MCOrigin == "https://clyra-ai.github.io"
MCBasePath == "/wrkr"

Tokens == {"/", "docs", "wrkr"}

Probe == {""} \cup Tokens \cup {a \o b : a, b \in Tokens}
                \cup {a \o b \o c : a, b, c \in Tokens}

CharsOf(s) == {SubSeq(s, i, i) : i \in 1..Len(s)}

MCChar == CharsOf(MCOrigin) \cup UNION {CharsOf(t) : t \in Tokens}

=============================================================================
