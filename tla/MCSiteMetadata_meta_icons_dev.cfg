CONSTANTS
    Char <- MCChar
    Slash = "/"
    Origin <- MCOrigin
    BasePath <- MCBasePath
    Question = {q1, q2, q3}
    Answer = {a1}
    MaxFaqs = 3
SPECIFICATION Spec
INVARIANT IconsServedInEveryBuild
