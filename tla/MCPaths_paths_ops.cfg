CONSTANTS
    Char <- MCChar
    Slash = "/"
    Origin <- MCOrigin
    BasePath <- MCBasePath
    Inputs <- Probe
SPECIFICATION Spec
INVARIANT CanonicalUrlSameResource
INVARIANT CanonicalUrlUnderBase
