CONSTANTS
    Char <- MCChar
    Slash = "/"
    Origin <- MCOrigin
    BasePath <- MCBasePath
    Navigation <- navigation
    Home <- MCHome
    LlmsHref <- MCLlmsHref
    PageLinks <- MCPageLinks
    NoNav = NoNav
SPECIFICATION Spec
INVARIANT DrawerFlagsMatchSidebar
