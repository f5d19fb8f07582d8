SPECIFICATION Spec
CONSTANTS
    Tree <- MCTree
    Links <- MCLinks
    Roots <- MCRoots
    Entrypoints <- MCEntrypoints
    Descriptors <- MCDescriptors
    Specifiers <- MCSpecifiers
    Mjs <- MCMjs
    Odd <- MCOdd
INVARIANTS Contained RootLoads SamePolicy NamesResolve
CHECK_DEADLOCK FALSE
