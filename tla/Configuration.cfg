\* Editors and a command, every configuration, and pairs of repository lists.
SPECIFICATION MCSpec
CONSTANTS
    c1 = c1
    c2 = c2
    Editors = {e1, e2}
    Commands = {c1, c2}
    MaxFiles = 2
    Contents <- MCContents
    Configs <- MCConfigs
    Arguments <- MCArguments
    Remotes <- MCRemotes
INVARIANTS
    ConfigInv
    EditLeavesUsableFile
    RequestsAreComplete
    ScopesAreAsMeant
    OneKeyPerScope
PROPERTIES
    TemplateNeverReplaces
