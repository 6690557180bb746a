SPECIFICATION LiveSpec
CONSTANTS
  Threads = {t1, t2}
  None = none
  Executable = "exe"
  Bundles = {"b1", "b2", "b3", "b4"}
  Libraries = {"libSystem", "libNew", "libMissing"}
  Launched <- AtLaunch
  Modules <- LibraryModulesOf
  InitModule <- InitModuleOf
  Dependents <- DependentsOf
  Missing = {"libMissing"}
  Defines <- SymbolsOf
  Needs <- ReferencesOf
  LinkOptions <- PrivateOrPublic
  Unlinks = {"b2"}
  ByName = {"w", "y"}
  Handler = TRUE
PROPERTY LinksReturn
