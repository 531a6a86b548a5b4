SPECIFICATION Spec
CONSTANTS
  Conns = {c1}
  Names <- MCNames
  Passwords <- MCPasswords
  Subcommands <- MCSubcommands
  Requests <- MCRequests
  RuleLists <- MCRuleLists
  HarnessRules <- MCHarnessRules
  Configs <- MCConfigs
  MaxEntries = 2
  Texts <- MCTexts
  MaxCount = 2
INVARIANTS   LogIndexExact
CHECK_DEADLOCK FALSE
