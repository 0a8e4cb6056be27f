SPECIFICATION LiveSpec
CONSTANTS
  d = d
  old = old
  c = c
  Nil = Nil
  Invalid = Invalid
  Daemons = {d, old}
  Commands = {c}
  Managed = {d}
  Knows <- MCKnows
  Statements <- MCStatements
  Files <- MCFiles
  Contents <- MCContents
  IntOf <- MCIntOf
  DurationOf <- MCDurationOf
  BoolOf <- MCBoolOf
  Globs <- MCGlobs
  GlobFits <- MCGlobFits
  Mentions <- MCMentions
  InboxSpellings <- InboxTexts
  Documents <- MCDocuments
  MaxFaults = 2
  MaxRotations = 1
INVARIANTS
  SchemaIsWhole
  ReviewIsLetIn
  RulesAsWritten
PROPERTY
  DaemonsComeUp
