SPECIFICATION Spec
CONSTANTS
  Item = {1, 2, 3, 4, 5}
  PageSize = 2
  MaxChanges = 2
  MaxEdits = 2
  Writer = {w1, w2}
  Retried = {w1}
  MaxEvents = 3
  UnitName = {"a", "b"}
  MaxTurns = 3
  Column = {"Name", "Key", "Prop", "Stamp"}
  MaxTables = 2
  MaxAttempts = 6
  MaxDelay = 60
  Script = {s1, s2}
  MaxTokens = 4
INVARIANTS TypeOK SteadyItemsRead TargetedRead FoundAgain RowShowsSource
           EveryUnitRuns UnitsServed SchemaFits CallTells CredentialFileSound
PROPERTIES ReadEnds SeedsSurvive NoLostEdit PublishesOwn UpsertsComeThrough
CHECK_DEADLOCK FALSE
