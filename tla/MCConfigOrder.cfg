SPECIFICATION SettingsSpec
CONSTANTS
  NaN = NaN
  Options <- SomeChoices
  ManualKeys <- SomeManualKeys
  ManualKinds = {"table", "broken"}
  MaxManual = 2
  MaxChosen = 2
INVARIANT ConfigInOrder
CHECK_DEADLOCK FALSE
