SPECIFICATION MCSpec
CONSTANTS
  Keyboards <- AllKeyboards
  MaxStack = 2
  Parts = {"words", "hotkeys", "convert"}
  Modifiers = {"ctrl", "shift", "alt"}
  Letters = {"a", "b", "caps"}
  Lock = "caps"
  Slots = {1, 2}
  ConvertSlot = 2
  NoKey = "none"
  Gestures <- MCGestures
  Words <- MCWords
  Natural <- MCNatural
  Setups <- MCSetups
INVARIANTS InStep RecallAndMacrosInPlace HotkeysAsMeant ConversionHarmless
PROPERTIES GivesBack ConversionEnds
CHECK_DEADLOCK FALSE
