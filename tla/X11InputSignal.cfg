\* A signal at a step that keeps two records in agreement.
SPECIFICATION InputSpec
CONSTANTS
  Chars = {".", "e", "control"}
  Keys = {"k60", "k61", "shift", "ctrl"}
  Mods = {"shift", "ctrl"}
  Shift = "shift"
  Buttons = {"left"}
  Scratch = "scratch"
  NoKey = "none"
  Groups = {"us", "ru"}
  Layout <- TwoLayouts
  Texts <- ShortTexts
  Asks = 1
  Upsets = 1
INVARIANT SignalReleasesAll
CHECK_DEADLOCK FALSE
