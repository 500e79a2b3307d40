\* Each driver with two or three requests and one failure, signal, act or change of the desktop.
SPECIFICATION FairSpec
CONSTANTS
  Chars = {".", "e", "control"}
  Keys = {"k60", "k61", "shift", "ctrl"}
  Mods = {"shift", "ctrl"}
  Shift = "shift"
  Buttons = {"left"}
  Scratch = "scratch"
  NoKey = "none"
  Groups = {"us", "ru"}
  Layout <- TwoLayouts
  Texts <- ShortTexts
  Asks = 2
  Upsets = 1
  Windows = {"editor", "dialog", "overlay"}
  Overlay = "overlay"
  Owner <- DialogOfEditor
  Covers = {"editor", "overlay"}
  NoWindow = "no window"
  WindowAsks = 2
  Acts = 1
  Nodes = {"w1", "w2", "row", "field"}
  Kids <- Rows
  AppWindows <- TwoWindows
  Title <- OneTitle
  Fields = {"field"}
  Expandable = {"row"}
  Queried = {"field", "row"}
  NoNode = "none"
  Maxima = {1}
  Depths = {1}
  Listings = 2
  ElementActions = 1
  Changes = 1
  Letters = {"a"}
  Modifiers = {"ctrl"}
  MouseButtons = {"left"}
  Slots = {"0", "1"}
  PortalAsks = 3
  Faults = 1
INVARIANTS InputSafe PortalSafe WindowsSafe ElementsSafe
PROPERTIES HelpersEnd
CHECK_DEADLOCK FALSE
