SPECIFICATION Spec
CONSTANTS
  Speeds = {".5x", "1.0x", "2x"}
  Qualities = {"Auto", "360p", "480p", "720p"}
INVARIANT TypeOK
PROPERTIES
  SpeedStaysShown
  ChoiceComesBack
  QualityStaysShown
  ImplementsScreens
