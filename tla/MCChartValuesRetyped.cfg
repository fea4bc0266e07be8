CONSTANTS
  Products <- MCProducts
  Datastreams <- MCDatastreams
  Unprefixed <- MCUnprefixed
  NumberTexts = {"5", "30"}
  PercentTexts = {"5%"}
  WordTexts = {"word"}
  SpacedTexts = {"two words"}
  RetypedTexts = {"no"}
  NullingTexts = {"&x"}
  CollectionTexts = {"[a]"}
  UncleanTexts = {"#"}
  MaxOverrides = 2
SPECIFICATION Spec
\* The installation is rendered or refused.
CHECK_DEADLOCK FALSE
INVARIANTS
  RetypingRefused
