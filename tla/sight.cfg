SPECIFICATION FairSpec
CONSTANTS
  Scenes = {"hall"}
  Queries = {q}
  Consumers = {"loop", q}
  Forcing = {q}
INVARIANT SightInv
PROPERTIES AwarenessYields SightGoesOn
