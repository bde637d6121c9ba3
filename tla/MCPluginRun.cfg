SPECIFICATION Spec
CONSTANTS
  Plugins <- AllPlugins
  Options <- AllOptions
  Worlds <- AllWorlds
  Changes <- AllChanges
  Answer <- AllAnswer
  Effect <- AllEffect
  Step <- AllStep
  Claims <- AllClaims
  Deeds <- AllDeeds
  Holds <- AllHolds
  Overlooks <- AllOverlooks
  Excuses <- AllExcuses
  Timeout <- AllTimeout
  MaxChanges = 1
INVARIANT TypeOK
INVARIANT OkVouches
INVARIANT AlarmsAreReal
INVARIANT DeedsAreDone
INVARIANT NothingIsLeft
CHECK_DEADLOCK FALSE
