SPECIFICATION FairSpec
CONSTANTS
  lamp = lamp
  sensor = sensor
  level = level
  temperature = temperature
  Value = {level, temperature}
  Node = {lamp, sensor}
  NodeOf <- MCNodeOf
  Listening = {lamp}
  Verified = {level}
  Reading = {"on", "off"}
  Noise = "noise"
  Intensity = {0, 2}
  Byte = 3
  Bound <- MCBound
  Allowed = {"restored", "missing", "vanish"}
  Start = {level}
  None = None
PROPERTIES UnlockedUnlessGone StaysInStep NoiseNotShown PolledInTurn Converges
CHECK_DEADLOCK FALSE
