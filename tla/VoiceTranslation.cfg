SPECIFICATION Spec
CONSTANTS
  Group = 9
  Channel = 11
  Notes = {102}
  Velocities <- MCVelocities
  Pitches = {65535}
  Controllers = {0, 7}
  Programs = {1, 127}
  Banks = {1, 16383}
  Levels <- MCLevels
  Increments <- MCIncrements
  MaxTopics = 2
INVARIANT TypeOK
INVARIANT HeardAsPlayed
INVARIANT TranslationAgrees
INVARIANT LosesNothingUpwards
PROPERTY NeverWraps
