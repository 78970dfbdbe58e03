CONSTANTS
  Radix = 4
  Word = 64
  Muids = {27}
  Devices = {3}
  NewMuids = {228}
  NewDevices = {127}
  Identities <- MCIdentities
  Numbers = {2}
  Blobs <- MCBlobs
  ProfileIds <- MCProfileIds
  Details <- MCDetails
  Damages = {1}
SPECIFICATION Spec
INVARIANT TypeOK
INVARIANT ReadBack
INVARIANT ViewsStayInside
INVARIANT CutIsNoticed
