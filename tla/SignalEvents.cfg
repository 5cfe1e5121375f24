SPECIFICATION FairSpec
CONSTANTS
  a = a
  b = b
  fd = fd
  usr = usr
  hup = hup
  Null = Null
  Event = {a, b, fd}
  Signals = {usr, hup}
  SigOf <- Sigs
  MaxRaise = 2
  InSection = FALSE
INVARIANTS MaskAgrees NoPhantom IndInv
PROPERTIES SignalServed
