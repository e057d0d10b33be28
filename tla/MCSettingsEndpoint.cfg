SPECIFICATION Spec
CONSTANTS
  home = home
  lab = lab
  small = small
  large = large
  light = light
  dark = dark
  s1 = s1
  s2 = s2
  Endpoint = {home, lab}
  Model = {small, large}
  Look = {light, dark}
  Default <- MCDefault
  Session = {s1, s2}
  Nowhere = Nowhere
  Temperature = {52, 53, 70}
  DefaultTemperature = 70
  Truncated = {53, 59, 105, 106, 117, 118}
  MaxDialogs = 2
  MaxPrompts = 2
  MaxFaults = 1
SYMMETRY MCSymmetry
PROPERTY EndpointAsConfigured
