SPECIFICATION Spec
CONSTANTS
  Bases <- ShippedYAMLs
  RuntimeFiles <- RuntimeYAMLs
  Patches <- UIPatches
  Down = Down
  MaxConfigFaults = 2
  a = a
  b = b
  Nowhere = Nowhere
  Places = {a, b, Nowhere}
  Zone <- ZoneOf
  Automatic = Automatic
  Unknown = Unknown
  OpenMeteo = OpenMeteo
  Solcast = Solcast
  Nothing = Nothing
  Torn = Torn
  Configs <- Sites
  SolcastKeys = TRUE
  MaxChanges = 2
  MaxModelSteps = 2
  MaxFetchFaults = 1
INVARIANTS RunningIsReloadable UpgradeKeepsMeaning ForecastTrusted
PROPERTIES ZoneSettles
