SPECIFICATION Spec
CONSTANTS
  Types = {"IPERF_TCP", "IPERF_UDP", "HTTP", "NETPERF_TCP_STREAM", "NETPERF_TCP_RR", "SIMPLE"}
  Rates = {0, 5}
  NaN = NaN
  None = None
  Duration = 4
  Plugins = {"measure_cpu", "measure_power", "validate_offload"}
  Watts = {90, 200}
  Counts = {0, 1, 2}
  VF_REP_TRAFFIC_THRESHOLD = 2
  MaxSamples = 4
  Junk = Junk
INVARIANTS
  SuccessCanBeLogged
  NoFailureHidden
  AverageOfReadings
  SomethingCompared
