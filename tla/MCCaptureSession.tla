--------------------------- MODULE MCCaptureSession ---------------------------
\* Four command lines: a command sequence after a setup sample, two state targets
\* reached from any state, and the rotating planner with the YARD Stick beside
\* the LilyGO and beside rtl_433.
EXTENDS CaptureSession

All   == <<"power_toggle", "flame_up", "flame_down", "fan_up", "fan_down">>
Flame == <<"power_toggle", "flame_up", "flame_down">>
Limit(flame, fan) == [power |-> 1, flame |-> flame, fan |-> fan]
At(power, flame, fan) == [power |-> power, flame |-> flame, fan |-> fan]

Base == [commands |-> Flame, plan |-> <<>>, targets |-> <<>>, replicates |-> 0, expected |-> "remote",
         valid |-> 2, attempts |-> 4, setup |-> FALSE,
         sources |-> {"rtl433", "lilygo"}, limit |-> Limit(2, 0)]

MCConfigs == {
  [Base EXCEPT !.plan = <<"flame_up", "flame_down">>, !.setup = TRUE, !.attempts = 3],
  [Base EXCEPT !.targets = <<At(1, 1, 0), At(1, 2, 1)>>, !.setup = TRUE, !.sources = {"rtl433"},
               !.commands = All, !.limit = Limit(2, 1), !.attempts = 7],
  [Base EXCEPT !.sources = {"yardstick", "lilygo"}, !.attempts = 3],
  [Base EXCEPT !.sources = {"yardstick", "rtl433"}]}
=============================================================================
