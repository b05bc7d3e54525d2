SPECIFICATION LiveSpec
CONSTANTS
  machine = machine
  simple = simple
  report = report
  client = client
  oneoff = oneoff
  mailer = mailer
  Jobs <- MCJobs2
  Lanes <- MCLanes
  RunLanes = {machine}
  SimpleLane = simple
  ReportLane = report
  Workers <- OverlapWorkers
  Clients = {client}
  LaneOf <- OverlapLaneOf
  Fifo = FALSE
  MaxFaults = 1
  MaxSoftFails = 1
INVARIANT
  SingleMeasurement
PROPERTIES
  EndedStaysEnded
  EveryJobEnds
