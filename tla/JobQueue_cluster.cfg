SPECIFICATION Spec
CONSTANTS
  machine = machine
  simple = simple
  report = report
  client = client
  oneoff = oneoff
  mailer = mailer
  Jobs <- MCJobs3
  Lanes <- MCLanes
  RunLanes = {machine}
  SimpleLane = simple
  ReportLane = report
  Workers <- ClusterWorkers
  Clients = {client}
  LaneOf <- ClusterLaneOf
  Fifo = TRUE
  MaxFaults = 1
  MaxSoftFails = 1
INVARIANTS
  MailSentOnce
  NoOvertaking
PROPERTY
  ImplementsJobLane
