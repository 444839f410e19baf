SPECIFICATION FairSpec
CONSTANTS
  t1 = t1
  t2 = t2
  c1 = c1
  Task <- Tasks
  Conv = {c1}
  ConvOf <- OneConv
  Tool = {"crm.get_order"}
  Channel = {"webchat", "wecom_cs"}
  Workers <- TwoWorkers
  Wirings <- FullWiring
  InitTools = {"crm.get_order"}
  NoToken = NoToken
  MaxRestarts = 1
PROPERTIES
  ApprovedIsExecuted
