\* A resident banned between the request to join and its approval.
CONSTANTS
  Resident = {ann, bob}
  City = {island}
  Approval = {island}
  Device = {"device"}
  Mobile = {}
  MaxSanctions = 2
  MaxFaults = 2
SPECIFICATION Spec
PROPERTIES
  BannedStayOut
