\* An isolation that failed half way and is asked for again.
CONSTANTS
  Resident = {ann, bob}
  City = {island}
  Approval = {island}
  Device = {"device"}
  Mobile = {}
  MaxSanctions = 2
  MaxFaults = 2
SPECIFICATION Spec
PROPERTIES
  HandlesBurnt
