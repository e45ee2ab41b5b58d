\* Two residents of one city that approves its members, with emails and a mobile
\* number between them; an isolation of both, two sanctions in all, two failures or
\* restarts.  Who is suspended by an isolation may come back with a number that was
\* not burnt.
CONSTANTS
  Resident = {ann, bob}
  City = {island}
  Approval = {island}
  Device = {}
  Mobile = {number}
  MaxSanctions = 2
  MaxFaults = 2
SPECIFICATION Spec
SYMMETRY Symmetry
INVARIANTS
  TypeOK
  BanHolds
  BurntForGood
  OneCascadeSanction
