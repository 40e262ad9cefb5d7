SPECIFICATION MembershipSpec
CONSTANTS
  Person = {"ada", "bela"}
  Founder = "ada"
  SeededTenants = 2
  Visit = {v1, v2}
INVARIANTS OwnersOnboarded
CHECK_DEADLOCK FALSE
