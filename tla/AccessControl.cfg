SPECIFICATION Spec
CONSTANTS
  None = None
  root = root
  ann = ann
  admin_role = admin_role
  reader = reader
  admin_policy = admin_policy
  read_only = read_only
  read = read
  write = write
  c1 = c1
  c2 = c2
  a1 = a1
  a2 = a2
  Users <- MCUsers
  Customer <- MCCustomer
  Passwords = {1, 2}
  Roles <- MCRoles
  Policies <- MCPolicies
  Permissions = {read, write}
  Clients = {c1, c2}
  Admins = {a1, a2}
  Admin = root
  AdminRole = admin_role
  AdminPolicy = admin_policy
  AdminPassword = 1
  TokenLife = 2
  RoleLife = 1
  MaxTime = 2
  Budgets <- MCBudgets
SYMMETRY Symmetry
INVARIANTS TypeOK NewestIsHeld ServedWasGranted ExpirationIsKept
CHECK_DEADLOCK FALSE
