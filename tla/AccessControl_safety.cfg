SPECIFICATION Spec
CONSTANTS
    u1 = u1
    u2 = u2
    u3 = u3
    Users = {u1, u2, u3}
    Keys = {k1}
    Service = service
    Builtin = {"owner", "security-admin"}
    Custom = {"custom"}
    Permissions = {"roles.manage", "keys.manage", "pii.reveal", "auth.settings.manage", "app.use"}
    RolesManage = "roles.manage"
    KeysManage = "keys.manage"
    OwnerOnlyPermissions = {"auth.settings.manage"}
    Registered = {"roles.manage", "keys.manage", "pii.reveal", "auth.settings.manage"}
    BuiltinRoles <- MCBuiltinRoles
    Seeded <- MCSeeded
    Bundles <- MCBundles
    Callers = {u2, u3, k1, service}
    Requests = {r1, r2}
    None = None
    MaxAssignments = 5
    MaxEvents = 4
SYMMETRY Symmetry
INVARIANT NoEscalation
INVARIANT UnambiguousUnlessRaced
CHECK_DEADLOCK FALSE
