SPECIFICATION Spec
CONSTANTS
    dbus = dbus  x11 = x11  xkb = xkb  xkbdbus = xkbdbus  table = table
    kimpanel = kimpanel  classic = classic  ipc = ipc  xim = xim
    Addon = {dbus, x11, xkb, xkbdbus, table, kimpanel, classic, ipc, xim}
    NoAddon = NoAddon
    All = All
    Category <- MCCategory
    Priority <- MCPriority
    Depends <- MCDepends
    Fallback <- MCFallback
    Listed = {}
    Watching = {dbus, x11}
    Listings <- MCListings
    Options <- MCOptions
INVARIANT FatalExits
CHECK_DEADLOCK FALSE
