SPECIFICATION Spec
CONSTANTS
    kb = kb  py = py  sp = sp  wb = wb  wp = wp
    keyboard = keyboard  pinyin = pinyin  table = table  table2 = table2
    NoName = NoName
    Keyboard = keyboard
    Order <- MCOrderShort
    Owner <- MCOwnerShort
    Lists <- MCListsShort
    PrefixOf <- DistinctShort
    Calls <- NoCallsShort
    Disabled = {}
    LangMatch = {kb, py}
    Addon = {keyboard, pinyin, table}
    Lazy = {}
    Removable = {pinyin, table}
    Edits = TRUE
PROPERTIES SwitchTakesEffect UnavailableRemembered
