SPECIFICATION Spec
CONSTANTS
    kb = kb  py = py  sp = sp  wb = wb  wp = wp
    keyboard = keyboard  pinyin = pinyin  table = table  table2 = table2
    NoName = NoName
    Keyboard = keyboard
    Order <- MCOrderNames
    Owner <- MCOwnerNames
    Lists <- MCListsNames
    PrefixOf <- Prefixed
    Calls <- NoCalls
    Disabled = {}
    LangMatch = {kb, py, sp}
    Addon = {keyboard, pinyin, table, table2}
    Lazy = {pinyin}
    Removable = {table, table2}
    Edits = FALSE
INVARIANT IndexFollowsFocus
