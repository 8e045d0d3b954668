SPECIFICATION Spec
CONSTANTS
    kb = kb  py = py  sp = sp  wb = wb  wp = wp
    keyboard = keyboard  pinyin = pinyin  table = table  table2 = table2
    NoName = NoName
    Keyboard = keyboard
    Order <- MCOrder
    Owner <- MCOwner
    Lists <- MCLists
    PrefixOf <- Distinct
    Calls <- NoCalls
    Disabled = {sp}
    LangMatch = {kb, py, wb}
    Addon = {keyboard, pinyin, table, table2}
    Lazy = {pinyin}
    Removable = {table2}
    Edits = FALSE
INVARIANTS TypeOK IndexInRange IndexFollowsFocus
PROPERTIES SwitchTakesEffect RestartKeepsList
