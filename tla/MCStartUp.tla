----------------------------- MODULE MCStartUp ------------------------------
(* Instances of StartUp for TLC: nine addons of fcitx with the priorities    *)
(* and the fallback of their files, and what they depend on among the nine.  *)
(* The two frontends, of one priority, come in either order.                *)
EXTENDS StartUp

CONSTANTS dbus, x11, xkb, xkbdbus, table, kimpanel, classic, ipc, xim

Modules == {dbus, x11, xkb, xkbdbus}

MCCategory == [a \in Addon |->
                 CASE a \in Modules -> "module" [] a = table -> "engine"
                   [] a \in {kimpanel, classic} -> "ui" [] OTHER -> "frontend"]

MCPriority == [a \in Addon |->
                 CASE a = dbus -> 25 [] a = x11 -> 30 [] a = classic -> 70 [] a = xkbdbus -> 80
                   [] OTHER -> 50]

MCDepends == [a \in Addon |->
                CASE a \in {xkb, classic, xim} -> {x11} [] a \in {kimpanel, ipc} -> {dbus}
                  [] a = xkbdbus -> {xkb, dbus} [] OTHER -> {}]

MCFallback == [a \in Addon |-> IF a = kimpanel THEN classic ELSE NoAddon]

MCListings == {<<dbus, x11, xkb, kimpanel, table, ipc, xim, classic, xkbdbus>>,
               <<dbus, x11, table, xim, ipc, kimpanel, xkb, classic, xkbdbus>>}

(* A user's own priority puts xkbdbus before xkb.                          *)
LatePriority == [MCPriority EXCEPT ![xkbdbus] = 40]
LateListings == {<<dbus, x11, xkbdbus, xkb, kimpanel, table, ipc, xim, classic>>}

MCOptions ==
    [conf : {Addon, Addon \ {x11}, Addon \ {classic}}, enable : {{}, {ipc}},
     disable : {{}, {All}, {dbus}}, uiname : {NoAddon, kimpanel},
     sem : BOOLEAN, fd : BOOLEAN]
=============================================================================
