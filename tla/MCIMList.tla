------------------------------ MODULE MCIMList ------------------------------
(* Instances of IMList for TLC: a keyboard layout, an engine loaded when it *)
(* is needed, with two input methods, and two that register themselves.     *)
EXTENDS IMList

CONSTANTS kb, py, sp, wb, wp,
          keyboard, pinyin, table, table2

MCOrder == <<kb, py, wb, wp, sp>>
MCOrderShort == <<kb, py, wb>>

MCOwner == [n \in Range(MCOrder) |->
              CASE n = kb -> keyboard [] n \in {py, sp} -> pinyin
                [] n = wb -> table    [] n = wp -> table2]
MCOwnerShort == [n \in Range(MCOrderShort) |-> MCOwner[n]]

(* Names of which none begins with another, or wb and wbpy (wp).            *)
Distinct == [n \in Range(MCOrder) |-> {n}]
DistinctShort == [n \in Range(MCOrderShort) |-> {n}]
Prefixed == [n \in Range(MCOrder) |-> IF n = wb THEN {wb, wp} ELSE {n}]

NoCalls == [n \in Range(MCOrder) |-> NoName]
NoCallsShort == [n \in Range(MCOrderShort) |-> NoName]
TableCalls == [n \in Range(MCOrder) |-> IF n = wb THEN pinyin ELSE NoName]

On(n) == [name |-> n, on |-> TRUE]
Off(n) == [name |-> n, on |-> FALSE]

MCLists == {<<>>, <<On(kb), On(py), On(wb), Off(wp), Off(sp)>>,
            <<On(wp), On(kb), On(sp), Off(py), On(wb)>>, <<On(kb), Off(py), Off(wb)>>,
            <<Off(kb), Off(py), Off(wb), Off(wp)>>}
MCListsShort == {<<>>, <<On(kb), On(wb), Off(py)>>, <<On(kb), Off(py), Off(wb)>>,
                 <<On(kb), On(wb), On(py)>>}

(* Three that are always there, and two engines that come and go whose names *)
(* begin alike.                                                            *)
MCOrderNames == <<kb, py, sp, wb, wp>>
MCOwnerNames == [MCOwner EXCEPT ![sp] = keyboard]
MCListsNames == {<<On(kb), On(py), On(sp), On(wp)>>}
=============================================================================
