-------------------------------- MODULE MCBoards --------------------------------
(***************************************************************************)
(* Small instances of Boards for TLC: postings are numbers, two of three    *)
(* share a box of the UIC news page, and the ids in the URLs are numbers a  *)
(* board may also display.                                                  *)
(***************************************************************************)
EXTENDS Boards

MCId == [p \in Posts |-> p + 1]
MCBox == [p \in Posts |-> p \div 2]

PlainBoard == {[renumbers |-> FALSE, repeats |-> FALSE, bare |-> {}]}
AllStyles == [renumbers : BOOLEAN, repeats : BOOLEAN, bare : {{}}]
               \union [renumbers : {FALSE}, repeats : {FALSE}, bare : {Posts}]
===============================================================================
