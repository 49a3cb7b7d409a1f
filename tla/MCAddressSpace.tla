--------------------------- MODULE MCAddressSpace ---------------------------
(***************************************************************************)
(* Two executables for AddressSpace, with pages of two bytes: one of code  *)
(* and of data that go on in pages the file does not have, and one without *)
(* anything in the file.                                                   *)
(***************************************************************************)
EXTENDS AddressSpace

Segment(addr, file, mem, offset) ==
    [load |-> TRUE, addr |-> addr, file |-> file, mem |-> mem, offset |-> offset]
Note == [load |-> FALSE, addr |-> 0, file |-> 1, mem |-> 1, offset |-> 9]

Program == <<Segment(0, 2, 2, 10), [Note EXCEPT !.addr = 2], Segment(4, 1, 4, 20)>>
OnlyBss == <<Segment(0, 0, 1, 10), Segment(2, 0, 0, 20)>>

MCExecutables == {Program, OnlyBss}
MCProgram == {Program}
=============================================================================
