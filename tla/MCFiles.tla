------------------------------ MODULE MCFiles ------------------------------
(***************************************************************************)
(* A volume for Files: sectors of 4 bytes, 2 sectors to a cluster, two     *)
(* directory entries to a sector; names with 8 and 3 characters.           *)
(***************************************************************************)
EXTENDS Files

Slot(name, attrs, cluster, size) ==
    [name |-> name, attrs |-> attrs, hi |-> 0, lo |-> cluster, size |-> size]
Deleted == Slot("unused", {}, 3, 4)

(* The root directory: a label, a long name before its short one, a removed *)
(* file, a file in three clusters, a directory in two.                      *)
RootSlots == <<
    Slot("VOL", {"VOLUME_ID"}, 0, 0), Deleted,
    Slot("A", LFN, 0, 0), Slot("A", {"ARCHIVE"}, 3, 19),
    Slot("D", {"DIRECTORY"}, 5, 0)>>

(* The directory: its first cluster is full, the second has a file named as *)
(* the one in the root, another, and a stale slot behind the end.           *)
SubSlots == <<
    Slot(".", {"DIRECTORY"}, 5, 0), Slot("..", {"DIRECTORY"}, 0, 0),
    Deleted, Slot("B", {"ARCHIVE"}, 7, 8),
    Slot("A", {"ARCHIVE"}, 9, 3), EmptySlot, Slot("C", {"ARCHIVE"}, 7, 8)>>

Whole == [
    begin |-> 3, mbr |-> <<[status |-> 0, begin |-> 90, total |-> 40],
                           [status |-> 128, begin |-> 3, total |-> 40]>>,
    reserved |-> 1, fats |-> 2, fatSectors |-> 5, rootEntries |-> 5,
    rootSectors |-> 3, spc |-> 2, clusters |-> 2..9,
    chains |-> {<<3, 6, 4>>, <<5, 8>>, <<7>>, <<9>>},
    dirs |-> [d \in {ROOT, 5} |-> IF d = ROOT THEN RootSlots ELSE SubSlots]]

(* The same with a file whose chain is too short for its size.              *)
Truncated == [Whole EXCEPT !.chains = {<<3, 6>>, <<5, 8>>, <<7>>, <<9>>}]

MCVolumes == [whole |-> Whole, truncated |-> Truncated]

Name(short, stem, ext) ==
    [short |-> short, stem |-> stem, ext |-> ext, empty |-> FALSE, forbidden |-> FALSE]

(* ".." is a period with an extension, so its name is blank and matches     *)
(* nothing.                                                                 *)
MCSpelling ==
    [part \in {"a", "b", "c", "d", "e.long", "..", "", "d*"} |->
        CASE part = "a" -> Name("A", 1, 0)  [] part = "b"  -> Name("B", 1, 0)
          [] part = "c" -> Name("C", 1, 0)  [] part = "d"  -> Name("D", 1, 0)
          [] part = "e.long" -> Name("E", 1, 4)
          [] part = ".." -> Name(" .", 0, 1)
          [] part = "" -> [Name("", 0, 0) EXCEPT !.empty = TRUE]
          [] OTHER -> [Name("D*", 2, 0) EXCEPT !.forbidden = TRUE]]

MCPaths == {<<"a">>, <<"d", "a">>, <<"d", "", "b", "">>, <<"d", "c">>,
            <<"d">>, <<"..">>, <<"d*">>, <<"e.long">>}

MCListPaths == {<<>>, <<"">>, <<"d", "">>, <<"a", "b">>, <<"c">>}
=============================================================================
