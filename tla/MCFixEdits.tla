----------------------------- MODULE MCFixEdits -----------------------------
(***************************************************************************)
(* A text of five tokens with one docblock; three repairs out of fifteen   *)
(* that touch, overlap, share an offset, repeat each other, reach beyond   *)
(* the text or are upside down.                                            *)
(***************************************************************************)
EXTENDS FixEdits

MCSource == <<"a", "doc", "tag", "close", "b">>
MCToken == {"a", "b", "doc", "tag", "close", "int", "x", "y", "v",
            "X", "Y", "Z", "V", "W", "I", "J", "N"}
MCDocblocks == {<<1, 4>>}

Replace(s, e, text) == [type |-> "replace", start |-> s, end |-> e, text |-> text]
Tag(anchor, kind, tag) == [type |-> "tag", anchor |-> anchor, kind |-> kind, tag |-> tag]

MCFixes ==
    {Replace(0, 1, <<"X">>), Replace(0, 1, <<"Y", "Z">>), Replace(1, 2, <<>>),
     Replace(2, 3, <<"V", "W">>), Replace(3, 3, <<"I">>), Replace(4, 4, <<"J">>), Replace(4, 9, <<"N">>),
     Replace(3, 2, <<"N">>),
     Tag(<<"new", 0, 0>>, "return", "int"), Tag(<<"new", 4, 4>>, "return", "int"),
     Tag(<<"new", 4, 4>>, "param", "x"), Tag(<<"new", 4, 4>>, "param", "y"),
     Tag(<<"existing", 1, 4>>, "return", "int"), Tag(<<"existing", 1, 4>>, "var", "v"),
     Tag(<<"existing", 0, 2>>, "var", "v")}
=============================================================================
