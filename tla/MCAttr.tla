-------------------------------- MODULE MCAttr --------------------------------
(* Attr with values shorter than, as long as and longer than the column *)
EXTENDS Attr

MCValue == {<<>>, <<"b">>, <<"b", "a">>, <<"b", "a", "b">>}
=============================================================================
