------------------------------ MODULE MCServer ------------------------------
EXTENDS Server

MCAddresses == {<<>>, <<"good">>, <<"good", "bad">>}
MCSigned == {-1, 0, 1}
=============================================================================
