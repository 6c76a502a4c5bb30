----------------------------- MODULE MCS3Upload -----------------------------
(* Instances of S3Upload for TLC.                                          *)
EXTENDS S3Upload

CONSTANTS p1, p2, p0

\* Two of the four types.  5 and 7 need one hexadecimal digit, 20 two.
MCSizesByType == [onescreen |-> 5, entire |-> 6]
MCKeyText     == [onescreen |-> <<"a", "/">>, entire |-> <<"b", "/">>, level |-> <<"b", ":">>]
MCUploads     == {<<p1, "onescreen">>, <<p1, "entire">>, <<p2, "onescreen">>,
                  <<p2, Level>>}
MCNamed       == {<<p2, "onescreen">>, <<p2, Level>>}
MCNoUploads   == {}
MCOneUpload   == {<<p1, "onescreen">>}
MCBodies      == {"onescreen", "entire", Level}
=============================================================================
