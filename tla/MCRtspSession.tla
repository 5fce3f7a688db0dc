---------------------------- MODULE MCRtspSession ----------------------------
(* RtspSession on small instances.                                           *)
EXTENDS RtspSession, TLC

\* Video alone, twice, and with a subsession of no enabled codec on either side.
MCSessions == {<<"video">>, <<"video", "video">>, <<"video", "other">>, <<"other", "video">>}

\* No definition tells one stream from another.
StreamSymmetry == Permutations(Streams)
=============================================================================
