-------------------------- MODULE MCConnectionWriter --------------------------
EXTENDS ConnectionWriter, ChannelPolicy

\* Nothing to catch up on, a replay, and a replay after a terminal resync.
MCCatchUps == {<<>>, <<"terminalNormal", "terminalNormal">>, <<"terminalHigh", "terminalNormal">>}

MCNoCatchUp == {<<>>}
=============================================================================
