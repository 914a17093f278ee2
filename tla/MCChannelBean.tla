--------------------------- MODULE MCChannelBean ---------------------------
EXTENDS ChannelBean

CONSTANTS s1, s2
============================================================================
